-------------------------- MODULE MCAppPasswords --------------------------
(* Small instances of AppPasswords for TLC. *)
EXTENDS AppPasswords, TLC

Symmetry == Permutations(User) \cup Permutations(Password) \cup Permutations(Worker)
===========================================================================
