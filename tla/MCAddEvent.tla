----------------------------- MODULE MCAddEvent -----------------------------
(* Small instances of AddEvent for TLC. *)
EXTENDS AddEvent, TLC

TwoSummers == {[spring |-> 44, autumn |-> 56], [spring |-> 80, autumn |-> 92]}

\* A short month is followed by a long one.
UnequalMonths == [m \in 0..8 |-> <<0, 3, 6, 8, 12, 15, 18, 21, 24>>[m + 1]]

Symmetry == Permutations(Uid) \cup Permutations(Post)
=============================================================================
