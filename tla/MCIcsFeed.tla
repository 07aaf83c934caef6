------------------------------ MODULE MCIcsFeed ------------------------------
(* Small instances of IcsFeed for TLC. *)
EXTENDS IcsFeed, TLC

Symmetry == Permutations(Poller) \cup Permutations(Feed) \cup Permutations(Content) \cup Permutations(User)
=============================================================================
