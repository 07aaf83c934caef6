--------------------------- MODULE MCTransactions ---------------------------
(* Small instances of Transactions for TLC.  No symmetry: the run checks a   *)
(* liveness property.                                                        *)
EXTENDS Transactions
=============================================================================
