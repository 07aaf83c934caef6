----------------------------- MODULE MCBootstrap -----------------------------
(* Small instances of Bootstrap for TLC.  No symmetry: the run checks a      *)
(* liveness property.                                                        *)
EXTENDS Bootstrap
=============================================================================
