------------------------------ MODULE MCDavGate ------------------------------
(* Small instances of DavGate for TLC.  No symmetry: the run checks a        *)
(* liveness property.                                                        *)
EXTENDS DavGate
=============================================================================
