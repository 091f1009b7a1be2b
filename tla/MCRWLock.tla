------------------------------ MODULE MCRWLock ------------------------------
(* RWLock for TLC.  Liveness is checked in the same run, so no symmetry.   *)
EXTENDS RWLock, TLC
=============================================================================
