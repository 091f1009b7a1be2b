---------------------------- MODULE MCSPMCQueue ----------------------------
(* SPMCQueue for TLC.                                                      *)
EXTENDS SPMCQueue

CONSTANTS w, t1, h1
=============================================================================
