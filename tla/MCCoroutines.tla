---------------------------- MODULE MCCoroutines ----------------------------
(* Coroutines for TLC.                                                     *)
EXTENDS Coroutines

CONSTANTS w0, w1
=============================================================================
