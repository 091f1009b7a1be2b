-------------------------- MODULE MCTaskScheduler --------------------------
(* TaskScheduler for TLC.                                                  *)
EXTENDS TaskScheduler

CONSTANTS w1, w2, u1, m, fg, bg
=============================================================================
