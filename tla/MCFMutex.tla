------------------------------ MODULE MCFMutex ------------------------------
(* FMutex for TLC: threads are interchangeable.                            *)
EXTENDS FMutex, TLC

Symmetry == Permutations(Threads)
=============================================================================
