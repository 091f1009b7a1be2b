------------------------------ MODULE MCMonitor ------------------------------
EXTENDS Monitor, TLC

CONSTANTS t1, t2, t3, i1, i2, i3, i4, h1, h2

\* The bits of the thread id in a hash or a monitor id: no thread, or always t2.
NoIdBits == [x \in Hashes \cup Ids |-> None]
SecondThread == [x \in Hashes \cup Ids |-> t2]
SymmetricIds == Permutations(Ids)
Symmetric == Permutations(Threads) \cup Permutations(Ids) \cup Permutations(Hashes)
=============================================================================
