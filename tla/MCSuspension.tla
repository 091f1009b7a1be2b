---------------------------- MODULE MCSuspension ----------------------------
EXTENDS Suspension

CONSTANTS m, t1, t2, gc
=============================================================================
