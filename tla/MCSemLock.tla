------------------------------ MODULE MCSemLock ------------------------------
(* Four processes and one semaphore.                                       *)
EXTENDS SemLock
CONSTANTS p1, p2, p3, p4
MCProc == {p1, p2, p3, p4}
=============================================================================
