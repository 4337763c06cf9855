------------------------------ MODULE MCAutoLock -----------------------------
(* Four processes and one semaphore.                                       *)
EXTENDS AutoLock
CONSTANTS p1, p2, p3, p4
MCProc == {p1, p2, p3, p4}
=============================================================================
