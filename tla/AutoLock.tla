------------------------------- MODULE AutoLock ------------------------------
(***************************************************************************)
(* The lock of CShmHashMap (system/ShmHashMap.hpp): Init makes the         *)
(* semaphore or opens it, and only who made it sets it to 1; CAutoLock     *)
(* (system/lock.hpp) and the table's vistor take it around each use, and   *)
(* try again when a signal interrupts them.                                *)
(***************************************************************************)
EXTENDS Semaphore

CONSTANT
  MakerDies    \* the process that makes the semaphore may die before SETALL

ASSUME MakerAssumption == MakerDies \in BOOLEAN

VARIABLES
  made,        \* the semaphore exists
  at           \* at[p]: where p is in the use of the lock

vars == <<semval, semadj, made, at>>

(* "new": not initialised; "made": made the semaphore, not yet set it;     *)
(* "out": holds nothing; "want": in lock(); "in": between lock and unlock. *)
Place == {"new", "made", "out", "want", "in"}

-----------------------------------------------------------------------------
Init ==
  /\ SemStart
  /\ made = FALSE
  /\ at = [p \in Proc |-> "new"]

Go(p, from, to) == at[p] = from /\ at' = [at EXCEPT ![p] = to]

(* Init: semget with IPC_EXCL, and SETALL if that made the semaphore, else *)
(* semget without.                                                         *)
SemMake(p) ==
  /\ Go(p, "new", "made")
  /\ ~made /\ made' = TRUE
  /\ UNCHANGED lockVars

SemSet(p) ==
  /\ Go(p, "made", "out")
  /\ SetVal
  /\ UNCHANGED made

SemOpen_Sets(p) ==   \* mutant: every Init sets the semaphore
  /\ Go(p, "new", "out")
  /\ made /\ SetVal
  /\ UNCHANGED made
SemOpen(p) ==
  /\ Go(p, "new", "out")
  /\ made
  /\ UNCHANGED <<semval, semadj, made>>

(* The constructor of CAutoLock or of a vistor; a process that holds the   *)
(* lock of a vistor makes no other call, it would wait for itself.         *)
LockCall(p) ==
  /\ Go(p, "out", "want")
  /\ UNCHANGED <<semval, semadj, made>>

Acquire(p) ==
  /\ Go(p, "want", "in")
  /\ SemDown(p)
  /\ UNCHANGED made

UnLock(p) ==
  /\ Go(p, "in", "out")
  /\ SemUp(p)
  /\ UNCHANGED made

(* A process dies and is started again.                                    *)
Die(p) ==
  /\ at[p] = "made" => MakerDies
  /\ at' = [at EXCEPT ![p] = "new"]
  /\ SemUndo(p)
  /\ UNCHANGED made

Next == \E p \in Proc :
  \/ SemMake(p) \/ SemSet(p) \/ SemOpen(p)
  \/ LockCall(p) \/ Acquire(p) \/ UnLock(p) \/ Die(p)

Spec == Init /\ [][Next]_vars

(* The maker goes on to SETALL, a holder to unlock, and the kernel serves  *)
(* the waiters in turn.                                                    *)
FairSpec ==
  Spec /\ \A p \in Proc : /\ WF_vars(SemSet(p)) /\ WF_vars(UnLock(p))
                          /\ SF_vars(Acquire(p))

-----------------------------------------------------------------------------
TypeOK ==
  /\ semval \in Nat
  /\ semadj \in [Proc -> Int]
  /\ made \in BOOLEAN
  /\ at \in [Proc -> Place]

(* At most one process uses the table, whichever processes run Init, are   *)
(* interrupted or die, and wherever they are then.                         *)
MutualExclusion == \A p, q \in Proc : at[p] = "in" /\ at[q] = "in" => p = q

(* Who waits for the lock gets it, or dies.                                *)
LockGranted == \A p \in Proc : at[p] = "want" ~> at[p] # "want"

=============================================================================
