------------------------------- MODULE SemLock -------------------------------
(***************************************************************************)
(* CSemLock and CLockGuard (system/lock.h, lock.cpp): one System V         *)
(* semaphore, taken with SEM_UNDO, around every call of the shared-memory  *)
(* queue, stack and array.                                                 *)
(***************************************************************************)
EXTENDS Semaphore, FiniteSets

VARIABLES
  at,          \* at[p]: where p is in the use of the lock
  kept         \* nothing has yet broken the two rules the lock relies on

vars == <<semval, semadj, at, kept>>

(* "new": not initialised; "set": between semget and semctl; "out": holds  *)
(* nothing; "want": in sem_lock; "in": after Lock() returned.              *)
Place == {"new", "set", "out", "want", "in"}

Inside == {p \in Proc : at[p] = "in"}

-----------------------------------------------------------------------------
Init ==
  /\ SemStart
  /\ at = [p \in Proc |-> "new"]
  /\ kept = TRUE

Go(p, from, to) == at[p] = from /\ at' = [at EXCEPT ![p] = to]

(* sem_init: semget, which opens or creates, then SETVAL in either case.   *)
(* A process may run it again: each Init of a queue, stack or array does.  *)
SemGet(p) ==
  /\ Go(p, "new", "set") \/ Go(p, "out", "set")
  /\ UNCHANGED <<semval, semadj, kept>>

(* The first rule: nobody runs it while another process holds the lock.    *)
SemInit(p) ==
  /\ Go(p, "set", "out")
  /\ SetVal
  /\ kept' = (kept /\ Inside = {})

(* CLockGuard's constructor: Lock() waits in semop ...                     *)
LockCall(p) ==
  /\ Go(p, "out", "want")
  /\ UNCHANGED <<semval, semadj, kept>>

Acquire(p) ==
  /\ Go(p, "want", "in")
  /\ SemDown(p)
  /\ UNCHANGED kept

(* ... or returns -1 when a signal handler interrupts it, which the guard  *)
(* ignores.  The second rule: the process has no such handler.             *)
Interrupted(p) ==
  /\ semval = 0
  /\ Go(p, "want", "in")
  /\ kept' = FALSE
  /\ UNCHANGED lockVars

(* CLockGuard's destructor.                                                *)
UnLock(p) ==
  /\ Go(p, "in", "out")
  /\ SemUp(p)
  /\ UNCHANGED kept

(* A process dies and is started again.                                    *)
Die(p) ==
  /\ at' = [at EXCEPT ![p] = "new"]
  /\ SemUndo(p)
  /\ UNCHANGED kept

Run(p) == SemGet(p) \/ SemInit(p) \/ Acquire(p) \/ Interrupted(p) \/ UnLock(p)

Next == \E p \in Proc : Run(p) \/ LockCall(p) \/ Die(p)

Spec == Init /\ [][Next]_vars

(* The kernel gives a free semaphore to its waiters in turn, so that none  *)
(* is passed over for ever, and who holds the lock goes on to UnLock().    *)
(* Nobody has to call sem_init or Lock().                                  *)
FairSpec == Spec /\ \A p \in Proc : SF_vars(Acquire(p)) /\ WF_vars(UnLock(p))

-----------------------------------------------------------------------------
TypeOK ==
  /\ semval \in Nat
  /\ semadj \in [Proc -> Int]
  /\ at \in [Proc -> Place]
  /\ kept \in BOOLEAN

(* While the rules are kept, at most one process is between Lock() and     *)
(* UnLock(), whoever dies where.                                           *)
MutualExclusion == kept => \A p, q \in Inside : p = q

(* A free semaphore is not lost by a death: once some process has run      *)
(* sem_init, either one process holds the lock or its value is 1, never    *)
(* more, so the next death cannot open it twice (same rules).              *)
NoLostUnit ==
  kept /\ (\E p \in Proc : at[p] \in {"out", "want", "in"}) =>
     semval + Cardinality(Inside) = 1

(* Also when calls of sem_init reset a held semaphore, signals interrupt   *)
(* waiters and holders die, a semaphore at 0 has somebody who will open it:*)
(* a process past Lock() whose exit or death adds to the value.            *)
ClosedByHolder ==
  (\E p \in Proc : at[p] \in {"out", "want", "in"}) =>
     semval > 0 \/ \E p \in Inside : semadj[p] > 0

(* Who waits for the lock gets it (or dies), also when holders die.        *)
LockGranted ==
  \A p \in Proc : at[p] = "want" ~> at[p] # "want"

=============================================================================
