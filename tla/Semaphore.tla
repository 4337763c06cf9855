------------------------------ MODULE Semaphore ------------------------------
(***************************************************************************)
(* A System V semaphore used with SEM_UNDO, as the kernel keeps it: the    *)
(* calls that system/lock.cpp, lock.hpp and ShmHashMap.hpp make on it.     *)
(***************************************************************************)
EXTENDS Integers

CONSTANT Proc   \* the processes

VARIABLES
  semval,       \* the value of the semaphore; 0 when it is created
  semadj        \* semadj[p]: what the kernel adds to semval when p dies

lockVars == <<semval, semadj>>

SemStart ==
  /\ semval = 0
  /\ semadj = [p \in Proc |-> 0]

(* SETVAL or SETALL to 1: also forgets what every process has to give back.*)
SetVal_Two ==   \* mutant
  /\ semval' = 2
  /\ semadj' = [p \in Proc |-> 0]
SetVal ==
  /\ semval' = 1
  /\ semadj' = [p \in Proc |-> 0]

(* semop -1 and +1 with SEM_UNDO; the first waits for a positive value.    *)
SemDown_NoUndo(p) ==   \* mutant: without SEM_UNDO
  /\ semval > 0
  /\ semval' = semval - 1
  /\ UNCHANGED semadj
SemDown(p) ==
  /\ semval > 0
  /\ semval' = semval - 1
  /\ semadj' = [semadj EXCEPT ![p] = @ + 1]
SemUp(p) ==
  /\ semval' = semval + 1
  /\ semadj' = [semadj EXCEPT ![p] = @ - 1]

(* The kernel's part in the death of p: the value does not go below 0.     *)
SemUndo(p) ==
  /\ semval' = IF semval + semadj[p] < 0 THEN 0 ELSE semval + semadj[p]
  /\ semadj' = [semadj EXCEPT ![p] = 0]

=============================================================================
