---------------------------- MODULE AutoLockProofs ---------------------------
(***************************************************************************)
(* Exclusion by the lock of CShmHashMap, without any proviso: because only *)
(* the maker of the semaphore sets it, no Init can open a held lock.       *)
(***************************************************************************)
EXTENDS AutoLock, TLAPS

AdjInv == \A p \in Proc : semadj[p] = IF at[p] = "in" THEN 1 ELSE 0

(* Before SETALL the semaphore is 0 and there is one maker at most.        *)
MakeInv ==
  /\ ~made => semval = 0 /\ \A p \in Proc : at[p] = "new"
  /\ \A p \in Proc : at[p] = "made" =>
       semval = 0 /\ \A q \in Proc : q = p \/ at[q] \notin {"made", "in"}

ValInv ==
  /\ semval \in {0, 1}
  /\ \A p \in Proc : at[p] = "in" => semval = 0

LockInv == TypeOK /\ AdjInv /\ MakeInv /\ ValInv /\ MutualExclusion

LEMMA InitLock == Init => LockInv
<1> SUFFICES ASSUME Init PROVE LockInv
  OBVIOUS
<1>1. \A p \in Proc : at[p] = "new" /\ semadj[p] = 0
  BY DEF Init, SemStart
<1>2. TypeOK
  <2>1. made \in BOOLEAN
    BY DEF Init
  <2>2. semval \in Nat /\ semadj \in [Proc -> Int] /\ at \in [Proc -> Place]
    BY DEF Init, SemStart, Place
  <2> QED
    BY <2>1, <2>2 DEF TypeOK
<1>3. AdjInv /\ MakeInv /\ ValInv /\ MutualExclusion
  BY <1>1 DEF Init, SemStart, AdjInv, MakeInv, ValInv, MutualExclusion
<1> QED
  BY <1>2, <1>3 DEF LockInv

LEMMA Steps == LockInv /\ [Next]_vars => LockInv'
<1> SUFFICES ASSUME LockInv, [Next]_vars PROVE LockInv'
  OBVIOUS
<1> USE DEF LockInv, TypeOK, AdjInv, MakeInv, ValInv, MutualExclusion, Place
<1>1. CASE UNCHANGED vars
  BY <1>1 DEF vars
<1>2. ASSUME NEW p \in Proc, SemMake(p) PROVE LockInv'
  BY <1>2 DEF SemMake, Go, lockVars
<1>3. ASSUME NEW p \in Proc, SemSet(p) PROVE LockInv'
  <2>1. \A q \in Proc : at[q] # "in" /\ (q = p \/ at[q] # "made")
    BY <1>3 DEF SemSet, Go
  <2> QED
    BY <1>3, <2>1 DEF SemSet, Go, SetVal
<1>4. ASSUME NEW p \in Proc, SemOpen(p) PROVE LockInv'
  BY <1>4 DEF SemOpen, Go
<1>5. ASSUME NEW p \in Proc, LockCall(p) PROVE LockInv'
  BY <1>5 DEF LockCall, Go
<1>6. ASSUME NEW p \in Proc, Acquire(p) PROVE LockInv'
  <2>1. semval = 1 /\ made /\ \A q \in Proc : at[q] \notin {"in", "made"}
    BY <1>6 DEF Acquire, Go, SemDown
  <2> QED
    BY <1>6, <2>1 DEF Acquire, Go, SemDown
<1>7. ASSUME NEW p \in Proc, UnLock(p) PROVE LockInv'
  <2>1. semval = 0 /\ made /\ \A q \in Proc : q = p \/ at[q] \notin {"in", "made"}
    BY <1>7 DEF UnLock, Go
  <2> QED
    BY <1>7, <2>1 DEF UnLock, Go, SemUp
<1>8. ASSUME NEW p \in Proc, Die(p) PROVE LockInv'
  <2>1. CASE at[p] = "in"
    <3>1. semval = 0 /\ made /\ \A q \in Proc : q = p \/ at[q] \notin {"in", "made"}
      BY <2>1
    <3> QED
      BY <1>8, <2>1, <3>1 DEF Die, SemUndo
  <2>2. CASE at[p] # "in"
    <3>1. UNCHANGED <<semval, semadj>>
      BY <1>8, <2>2 DEF Die, SemUndo
    <3> QED
      BY <1>8, <2>2, <3>1 DEF Die
  <2> QED
    BY <2>1, <2>2
<1> QED
  BY <1>1, <1>2, <1>3, <1>4, <1>5, <1>6, <1>7, <1>8 DEF Next

(* At most one process is in the table, whatever the interleaving of Init, *)
(* calls, signals and deaths.                                              *)
THEOREM Exclusion == Spec => []MutualExclusion
<1>1. LockInv => MutualExclusion
  BY DEF LockInv
<1> QED
  BY <1>1, InitLock, Steps, PTL DEF Spec

=============================================================================
