---------------------------- MODULE SemLockProofs ----------------------------
(***************************************************************************)
(* Exclusion by the semaphore of CSemLock, for any number of processes and *)
(* deaths, as long as nobody has called sem_init while the lock was held   *)
(* and no signal has interrupted a waiter; and, whatever has been called   *)
(* and interrupted, that the semaphore is never closed for good.           *)
(***************************************************************************)
EXTENDS SemLock, FiniteSetTheorems, TLAPS

(* What is given back when p dies is exactly what p took.                  *)
AdjInv == \A p \in Proc : semadj[p] = IF at[p] = "in" THEN 1 ELSE 0

(* The semaphore is 0 as long as a process holds the lock, and 1 when none *)
(* does and some process has run sem_init.                                 *)
ValInv ==
  /\ semval \in {0, 1}
  /\ Inside # {} => semval = 0
  /\ (\E p \in Proc : at[p] \in {"out", "want"}) /\ Inside = {} => semval = 1

OneInside == \A p, q \in Inside : p = q

LockInv == TypeOK /\ AdjInv /\ ValInv /\ OneInside

(* What holds of every state.                                              *)
RuleInv == TypeOK /\ (kept => LockInv)

LEMMA InitLock == Init => LockInv
BY DEF Init, SemStart, LockInv, TypeOK, AdjInv, ValInv, OneInside, Inside, Place

(* A step of p that neither enters nor leaves the lock nor touches the     *)
(* semaphore, taken by a process that has run sem_init if it is to be one. *)
LEMMA Walk ==
  ASSUME LockInv, NEW p \in Proc, NEW from, NEW to, Go(p, from, to),
         from \in Place \ {"in"}, to \in Place \ {"in"},
         to \in {"out", "want"} => from \in {"out", "want"},
         UNCHANGED <<semval, semadj, kept>>
  PROVE  LockInv'
<1>1. Inside' = Inside
  BY DEF LockInv, TypeOK, Go, Inside
<1>2. TypeOK'
  BY DEF LockInv, TypeOK, Go
<1>3. AdjInv'
  BY DEF LockInv, TypeOK, AdjInv, Go
<1>4. ValInv'
  BY <1>1 DEF LockInv, TypeOK, ValInv, Go
<1> QED
  BY <1>1, <1>2, <1>3, <1>4 DEF LockInv, OneInside

(* Every step that keeps the rules keeps the lock exclusive.               *)
LEMMA Steps == kept' /\ LockInv /\ [Next]_vars => LockInv'
<1> SUFFICES ASSUME kept', LockInv, [Next]_vars
             PROVE  LockInv'
  OBVIOUS
<1> USE DEF LockInv
<1>1. CASE UNCHANGED vars
  BY <1>1 DEF vars, TypeOK, AdjInv, ValInv, OneInside, Inside
<1>2. ASSUME NEW p \in Proc, SemGet(p) PROVE LockInv'
  BY <1>2, Walk DEF SemGet, Place
<1>3. ASSUME NEW p \in Proc, LockCall(p) PROVE LockInv'
  BY <1>3, Walk DEF LockCall, Place
<1>4. ASSUME NEW p \in Proc, SemInit(p) PROVE LockInv'
  <2> USE <1>4 DEF SemInit, SetVal, Go
  <2>1. Inside = {} /\ Inside' = {}
    BY DEF TypeOK, Inside
  <2>2. TypeOK'
    BY DEF TypeOK, Place
  <2>3. AdjInv'
    BY <2>1 DEF TypeOK, AdjInv, Inside
  <2>4. ValInv' /\ OneInside'
    BY <2>1 DEF ValInv, OneInside
  <2> QED
    BY <2>2, <2>3, <2>4
<1>5. ASSUME NEW p \in Proc, Acquire(p) PROVE LockInv'
  <2> USE <1>5 DEF Acquire, SemDown, Go
  <2>1. semval = 1 /\ Inside = {} /\ semadj[p] = 0
    BY DEF TypeOK, AdjInv, ValInv
  <2>2. semval' = 0 /\ Inside' = {p}
    BY <2>1 DEF TypeOK, Inside
  <2>3. TypeOK'
    BY <2>1 DEF TypeOK, Place
  <2>4. AdjInv'
    BY <2>1 DEF TypeOK, AdjInv
  <2>5. ValInv' /\ OneInside'
    BY <2>2 DEF ValInv, OneInside
  <2> QED
    BY <2>3, <2>4, <2>5
<1>6. ASSUME NEW p \in Proc, UnLock(p) PROVE LockInv'
  <2> USE <1>6 DEF UnLock, SemUp, Go
  <2>1. semval = 0 /\ Inside = {p} /\ semadj[p] = 1
    BY DEF TypeOK, AdjInv, ValInv, OneInside, Inside
  <2>2. semval' = 1 /\ Inside' = {}
    BY <2>1 DEF TypeOK, Inside
  <2>3. TypeOK'
    BY <2>1 DEF TypeOK, Place
  <2>4. AdjInv'
    BY <2>1 DEF TypeOK, AdjInv
  <2>5. ValInv' /\ OneInside'
    BY <2>2 DEF ValInv, OneInside
  <2> QED
    BY <2>3, <2>4, <2>5
<1>7. ASSUME NEW p \in Proc, Die(p) PROVE LockInv'
  <2> USE <1>7 DEF Die, SemUndo
  <2>1. Inside' = Inside \ {p}
    BY DEF TypeOK, Inside
  <2>2. TypeOK'
    BY DEF TypeOK, Place
  <2>3. AdjInv'
    BY DEF TypeOK, AdjInv
  <2>4. CASE at[p] = "in"
    <3>1. semval = 0 /\ Inside = {p} /\ semadj[p] = 1
      BY <2>4 DEF TypeOK, AdjInv, ValInv, OneInside, Inside
    <3>2. semval' = 1 /\ Inside' = {}
      BY <2>1, <3>1
    <3> QED
      BY <2>2, <2>3, <3>2 DEF ValInv, OneInside
  <2>5. CASE at[p] # "in"
    <3>1. semval' = semval /\ Inside' = Inside
      BY <2>1, <2>5 DEF TypeOK, AdjInv, Inside
    <3>2. ValInv'
      BY <3>1 DEF TypeOK, ValInv
    <3> QED
      BY <2>2, <2>3, <3>1, <3>2 DEF OneInside
  <2> QED
    BY <2>4, <2>5
<1>8. ASSUME NEW p \in Proc, Interrupted(p) PROVE LockInv'
  BY <1>8 DEF Interrupted
<1> QED
  BY <1>1, <1>2, <1>3, <1>4, <1>5, <1>6, <1>7, <1>8 DEF Next, Run

LEMMA Types == TypeOK /\ [Next]_vars => TypeOK'
<1> SUFFICES ASSUME TypeOK, [Next]_vars PROVE TypeOK'
  OBVIOUS
<1>1. CASE UNCHANGED vars
  BY <1>1 DEF vars, TypeOK
<1>2. ASSUME NEW p \in Proc, SemGet(p) PROVE TypeOK'
  BY <1>2 DEF TypeOK, SemGet, Go, Place
<1>3. ASSUME NEW p \in Proc, SemInit(p) PROVE TypeOK'
  <2>1. kept' \in BOOLEAN
    BY <1>3, Zenon DEF TypeOK, SemInit
  <2> QED
    BY <1>3, <2>1 DEF TypeOK, SemInit, SetVal, Go, Place
<1>4. ASSUME NEW p \in Proc, LockCall(p) PROVE TypeOK'
  BY <1>4 DEF TypeOK, LockCall, Go, Place
<1>5. ASSUME NEW p \in Proc, Acquire(p) PROVE TypeOK'
  BY <1>5 DEF TypeOK, Acquire, SemDown, Go, Place
<1>6. ASSUME NEW p \in Proc, Interrupted(p) PROVE TypeOK'
  BY <1>6 DEF TypeOK, Interrupted, lockVars, Go, Place
<1>7. ASSUME NEW p \in Proc, UnLock(p) PROVE TypeOK'
  BY <1>7 DEF TypeOK, UnLock, SemUp, Go, Place
<1>8. ASSUME NEW p \in Proc, Die(p) PROVE TypeOK'
  BY <1>8 DEF TypeOK, Die, SemUndo, Place
<1> QED
  BY <1>1, <1>2, <1>3, <1>4, <1>5, <1>6, <1>7, <1>8 DEF Next, Run

(* A rule once broken stays broken, so the past kept the rules too.        *)
LEMMA KeptBefore == TypeOK /\ [Next]_vars /\ kept' => kept
BY DEF TypeOK, Next, Run, vars, SemGet, SemInit, LockCall, Acquire, Interrupted, UnLock, Die

LEMMA Always == Spec => []RuleInv
<1>1. Init => RuleInv
  BY InitLock DEF RuleInv, LockInv
<1>2. RuleInv /\ [Next]_vars => RuleInv'
  BY Types, KeptBefore, Steps DEF RuleInv
<1> QED
  BY <1>1, <1>2, PTL DEF Spec

(* Between Lock() and UnLock() there is at most one process, whoever dies  *)
(* where, as long as sem_init ran only while nobody held the lock and no   *)
(* signal made semop return early.                                         *)
THEOREM Exclusion == Spec => []MutualExclusion
<1>1. RuleInv => MutualExclusion
  BY DEF RuleInv, LockInv, OneInside, MutualExclusion
<1> QED
  BY <1>1, Always, PTL

(* The semaphore and its holders always add up to one: a death neither     *)
(* loses the lock nor opens it for two (same rules).                       *)
THEOREM UnitKept == Spec => []NoLostUnit
<1>1. RuleInv => NoLostUnit
  <2> SUFFICES ASSUME LockInv, \E p \in Proc : at[p] \in {"out", "want", "in"}
               PROVE  semval + Cardinality(Inside) = 1
    BY DEF NoLostUnit, RuleInv
  <2>1. CASE Inside = {}
    <3>1. semval = 1
      BY <2>1 DEF LockInv, ValInv, Inside
    <3> QED
      BY <2>1, <3>1, FS_EmptySet
  <2>2. CASE Inside # {}
    <3>1. PICK p \in Inside : Inside = {p}
      BY <2>2 DEF LockInv, OneInside
    <3>2. Cardinality({p}) = 1
      BY FS_Singleton
    <3> QED
      BY <2>2, <3>1, <3>2 DEF LockInv, ValInv
  <2> QED
    BY <2>1, <2>2
<1> QED
  BY <1>1, Always, PTL

-----------------------------------------------------------------------------
(***************************************************************************)
(* The semaphore's units when rules have been broken.  A process whose     *)
(* undo count is 1 has a unit; one that left the lock without having taken *)
(* it, after a signal or a SETVAL, owes those it has added.                *)
(***************************************************************************)
Open == \E p \in Proc : at[p] \in {"out", "want", "in"}

Takers == {p \in Proc : semadj[p] > 0}
Owed(p, n) == {p} \X (1 .. n)
Debts == UNION {Owed(p, -semadj[p]) : p \in Proc}

(* The units in the semaphore and with the takers are more than are owed.  *)
UnitInv ==
  /\ TypeOK
  /\ \A p \in Proc : semadj[p] <= 1 /\ (semadj[p] > 0 => at[p] = "in")
  /\ IsFiniteSet(Takers) /\ IsFiniteSet(Debts)
  /\ Open => semval + Cardinality(Takers) > Cardinality(Debts)

LEMMA OwedSize ==
  ASSUME NEW p, NEW n \in Nat
  PROVE  IsFiniteSet(Owed(p, n)) /\ Cardinality(Owed(p, n)) = n
<1>1. IsFiniteSet({p}) /\ Cardinality({p}) = 1
  BY FS_Singleton
<1>2. IsFiniteSet(1 .. n) /\ Cardinality(1 .. n) = n
  BY FS_Interval
<1>3. /\ IsFiniteSet({p} \X (1 .. n))
      /\ Cardinality({p} \X (1 .. n)) = Cardinality({p}) * Cardinality(1 .. n)
  BY <1>1, <1>2, FS_Product
<1>4. 1 * n = n
  OBVIOUS
<1> QED
  BY <1>1, <1>2, <1>3, <1>4 DEF Owed

LEMMA InDebts ==
  \A d : d \in Debts <=> \E p \in Proc : \E i \in 1 .. -semadj[p] : d = <<p, i>>
BY DEF Debts, Owed

LEMMA InDebtsNext ==
  \A d : d \in Debts' <=> \E p \in Proc : \E i \in 1 .. -semadj'[p] : d = <<p, i>>
BY DEF Debts, Owed

(* What p has or owes changes nothing of the others.                       *)
LEMMA UnitsOf ==
  ASSUME TypeOK, NEW p \in Proc, NEW n \in Int, semadj' = [semadj EXCEPT ![p] = n]
  PROVE  /\ n > 0 => Takers' = Takers \cup {p}
         /\ n <= 0 => Takers' = Takers \ {p}
         /\ Debts' = (Debts \ Owed(p, -semadj[p])) \cup Owed(p, -n)
         /\ Owed(p, -semadj[p]) \subseteq Debts
         /\ (Debts \ Owed(p, -semadj[p])) \cap Owed(p, -n) = {}
<1>1. semadj \in [Proc -> Int]
  BY DEF TypeOK
<1>2. semadj'[p] = n /\ \A q \in Proc : q # p => semadj'[q] = semadj[q]
  BY <1>1
<1>3. (n > 0 => Takers' = Takers \cup {p}) /\ (n <= 0 => Takers' = Takers \ {p})
  BY <1>1, <1>2 DEF Takers
<1>4. \A k \in Int : \A d : d \in Owed(p, k) <=> \E i \in 1 .. k : d = <<p, i>>
  BY DEF Owed
<1>5. Owed(p, -semadj[p]) \subseteq Debts
  BY DEF Debts
<1>6. ASSUME NEW d \in Debts, d \notin Owed(p, -semadj[p])
      PROVE  d \in Debts' /\ d \notin Owed(p, -n)
  <2>1. PICK q \in Proc : \E i \in 1 .. -semadj[q] : d = <<q, i>>
    BY InDebts
  <2>2. q # p
    BY <1>1, <1>4, <1>6, <2>1
  <2> QED
    BY <1>2, <1>4, <2>1, <2>2, InDebtsNext
<1>7. ASSUME NEW d \in Debts', d \notin Owed(p, -n)
      PROVE  d \in Debts /\ d \notin Owed(p, -semadj[p])
  <2>1. PICK q \in Proc : \E i \in 1 .. -semadj'[q] : d = <<q, i>>
    BY InDebtsNext
  <2>2. q # p
    BY <1>2, <1>4, <1>7, <2>1
  <2> QED
    BY <1>1, <1>2, <1>4, <2>1, <2>2, InDebts
<1>8. Owed(p, -n) \subseteq Debts'
  BY <1>2, <1>4, InDebtsNext
<1> QED
  BY <1>3, <1>5, <1>6, <1>7, <1>8

(* How many there are after it.                                            *)
LEMMA UnitsLeft ==
  ASSUME UnitInv, NEW p \in Proc, NEW n \in Int, n <= 1, semadj' = [semadj EXCEPT ![p] = n]
  PROVE  /\ IsFiniteSet(Takers') /\ IsFiniteSet(Debts')
         /\ Cardinality(Takers) \in Nat /\ Cardinality(Takers') \in Nat
         /\ Cardinality(Debts) \in Nat /\ Cardinality(Debts') \in Nat
         /\ Cardinality(Takers') - Cardinality(Debts')
              = Cardinality(Takers) - Cardinality(Debts) + n - semadj[p]
<1> DEFINE a == semadj[p]
           D == Owed(p, -a)
           E == Owed(p, -n)
           d == IF a > 0 THEN 0 ELSE -a
           e == IF n > 0 THEN 0 ELSE -n
<1>1. TypeOK /\ a \in Int /\ a <= 1 /\ IsFiniteSet(Takers) /\ IsFiniteSet(Debts)
  BY DEF UnitInv, TypeOK
<1>2. /\ n > 0 => Takers' = Takers \cup {p}
      /\ n <= 0 => Takers' = Takers \ {p}
      /\ Debts' = (Debts \ D) \cup E /\ D \subseteq Debts /\ (Debts \ D) \cap E = {}
  BY <1>1, UnitsOf
<1>3. d \in Nat /\ e \in Nat /\ D = Owed(p, d) /\ E = Owed(p, e)
  <2>1. a > 0 => 1 .. -a = 1 .. 0
    BY <1>1
  <2>2. n > 0 => 1 .. -n = 1 .. 0
    OBVIOUS
  <2> QED
    BY <1>1, <2>1, <2>2 DEF Owed
<1>4. /\ IsFiniteSet(D) /\ Cardinality(D) = d
      /\ IsFiniteSet(E) /\ Cardinality(E) = e
  BY <1>3, OwedSize
<1> HIDE DEF D, E
<1>5. /\ IsFiniteSet(Debts \ D)
      /\ Cardinality(Debts \ D) = Cardinality(Debts) - d
  <2>1. Debts \cap D = D
    BY <1>2
  <2>2. /\ IsFiniteSet(Debts \ D)
        /\ Cardinality(Debts \ D) = Cardinality(Debts) - Cardinality(Debts \cap D)
    BY <1>1, FS_Difference
  <2> QED
    BY <1>4, <2>1, <2>2
<1>6. /\ IsFiniteSet((Debts \ D) \cup E)
      /\ Cardinality((Debts \ D) \cup E) = Cardinality(Debts \ D) + e - Cardinality({})
  BY <1>2, <1>4, <1>5, FS_Union
<1>7. Cardinality({}) = 0 /\ Cardinality(Debts) \in Nat /\ Cardinality(Takers) \in Nat
  BY <1>1, FS_EmptySet, FS_CardinalityType
<1>8. IsFiniteSet(Debts') /\ Cardinality(Debts') = Cardinality(Debts) - d + e
  BY <1>2, <1>3, <1>5, <1>6, <1>7
<1>9. p \in Takers <=> a > 0
  BY DEF Takers
<1>10. /\ IsFiniteSet(Takers')
       /\ Cardinality(Takers') = Cardinality(Takers) + (IF n > 0 THEN 1 ELSE 0)
                                   - (IF a > 0 THEN 1 ELSE 0)
  <2>1. CASE n > 0
    <3>1. /\ IsFiniteSet(Takers \cup {p})
          /\ Cardinality(Takers \cup {p}) =
               IF p \in Takers THEN Cardinality(Takers) ELSE Cardinality(Takers) + 1
      BY <1>1, FS_AddElement
    <3>2. Takers' = Takers \cup {p} /\ (IF n > 0 THEN 1 ELSE 0) = 1
      BY <1>2, <2>1
    <3>3. CASE a > 0
      BY <1>7, <1>9, <3>1, <3>2, <3>3
    <3>4. CASE ~(a > 0)
      BY <1>7, <1>9, <3>1, <3>2, <3>4
    <3> QED
      BY <3>3, <3>4
  <2>2. CASE n <= 0
    <3>1. /\ IsFiniteSet(Takers \ {p})
          /\ Cardinality(Takers \ {p}) =
               IF p \in Takers THEN Cardinality(Takers) - 1 ELSE Cardinality(Takers)
      BY <1>1, FS_RemoveElement
    <3> QED
      BY <1>2, <1>7, <1>9, <2>2, <3>1
  <2> QED
    BY <2>1, <2>2
<1>11. Cardinality(Debts') \in Nat /\ Cardinality(Takers') \in Nat
  BY <1>8, <1>10, FS_CardinalityType
<1>12. (IF n > 0 THEN 1 ELSE 0) - e = n /\ (IF a > 0 THEN 1 ELSE 0) - d = a
  BY <1>1
<1> HIDE DEF d, e, a
<1> QED
  BY <1>1, <1>3, <1>7, <1>8, <1>10, <1>11, <1>12 DEF a

LEMMA UnitsSame ==
  ASSUME UnitInv, TypeOK', UNCHANGED lockVars, Open' => Open,
         \A p \in Proc : at[p] = "in" => at'[p] = "in"
  PROVE  UnitInv'
<1>1. Takers' = Takers /\ Debts' = Debts /\ semval' = semval
  BY DEF lockVars, Takers, Debts
<1> QED
  BY <1>1 DEF UnitInv, lockVars

LEMMA UnitsCleared ==
  ASSUME TypeOK', semval' = 1, semadj' = [p \in Proc |-> 0]
  PROVE  UnitInv'
<1>1. Takers' = {}
  BY DEF Takers
<1>2. Debts' = {}
  BY InDebtsNext
<1> QED
  BY <1>1, <1>2, FS_EmptySet DEF UnitInv

LEMMA UnitStep == UnitInv /\ [Next]_vars => UnitInv'
<1> SUFFICES ASSUME UnitInv, [Next]_vars PROVE UnitInv'
  OBVIOUS
<1>0. TypeOK /\ TypeOK'
  BY Types DEF UnitInv
<1>1. CASE UNCHANGED vars
  BY <1>0, <1>1, UnitsSame DEF vars, lockVars, Open
<1>2. ASSUME NEW p \in Proc, NEW from, NEW to, Go(p, from, to), UNCHANGED lockVars,
             from # "in", from \in {"out", "want"} \/ to \notin {"out", "want", "in"}
      PROVE  UnitInv'
  <2>1. /\ at[p] = from /\ at'[p] = to
        /\ \A q \in Proc : q # p => at'[q] = at[q]
    BY <1>0, <1>2 DEF Go, TypeOK
  <2>2. Open' => Open
    BY <1>2, <2>1 DEF Open
  <2> QED
    BY <1>0, <1>2, <2>1, <2>2, UnitsSame
<1>3. ASSUME NEW p \in Proc, SemGet(p) PROVE UnitInv'
  BY <1>2, <1>3 DEF SemGet, lockVars
<1>4. ASSUME NEW p \in Proc, SemInit(p) PROVE UnitInv'
  BY <1>0, <1>4, UnitsCleared DEF SemInit, SetVal
<1>5. ASSUME NEW p \in Proc, LockCall(p) PROVE UnitInv'
  BY <1>2, <1>5 DEF LockCall, lockVars
<1>6. ASSUME NEW p \in Proc, Interrupted(p) PROVE UnitInv'
  BY <1>2, <1>6 DEF Interrupted
<1>7. ASSUME NEW p \in Proc, NEW n \in Int, n <= 1, semadj' = [semadj EXCEPT ![p] = n],
             \A q \in Proc : q # p => at'[q] = at[q],
             n > 0 => at'[p] = "in",
             semval' >= semval + semadj[p] - n,
             Open' => Open
      PROVE  UnitInv'
  <2>1. /\ semadj'[p] = n /\ \A q \in Proc : q # p => semadj'[q] = semadj[q]
        /\ semadj[p] \in Int /\ semval \in Int /\ semval' \in Int
    BY <1>0, <1>7 DEF TypeOK
  <2>2. \A q \in Proc : semadj'[q] <= 1 /\ (semadj'[q] > 0 => at'[q] = "in")
    BY <1>7, <2>1 DEF UnitInv
  <2>3. /\ IsFiniteSet(Takers') /\ IsFiniteSet(Debts')
        /\ Cardinality(Takers) \in Nat /\ Cardinality(Takers') \in Nat
        /\ Cardinality(Debts) \in Nat /\ Cardinality(Debts') \in Nat
        /\ Cardinality(Takers') - Cardinality(Debts')
             = Cardinality(Takers) - Cardinality(Debts) + n - semadj[p]
    BY <1>7, UnitsLeft
  <2>4. Open => semval + Cardinality(Takers) > Cardinality(Debts)
    BY DEF UnitInv
  <2>5. Open' => semval' + Cardinality(Takers') > Cardinality(Debts')
    BY <1>7, <2>1, <2>3, <2>4
  <2> QED
    BY <1>0, <2>2, <2>3, <2>5 DEF UnitInv
<1>8. ASSUME NEW p \in Proc, Acquire(p) PROVE UnitInv'
  <2>1. /\ at[p] = "want" /\ at'[p] = "in" /\ \A q \in Proc : q # p => at'[q] = at[q]
        /\ semadj[p] \in Int /\ semadj[p] <= 0 /\ semval \in Int
    BY <1>0, <1>8 DEF Acquire, Go, TypeOK, UnitInv
  <2>2. semval' = semval - 1 /\ semadj' = [semadj EXCEPT ![p] = semadj[p] + 1]
    BY <1>8 DEF Acquire, SemDown
  <2>3. Open
    BY <2>1 DEF Open
  <2>4. semadj[p] + 1 \in Int /\ semadj[p] + 1 <= 1
        /\ semval' >= semval + semadj[p] - (semadj[p] + 1)
    BY <2>1, <2>2
  <2> QED
    BY <1>7, <2>1, <2>2, <2>3, <2>4
<1>9. ASSUME NEW p \in Proc, UnLock(p) PROVE UnitInv'
  <2> DEFINE n == semadj[p] - 1
  <2>1. /\ at[p] = "in" /\ \A q \in Proc : q # p => at'[q] = at[q]
        /\ semadj[p] \in Int /\ semadj[p] <= 1 /\ semval \in Int
    BY <1>0, <1>9 DEF UnLock, Go, TypeOK, UnitInv
  <2>2. semval' = semval + 1 /\ semadj' = [semadj EXCEPT ![p] = n]
    BY <1>9 DEF UnLock, SemUp
  <2>3. Open
    BY <2>1 DEF Open
  <2>4. n \in Int /\ n <= 1 /\ ~(n > 0) /\ semval' >= semval + semadj[p] - n
    BY <2>1, <2>2
  <2> HIDE DEF n
  <2> QED
    BY <1>7, <2>1, <2>2, <2>3, <2>4
<1>10. ASSUME NEW p \in Proc, Die(p) PROVE UnitInv'
  <2> DEFINE n == 0
  <2>1. /\ at'[p] = "new" /\ \A q \in Proc : q # p => at'[q] = at[q]
        /\ semadj[p] \in Int /\ semval \in Int
    BY <1>0, <1>10 DEF Die, TypeOK
  <2>2. semval' >= semval + semadj[p] - n /\ semadj' = [semadj EXCEPT ![p] = n]
    BY <1>10, <2>1 DEF Die, SemUndo
  <2>3. Open' => Open
    BY <2>1 DEF Open
  <2>4. n \in Int /\ n <= 1 /\ ~(n > 0)
    OBVIOUS
  <2> HIDE DEF n
  <2> QED
    BY <1>7, <2>1, <2>2, <2>3, <2>4
<1> QED
  BY <1>1, <1>3, <1>4, <1>5, <1>6, <1>8, <1>9, <1>10 DEF Next, Run

(* Whatever rules are broken, a semaphore at 0 is opened by the exit or    *)
(* the death of a process that is past Lock().                             *)
THEOREM ClosedByOne == Spec => []ClosedByHolder
<1>1. Init => UnitInv
  <2> SUFFICES ASSUME Init PROVE UnitInv
    OBVIOUS
  <2>1. TypeOK /\ ~Open /\ \A p \in Proc : semadj[p] = 0
    BY DEF Init, SemStart, TypeOK, Place, Open
  <2>2. Takers = {} /\ Debts = {}
    BY <2>1, InDebts DEF Takers
  <2> QED
    BY <2>1, <2>2, FS_EmptySet DEF UnitInv
<1>2. UnitInv => ClosedByHolder
  <2> SUFFICES ASSUME UnitInv, Open, semval = 0
               PROVE  \E p \in Inside : semadj[p] > 0
    BY DEF UnitInv, TypeOK, ClosedByHolder, Open
  <2>1. Cardinality(Takers) > Cardinality(Debts) /\ Cardinality(Debts) \in Nat
    BY FS_CardinalityType DEF UnitInv
  <2>2. Takers # {}
    BY <2>1, FS_EmptySet
  <2> QED
    BY <2>2 DEF UnitInv, Takers, Inside
<1> QED
  BY <1>1, <1>2, UnitStep, PTL DEF Spec

=============================================================================
