-------------------------- MODULE ShmStoresProofs ---------------------------
(***************************************************************************)
(* The processes of a shared-memory class use its semaphore as CSemLock    *)
(* allows, and with it a queue is one FIFO queue and a stack one LIFO      *)
(* stack for all who have attached it, for any number of processes, items, *)
(* sizes and deaths.  The semaphore gives mutual exclusion (Guarded, from  *)
(* the invariant of SemLockProofs); with it, what a process has read or    *)
(* stored in the middle of a call is still there at its next step          *)
(* (StackInv, QueueInv), and each store is then a step of the abstract     *)
(* queue or stack or changes nothing that can be seen.  The cells of an    *)
(* array are set and deleted as a whole: who is in a cell is alone in it,  *)
(* by the semaphore or by its read-write lock (ArrayInv).                  *)
(***************************************************************************)
EXTENDS ShmStores, FiniteSetTheorems, TLAPS

Sem == INSTANCE SemLockProofs WITH at <- [p \in Proc |-> Place(p)]

-----------------------------------------------------------------------------
(* Where a process can be in which call.                                   *)
Domains ==
  /\ DOMAIN pc = Proc /\ DOMAIN op = Proc
  /\ \A p \in Proc : DOMAIN op[p] = {"call", "arg", "v"}

ArrayCalls == {"length", "get", "delete", "set"}
Calls ==
  {"none", "init"} \cup
  IF kind = "queue" THEN {"enqueue", "dequeue", "clean", "ask"}
  ELSE IF kind = "stack" THEN {"push", "pop", "size"}
  ELSE ArrayCalls

Control(p) ==
  /\ op[p].call \in Calls
  /\ op[p].call = "none" <=> pc[p] \in {"new", "set", "out", "ready"}
  /\ pc[p] \in {"rwwait", "rwbegin", "rwleave", "rwreturn", "length"} =>
       kind = "rwarray" /\ op[p].call # "init"
  /\ kind = "rwarray" /\ pc[p] \in {"wait", "begin", "leave"} => op[p].call = "init"

ControlInv == setup \in Setups /\ Domains /\ \A p \in Proc : Control(p)

LEMMA Kinds ==
  ASSUME setup \in Setups
  PROVE  /\ kind \in {"queue", "stack", "array", "rwarray"}
         /\ setup.items \subseteq Item /\ setup.sizes \subseteq 1 .. SizeMax
BY SegmentAssumption DEF kind

(* A step of p inside a call: it does not touch the semaphore.             *)
Between == {"new", "set", "out", "ready"}
Inner(p) ==
  /\ Go(p, pc[p], pc'[p])
  /\ {pc[p], pc'[p]} \cap (Between \cup {"wait"}) = {}
  /\ pc'[p] \in {"rwwait", "rwbegin", "rwleave", "rwreturn", "length"} =>
       kind = "rwarray" /\ op[p].call # "init"
  /\ kind = "rwarray" /\ pc'[p] \in {"begin", "leave"} => op[p].call = "init"
  /\ UNCHANGED op \/ \E x : op' = [op EXCEPT ![p].v = x]
  /\ UNCHANGED <<setup, semval, semadj, kept>>

LEMMA InnerControl ==
  ASSUME ControlInv, NEW p \in Proc, Inner(p)
  PROVE  ControlInv'
<1>1. /\ \A q \in Proc \ {p} : pc'[q] = pc[q] /\ op'[q] = op[q]
      /\ op'[p].call = op[p].call /\ Calls' = Calls /\ kind' = kind
      /\ DOMAIN pc' = Proc /\ DOMAIN op' = Proc
      /\ \A q \in Proc : DOMAIN op'[q] = {"call", "arg", "v"}
  BY DEF ControlInv, Domains, Go, kind, Calls, Inner
<1>2. ASSUME NEW q \in Proc PROVE Control(q)'
  BY <1>1 DEF ControlInv, Control, Between, Inner
<1> QED BY <1>1, <1>2 DEF ControlInv, Domains, Inner

(* All steps but those that begin or end a call, wait or die are of it.    *)
LEMMA InnerSteps ==
  ASSUME ControlInv, NEW p \in Proc,
         \/ InitCreate(p) \/ InitAttach(p) \/ InitRemove(p) \/ InitFail(p) \/ InitLost(p)
         \/ QueueStep(p) /\ ~Exit(p)
         \/ StackStep(p)
         \/ ArrayStep(p) /\ ~RWReturn(p)
         \/ RWLock(p)
  PROVE  Inner(p)
<1>k. kind \in {"queue", "stack", "array", "rwarray"}
  BY Kinds DEF ControlInv
<1>d. DOMAIN pc = Proc
  BY DEF ControlInv, Domains
<1> USE <1>d DEF Inner, Between, In, Go, Quiet
<1>1. CASE InitCreate(p) \/ InitAttach(p) \/ InitRemove(p) \/ InitFail(p) \/ InitLost(p)
  BY <1>1 DEF InitCreate, InitAttach, InitRemove, InitFail, InitLost, Creates
<1>2. CASE QueueStep(p) /\ ~Exit(p)
  BY <1>2 DEF QueueStep, QueueHead, QueueCheck, QueueAbort, PushFull, PushNode, PushRear,
     PopEmpty, PopNode, PopFront, CleanFront, CleanRear, Ask, InitStore,
     ControlInv, Control, Calls, ArrayCalls
<1>3. CASE StackStep(p)
  BY <1>3 DEF StackStep, StackHead, StackFound, StackFull, StackNode, StackPushed, StackEmpty,
     StackTop, StackPopped, StackSize, InitStore, ControlInv, Control, Calls, ArrayCalls
<1>4. CASE ArrayStep(p) /\ ~RWReturn(p)
  <2>1. CASE ArrayHead(p) \/ ArrayFound(p) \/ RWFound(p) \/ RWLocks(p) \/ RWHead(p)
    BY <2>1 DEF ArrayHead, ArrayFound, RWFound, RWLocks, RWHead, InitStore
  <2>2. CASE Overflow(p) \/ Length(p)
    <3>1. op[p].call \in ArrayCalls
      BY <2>2 DEF Overflow, Length, ArrayCalls
    <3>2. kind \in {"array", "rwarray"} /\ op[p].call # "init"
      BY <3>1, <1>k DEF ControlInv, Control, Calls, ArrayCalls
    <3>3. /\ pc[p] = First
          /\ pc' = [pc EXCEPT ![p] = Last] /\ UNCHANGED <<op, setup, semval, semadj, kept>>
      BY <2>2 DEF Overflow, Length
    <3> QED BY <3>2, <3>3 DEF First, Last
  <2>3. CASE RWIndex(p)
    BY <2>3 DEF RWIndex, ControlInv, Control
  <2>4. CASE SetFlag(p) \/ SetData(p) \/ GetUnset(p) \/ GetData(p) \/ Delete(p)
    <3>1. op[p].call \in {"set", "get", "delete"} /\ kind \in {"array", "rwarray"}
      BY <2>4, <1>k DEF SetFlag, SetData, GetUnset, GetData, Delete, ControlInv, Control, Calls
    <3> QED BY <2>4, <3>1 DEF SetFlag, SetData, GetUnset, GetData, Delete, Begin, Leave
  <2> QED BY <1>4, <2>1, <2>2, <2>3, <2>4 DEF ArrayStep
<1>5. CASE RWLock(p)
  <2>1. pc[p] = "rwwait" /\ kind = "rwarray" /\ op[p].call # "init"
    BY <1>5 DEF RWLock, ControlInv, Control
  <2>2. pc' = [pc EXCEPT ![p] = "rwbegin"] /\ UNCHANGED <<op, setup, semval, semadj, kept>>
    BY <1>5 DEF RWLock
  <2> QED BY <2>1, <2>2
<1> QED BY <1>1, <1>2, <1>3, <1>4, <1>5

(* A step that takes p out of its call, or into one.                       *)
LEMMA Turns ==
  ASSUME ControlInv, NEW p \in Proc, NEW to, NEW call, 
         pc' = [pc EXCEPT ![p] = to],
         op' = [op EXCEPT ![p] = call] \/ (UNCHANGED op /\ call = op[p]),
         UNCHANGED setup,
         DOMAIN call = {"call", "arg", "v"}, call.call \in Calls,
         call.call = "none" <=> to \in {"new", "set", "out", "ready"},
         to \in {"rwwait", "rwbegin", "rwleave", "rwreturn", "length"} =>
           kind = "rwarray" /\ call.call # "init",
         kind = "rwarray" /\ to \in {"wait", "begin", "leave"} => call.call = "init"
  PROVE  ControlInv'
<1>1. /\ pc'[p] = to /\ op'[p] = call
      /\ \A q \in Proc \ {p} : pc'[q] = pc[q] /\ op'[q] = op[q]
      /\ Calls' = Calls /\ kind' = kind
      /\ DOMAIN pc' = Proc /\ DOMAIN op' = Proc
  BY DEF ControlInv, Domains, kind, Calls
<1>2. ASSUME NEW q \in Proc PROVE Control(q)' /\ DOMAIN op'[q] = {"call", "arg", "v"}
  BY <1>1 DEF ControlInv, Control, Domains
<1> QED BY <1>1, <1>2 DEF ControlInv, Domains

LEMMA Records ==
  \A c, n, x : /\ DOMAIN Asked(c, n) = {"call", "arg", "v"}
              /\ Asked(c, n).call = c /\ Asked(c, n).arg = n
              /\ DOMAIN Given(c, n, x) = {"call", "arg", "v"}
              /\ Given(c, n, x).call = c /\ Given(c, n, x).arg = n /\ Given(c, n, x).v = x
BY DEF Asked, Given

LEMMA Enters ==
  ASSUME ControlInv, NEW p \in Proc, NEW from, NEW to, NEW call,
         Enter(p, from, to, call),
         DOMAIN call = {"call", "arg", "v"}, call.call \in Calls \ {"none"},
         IF kind = "rwarray" /\ call.call # "init" THEN to = "length" ELSE to = "wait"
  PROVE  ControlInv'
BY Turns DEF Enter, Go, Quiet

LEMMA Leaves ==
  ASSUME ControlInv, NEW p \in Proc, NEW to \in {"new", "out"},
         pc' = [pc EXCEPT ![p] = to], op' = [op EXCEPT ![p] = NoCall], UNCHANGED setup
  PROVE  ControlInv'
<1>1. DOMAIN NoCall = {"call", "arg", "v"} /\ NoCall.call = "none" /\ "none" \in Calls
  BY Records DEF NoCall, Calls
<1> QED BY <1>1, Turns

LEMMA ControlStep == ControlInv /\ [Next]_vars => ControlInv'
<1> SUFFICES ASSUME ControlInv, [Next]_vars PROVE ControlInv'
  OBVIOUS
<1>k. kind \in {"queue", "stack", "array", "rwarray"}
  BY Kinds DEF ControlInv
<1>1. CASE UNCHANGED vars
  BY <1>1 DEF vars, ControlInv, Domains, Control, kind, Calls
<1>2. ASSUME NEW p \in Proc, SemGet(p) \/ SemInit(p) PROVE ControlInv'
  <2> QED BY SMTT(30), <1>2, Turns DEF SemGet, SemInit, Go, Quiet, ControlInv, Control, Domains
<1>3. ASSUME NEW p \in Proc, NEW n \in setup.sizes, InitCall(p, n) PROVE ControlInv'
  BY <1>3, Enters, Records DEF InitCall, Calls
<1>4. ASSUME NEW p \in Proc, Acquire(p) \/ Interrupted(p) PROVE ControlInv'
  BY <1>4, Turns DEF Acquire, Interrupted, Go, ControlInv, Control, Domains
<1>5. ASSUME NEW p \in Proc, Exit(p) PROVE ControlInv'
  BY <1>5, Leaves DEF Exit
<1>6. ASSUME NEW p \in Proc, UnLock(p) PROVE ControlInv'
  BY <1>6, Leaves DEF UnLock, Go
<1>7. ASSUME NEW p \in Proc, QueueCall(p) PROVE ControlInv'
  BY <1>7, Enters, Records DEF QueueCall, Ready, Calls
<1>8. ASSUME NEW p \in Proc, StackCall(p) PROVE ControlInv'
  BY <1>8, Enters, Records DEF StackCall, Ready, Calls
<1>9. ASSUME NEW p \in Proc, ArrayCall(p) PROVE ControlInv'
  BY <1>9, Enters, Records DEF ArrayCall, Ready, Calls, ArrayCalls
<1>10. ASSUME NEW p \in Proc, RWReturn(p) PROVE ControlInv'
  BY <1>10, Leaves DEF RWReturn, Go, Quiet
<1>11. ASSUME NEW p \in Proc, Inner(p) PROVE ControlInv'
  BY <1>11, InnerControl
<1> QED
  BY <1>1, <1>2, <1>3, <1>4, <1>5, <1>6, <1>7, <1>8, <1>9, <1>10, <1>11, InnerSteps
     DEF Next, Work, InitStep, Die

-----------------------------------------------------------------------------
(* The use of the semaphore.                                               *)
at == [q \in Proc |-> Place(q)]

PlaceIs(p) ==
  /\ pc[p] \in {"new", "set", "out"} => Place(p) = pc[p]
  /\ pc[p] = "ready" => Place(p) = "out"
  /\ pc[p] = "wait" => Place(p) = "want"
  /\ pc[p] \notin Between \cup {"wait"} =>
       Place(p) = IF kind = "rwarray" /\ op[p].call # "init" THEN "out" ELSE "in"

LEMMA Places ==
  ASSUME NEW p \in Proc
  PROVE  PlaceIs(p) /\ PlaceIs(p)'
BY DEF PlaceIs, Place, Between

LEMMA OnePlace ==
  ASSUME NEW p \in Proc, UNCHANGED setup,
         \A q \in Proc \ {p} : pc'[q] = pc[q] /\ op'[q] = op[q]
  PROVE  at' = [at EXCEPT ![p] = Place(p)']
<1>1. ASSUME NEW q \in Proc \ {p} PROVE Place(q)' = Place(q)
  BY DEF Place, kind
<1> QED BY <1>1 DEF at

LEMMA LockStep ==
  ASSUME ControlInv, ControlInv', [Next]_vars
  PROVE  [Sem!Next]_(Sem!vars)
<1> DEFINE Same == UNCHANGED <<semval, semadj, kept, at>>
<1>s. ASSUME Same PROVE [Sem!Next]_(Sem!vars)
  BY <1>s DEF Sem!vars, at
<1>o. ASSUME NEW p \in Proc, Go(p, pc[p], pc'[p]) \/ pc' = [pc EXCEPT ![p] = pc'[p]],
             \/ UNCHANGED op
             \/ \E x : op' = [op EXCEPT ![p] = x]
             \/ \E x : op' = [op EXCEPT ![p].v = x],
             UNCHANGED setup
      PROVE  at' = [at EXCEPT ![p] = Place(p)'] /\ at[p] = Place(p)
  BY <1>o, OnePlace DEF Go, ControlInv, Domains, at
<1>1. CASE UNCHANGED vars
  BY <1>1, <1>s DEF vars, at, Place, kind
<1>2. ASSUME NEW p \in Proc, SemGet(p) PROVE Sem!SemGet(p)
  <2>1. /\ pc[p] \in {"new", "out"} /\ pc'[p] = "set" /\ pc' = [pc EXCEPT ![p] = pc'[p]]
        /\ UNCHANGED <<setup, op, semval, semadj, kept>>
    BY <1>2 DEF SemGet, Go, Quiet, ControlInv, Domains
  <2>2. at[p] \in {"new", "out"} /\ at' = [at EXCEPT ![p] = "set"]
    BY <2>1, <1>o, Places DEF PlaceIs
  <2> QED BY <2>1, <2>2 DEF Sem!SemGet, Sem!Go, at
<1>3. ASSUME NEW p \in Proc, SemInit(p) PROVE Sem!SemInit(p)
  <2>1. /\ pc[p] = "set" /\ pc'[p] = "ready" /\ pc' = [pc EXCEPT ![p] = pc'[p]]
        /\ UNCHANGED <<setup, op>> /\ Lock!SetVal
    BY <1>3 DEF SemInit, Go, ControlInv, Domains
  <2>2. at[p] = "set" /\ at' = [at EXCEPT ![p] = "out"]
    BY <2>1, <1>o, Places DEF PlaceIs
  <2>3. kept' = (kept /\ Sem!Inside = {})
    BY <1>3 DEF SemInit, Lock!Inside, Sem!Inside
  <2> QED BY <2>1, <2>2, <2>3 DEF Sem!SemInit, Sem!Go, Sem!SetVal, Lock!SetVal, at
<1>4. ASSUME NEW p \in Proc, NEW from \in {"ready", "out"}, NEW to, NEW call,
             Enter(p, from, to, call),
             IF kind = "rwarray" /\ call.call # "init" THEN to = "length" ELSE to = "wait"
      PROVE  [Sem!Next]_(Sem!vars)
  <2>1. /\ pc[p] = from /\ pc'[p] = to /\ pc' = [pc EXCEPT ![p] = pc'[p]]
        /\ op'[p] = call /\ op' = [op EXCEPT ![p] = call]
        /\ UNCHANGED <<setup, semval, semadj, kept>> /\ kind' = kind
    BY <1>4 DEF Enter, Go, Quiet, ControlInv, Domains, kind
  <2>2. at[p] = "out" /\ at' = [at EXCEPT ![p] = Place(p)']
    BY <2>1, <1>o, Places DEF PlaceIs
  <2>3. CASE to = "wait"
    <3>1. Place(p)' = "want"
      BY <2>1, <2>3, Places DEF PlaceIs
    <3> QED BY <2>1, <2>2, <3>1 DEF Sem!LockCall, Sem!Go, Sem!Next, at
  <2>4. CASE to = "length" /\ kind = "rwarray" /\ call.call # "init"
    <3>1. Place(p)' = "out"
      BY <2>1, <2>4, Places DEF PlaceIs, Between
    <3> QED BY <2>1, <2>2, <3>1, <1>s DEF at
  <2> QED BY <1>4, <2>3, <2>4
<1>5. ASSUME NEW p \in Proc, Acquire(p) PROVE Sem!Acquire(p)
  <2>1. /\ pc[p] = "wait" /\ pc'[p] = "begin" /\ pc' = [pc EXCEPT ![p] = pc'[p]]
        /\ UNCHANGED <<setup, op, kept>> /\ kind' = kind /\ Lock!SemDown(p)
        /\ kind = "rwarray" => op[p].call = "init"
    BY <1>5 DEF Acquire, Go, ControlInv, Domains, Control, kind
  <2>2. at[p] = "want" /\ at' = [at EXCEPT ![p] = "in"]
    BY <2>1, <1>o, Places DEF PlaceIs, Between
  <2> QED BY <2>1, <2>2 DEF Sem!Acquire, Sem!Go, Sem!SemDown, Lock!SemDown, at
<1>6. ASSUME NEW p \in Proc, Exit(p) PROVE Sem!Die(p)
  <2>1. /\ pc'[p] = "new" /\ pc' = [pc EXCEPT ![p] = pc'[p]] /\ op' = [op EXCEPT ![p] = NoCall]
        /\ UNCHANGED <<setup, kept>> /\ Lock!SemUndo(p)
    BY <1>6 DEF Exit, ControlInv, Domains
  <2>2. at' = [at EXCEPT ![p] = "new"]
    BY <2>1, <1>o, Places DEF PlaceIs
  <2> QED BY <2>1, <2>2 DEF Sem!Die, Sem!SemUndo, Lock!SemUndo, at
<1>7. ASSUME NEW p \in Proc, UnLock(p) PROVE Sem!UnLock(p)
  <2>1. /\ pc[p] = "leave" /\ pc'[p] = "out" /\ pc' = [pc EXCEPT ![p] = pc'[p]]
        /\ op' = [op EXCEPT ![p] = NoCall] /\ UNCHANGED <<setup, kept>> /\ Lock!SemUp(p)
        /\ kind = "rwarray" => op[p].call = "init"
    BY <1>7 DEF UnLock, Go, ControlInv, Domains, Control
  <2>2. at[p] = "in" /\ at' = [at EXCEPT ![p] = "out"]
    BY <2>1, <1>o, Places DEF PlaceIs, Between
  <2> QED BY <2>1, <2>2 DEF Sem!UnLock, Sem!Go, Sem!SemUp, Lock!SemUp, at
<1>8. ASSUME NEW p \in Proc, RWReturn(p) PROVE [Sem!Next]_(Sem!vars)
  <2>1. /\ pc[p] \in {"rwleave", "rwreturn"} /\ pc'[p] = "out" /\ pc' = [pc EXCEPT ![p] = pc'[p]]
        /\ op' = [op EXCEPT ![p] = NoCall] /\ UNCHANGED <<setup, semval, semadj, kept>>
        /\ kind = "rwarray" /\ op[p].call # "init"
    BY <1>8 DEF RWReturn, Go, Quiet, ControlInv, Domains, Control
  <2>2. at[p] = "out" /\ at' = [at EXCEPT ![p] = "out"]
    <3>1. Place(p) = "out"
      BY <2>1, Places DEF PlaceIs, Between
    <3>2. Place(p)' = "out"
      BY <2>1, Places DEF PlaceIs
    <3> QED BY <2>1, <3>1, <3>2, <1>o
  <2> QED BY <2>1, <2>2, <1>s DEF at
<1>9. ASSUME NEW p \in Proc, Inner(p) PROVE [Sem!Next]_(Sem!vars)
  <2>1. kind' = kind /\ op'[p].call = op[p].call /\ UNCHANGED <<setup, semval, semadj, kept>>
    BY <1>9 DEF Inner, ControlInv, Domains, kind
  <2>2. pc[p] \notin Between \cup {"wait"} /\ pc'[p] \notin Between \cup {"wait"}
    BY <1>9 DEF Inner
  <2>3. Place(p)' = Place(p)
    BY <2>1, <2>2, Places DEF PlaceIs
  <2>4. pc' = [pc EXCEPT ![p] = pc'[p]] /\ UNCHANGED setup
        /\ (UNCHANGED op \/ \E x : op' = [op EXCEPT ![p].v = x])
    BY <1>9 DEF Inner, Go
  <2>5. at' = [at EXCEPT ![p] = Place(p)'] /\ at[p] = Place(p)
    BY <2>4, <1>o
  <2>6. at' = at
    BY <2>3, <2>5 DEF at
  <2> QED BY <2>1, <2>6, <1>s DEF at
<1>10. ASSUME NEW p \in Proc,
              (\E n \in setup.sizes : InitCall(p, n)) \/ QueueCall(p) \/ StackCall(p) \/ ArrayCall(p)
       PROVE  [Sem!Next]_(Sem!vars)
  BY <1>10, <1>4, Records DEF InitCall, QueueCall, StackCall, ArrayCall, Ready
<1>11. ASSUME NEW p \in Proc, Interrupted(p) PROVE Sem!Interrupted(p)
  <2>1. /\ pc[p] = "wait" /\ pc'[p] = "begin" /\ pc' = [pc EXCEPT ![p] = pc'[p]]
        /\ UNCHANGED <<setup, op, semval, semadj>> /\ semval = 0
        /\ kind = "rwarray" => op[p].call = "init"
    BY <1>11 DEF Interrupted, Go, ControlInv, Domains, Control
  <2>2. at[p] = "want" /\ at' = [at EXCEPT ![p] = "in"]
    <3>1. Place(p) = "want"
      BY <2>1, Places DEF PlaceIs
    <3>2. Place(p)' = "in"
      BY <2>1, Places DEF PlaceIs, Between, kind
    <3> QED BY <2>1, <3>1, <3>2, <1>o
  <2>3. kept' = FALSE
    BY <1>11 DEF Interrupted
  <2> QED BY <2>1, <2>2, <2>3 DEF Sem!Interrupted, Sem!Go, Sem!lockVars, at
<1> QED
  BY <1>1, <1>2, <1>3, <1>5, <1>6, <1>7, <1>8, <1>9, <1>10, <1>11, InnerSteps
     DEF Next, Work, InitStep, Die, Sem!Next, Sem!Run

LEMMA InitLock == Init => ControlInv /\ Sem!LockInv
<1> SUFFICES ASSUME Init PROVE ControlInv /\ Sem!LockInv
  OBVIOUS
<1>1. ControlInv
  BY Records DEF Init, NoCall, ControlInv, Domains, Control, Calls
<1>2. Sem!Init
  <2>1. ASSUME NEW p \in Proc PROVE Place(p) = "new"
    BY Places DEF Init, PlaceIs
  <2> QED BY <2>1 DEF Init, Sem!Init, Sem!SemStart
<1> QED BY <1>1, <1>2, Sem!InitLock

(* While the lock's rules are kept, nobody enters it when another is in.   *)
Guarded == ControlInv /\ Sem!LockInv

LEMMA GuardedStep ==
  ASSUME kept', Guarded, [Next]_vars
  PROVE  Guarded'
<1>1. ControlInv'
  BY ControlStep DEF Guarded
<1>2. [Sem!Next]_(Sem!vars)
  BY <1>1, LockStep DEF Guarded
<1>3. Sem!LockInv'
  BY <1>2, Sem!Steps DEF Guarded
<1> QED BY <1>1, <1>3 DEF Guarded

(* A broken rule stays broken.                                             *)
LEMMA KeptBefore ==
  ASSUME ControlInv, kept', [Next]_vars
  PROVE  kept
<1>1. CASE UNCHANGED vars
  BY <1>1 DEF vars
<1>2. ASSUME NEW p \in Proc, Inner(p) PROVE kept
  BY <1>2 DEF Inner
<1>3. ASSUME NEW p \in Proc, SemInit(p) \/ Interrupted(p) PROVE kept
  BY <1>3 DEF SemInit, Interrupted
<1>4. ASSUME NEW p \in Proc,
             \/ SemGet(p) \/ Acquire(p) \/ Exit(p) \/ UnLock(p) \/ RWReturn(p)
             \/ QueueCall(p) \/ StackCall(p) \/ ArrayCall(p)
             \/ \E n \in setup.sizes : InitCall(p, n)
      PROVE  kept
  BY <1>4 DEF SemGet, Acquire, Exit, UnLock, RWReturn, QueueCall, StackCall, ArrayCall,
     InitCall, Enter, Quiet
<1> QED
  BY <1>1, <1>2, <1>3, <1>4, InnerSteps DEF Next, Work, InitStep, Die

(* The queue, the stack and the arrays use their semaphore as SemLock has  *)
(* it: a sem_init under a holder and a wait that a signal ends are steps   *)
(* of SemLock as well, so that its theorems hold for them with their       *)
(* conditions.                                                             *)
THEOREM LockUsed == Spec => LockSpec
<1>1. Init => ControlInv /\ Lock!Init
  BY InitLock, Places DEF Init, PlaceIs, Lock!Init, Lock!SemStart
<1>2. ControlInv /\ [Next]_vars => ControlInv'
  BY ControlStep
<1>3. ControlInv /\ ControlInv' /\ [Next]_vars => [Lock!Next]_(Lock!vars)
  <2> SUFFICES ASSUME ControlInv, ControlInv', [Next]_vars PROVE [Lock!Next]_(Lock!vars)
    OBVIOUS
  <2>1. [Sem!Next]_(Sem!vars)
    BY LockStep
  <2> QED
    BY <2>1 DEF Sem!Next, Sem!vars, Sem!Run, Sem!SemGet, Sem!SemInit, Sem!SetVal, Sem!Inside,
       Sem!Acquire, Sem!SemDown, Sem!Interrupted, Sem!UnLock, Sem!SemUp, Sem!LockCall, Sem!Die,
       Sem!SemUndo, Sem!Go, Sem!lockVars,
       Lock!Next, Lock!vars, Lock!Run, Lock!SemGet, Lock!SemInit, Lock!SetVal, Lock!Inside,
       Lock!Acquire, Lock!SemDown, Lock!Interrupted, Lock!UnLock, Lock!SemUp, Lock!LockCall,
       Lock!Die, Lock!SemUndo, Lock!Go, Lock!lockVars
<1> QED
  BY <1>1, <1>2, <1>3, PTL DEF Spec, LockSpec, Lock!Spec

-----------------------------------------------------------------------------
(* The segments and who has attached them.                                 *)
SegShape(s) ==
  /\ DOMAIN shm[s] = {"head", "nodes", "locks"}
  /\ DOMAIN shm[s].head = Fields[kind]
  /\ Room(s) \in 1 .. SizeMax /\ DOMAIN shm[s].nodes = 0 .. Room(s) - 1
  /\ DOMAIN shm[s].locks = 0 .. LockNum - 1

Shape ==
  /\ Len(shm) \in Nat /\ DOMAIN shm = 1 .. Len(shm)
  /\ \A s \in 1 .. Len(shm) : SegShape(s)

HeadPcs == {"made", "rear", "size", "found", "total", "numbered", "locked"}
Uses(p) ==
  /\ seg[p] \in 0 .. Len(shm)
  /\ op[p].arg \in Nat
  /\ op[p].call \notin {"none", "init"} => seg[p] # 0
  /\ op[p].call \in {"none", "init"} => ret[p] = <<>>
  /\ op[p].call = "init" => op[p].arg \in 1 .. SizeMax
  /\ pc[p] \in HeadPcs => op[p].call = "init" /\ seg[p] # 0 /\ op[p].arg <= Room(seg[p])
  /\ op[p].call \in {"enqueue", "push", "set"} => op[p].v \in Item

SegInv ==
  /\ Shape
  /\ key \in 0 .. Len(shm)
  /\ DOMAIN seg = Proc /\ DOMAIN ret = Proc
  /\ \A p \in Proc : Uses(p)

(* No store moves or resizes a segment.                                    *)
Rooms ==
  /\ Shape' /\ Len(shm) <= Len(shm')
  /\ \A s \in 1 .. Len(shm) : Room(s)' = Room(s)

LEMMA SameShape ==
  ASSUME Shape, UNCHANGED setup, Len(shm') = Len(shm), DOMAIN shm' = DOMAIN shm,
         \A s \in 1 .. Len(shm) :
           /\ DOMAIN shm'[s] = DOMAIN shm[s]
           /\ DOMAIN shm'[s].head = DOMAIN shm[s].head
           /\ DOMAIN shm'[s].nodes = DOMAIN shm[s].nodes
           /\ DOMAIN shm'[s].locks = DOMAIN shm[s].locks
  PROVE  Rooms
<1>1. ASSUME NEW s \in 1 .. Len(shm) PROVE SegShape(s)' /\ Room(s)' = Room(s)
  <2>1. Room(s)' = Room(s)
    BY DEF Room
  <2>2. SegShape(s)
    BY DEF Shape
  <2> QED BY <2>1, <2>2 DEF SegShape, kind
<1> QED BY <1>1 DEF Rooms, Shape

(* A store changes one component of the segment of p.                      *)
LEMMA OneStore ==
  ASSUME Shape, NEW p \in Proc, seg[p] \in 1 .. Len(shm), NEW r,
         DOMAIN r = {"head", "nodes", "locks"},
         shm' = [shm EXCEPT ![seg[p]] = r]
  PROVE  /\ Len(shm') = Len(shm) /\ DOMAIN shm' = DOMAIN shm
         /\ shm'[seg[p]] = r
         /\ \A s \in 1 .. Len(shm) :
              DOMAIN shm'[s] = DOMAIN shm[s] /\ (s # seg[p] => shm'[s] = shm[s])
<1>1. /\ Len(shm') = Len(shm) /\ DOMAIN shm' = DOMAIN shm /\ shm'[seg[p]] = r
      /\ \A s \in 1 .. Len(shm) : s # seg[p] => shm'[s] = shm[s]
  BY DEF Shape
<1>2. DOMAIN shm[seg[p]] = {"head", "nodes", "locks"}
  BY DEF Shape, SegShape
<1> QED BY <1>1, <1>2

LEMMA HeadStores ==
  ASSUME Shape, UNCHANGED setup, NEW p \in Proc, seg[p] \in 1 .. Len(shm), NEW f, NEW x, Store(p, f, x)
  PROVE  /\ Rooms /\ Len(shm') = Len(shm)
         /\ \A s \in 1 .. Len(shm) : s # seg[p] => shm'[s] = shm[s]
         /\ shm'[seg[p]].nodes = shm[seg[p]].nodes /\ shm'[seg[p]].locks = shm[seg[p]].locks
         /\ \A g \in DOMAIN shm[seg[p]].head :
              shm'[seg[p]].head[g] = IF g = f THEN x ELSE shm[seg[p]].head[g]
<1> DEFINE r == [shm[seg[p]] EXCEPT !.head = [shm[seg[p]].head EXCEPT ![f] = x]]
<1>1. DOMAIN r = {"head", "nodes", "locks"} /\ shm' = [shm EXCEPT ![seg[p]] = r]
      /\ r.nodes = shm[seg[p]].nodes /\ r.locks = shm[seg[p]].locks
      /\ r.head = [shm[seg[p]].head EXCEPT ![f] = x]
  BY DEF Store, Shape, SegShape
<1> HIDE DEF r
<1>2. /\ Len(shm') = Len(shm) /\ DOMAIN shm' = DOMAIN shm /\ shm'[seg[p]] = r
      /\ \A s \in 1 .. Len(shm) :
           DOMAIN shm'[s] = DOMAIN shm[s] /\ (s # seg[p] => shm'[s] = shm[s])
  BY <1>1, OneStore
<1>3. ASSUME NEW s \in 1 .. Len(shm)
      PROVE  /\ DOMAIN shm'[s].head = DOMAIN shm[s].head
             /\ DOMAIN shm'[s].nodes = DOMAIN shm[s].nodes
             /\ DOMAIN shm'[s].locks = DOMAIN shm[s].locks
  BY <1>1, <1>2
<1>4. \A g \in DOMAIN shm[seg[p]].head : r.head[g] = IF g = f THEN x ELSE shm[seg[p]].head[g]
  BY <1>1
<1>5. Rooms
  BY <1>2, <1>3, SameShape
<1> QED BY <1>1, <1>2, <1>4, <1>5

LEMMA NodeStores ==
  ASSUME Shape, UNCHANGED setup, NEW p \in Proc, seg[p] \in 1 .. Len(shm), NEW i, NEW x, StoreNode(p, i, x)
  PROVE  /\ Rooms /\ Len(shm') = Len(shm)
         /\ \A s \in 1 .. Len(shm) : s # seg[p] => shm'[s] = shm[s]
         /\ shm'[seg[p]].head = shm[seg[p]].head /\ shm'[seg[p]].locks = shm[seg[p]].locks
         /\ \A j \in DOMAIN shm[seg[p]].nodes :
              shm'[seg[p]].nodes[j] = IF j = i THEN x ELSE shm[seg[p]].nodes[j]
<1> DEFINE r == [shm[seg[p]] EXCEPT !.nodes = [shm[seg[p]].nodes EXCEPT ![i] = x]]
<1>1. DOMAIN r = {"head", "nodes", "locks"} /\ shm' = [shm EXCEPT ![seg[p]] = r]
      /\ r.head = shm[seg[p]].head /\ r.locks = shm[seg[p]].locks
      /\ r.nodes = [shm[seg[p]].nodes EXCEPT ![i] = x]
  BY DEF StoreNode, Shape, SegShape
<1> HIDE DEF r
<1>2. /\ Len(shm') = Len(shm) /\ DOMAIN shm' = DOMAIN shm /\ shm'[seg[p]] = r
      /\ \A s \in 1 .. Len(shm) :
           DOMAIN shm'[s] = DOMAIN shm[s] /\ (s # seg[p] => shm'[s] = shm[s])
  BY <1>1, OneStore
<1>3. ASSUME NEW s \in 1 .. Len(shm)
      PROVE  /\ DOMAIN shm'[s].head = DOMAIN shm[s].head
             /\ DOMAIN shm'[s].nodes = DOMAIN shm[s].nodes
             /\ DOMAIN shm'[s].locks = DOMAIN shm[s].locks
  BY <1>1, <1>2
<1>4. \A j \in DOMAIN shm[seg[p]].nodes : r.nodes[j] = IF j = i THEN x ELSE shm[seg[p]].nodes[j]
  BY <1>1
<1>5. Rooms
  BY <1>2, <1>3, SameShape
<1> QED BY <1>1, <1>2, <1>4, <1>5

LEMMA LockStores ==
  ASSUME Shape, UNCHANGED setup, NEW p \in Proc, seg[p] \in 1 .. Len(shm), NEW g,
         DOMAIN g = DOMAIN shm[seg[p]].locks, shm' = [shm EXCEPT ![seg[p]].locks = g]
  PROVE  /\ Rooms /\ Len(shm') = Len(shm)
         /\ \A s \in 1 .. Len(shm) : s # seg[p] => shm'[s] = shm[s]
         /\ shm'[seg[p]].head = shm[seg[p]].head /\ shm'[seg[p]].nodes = shm[seg[p]].nodes
         /\ shm'[seg[p]].locks = g
<1> DEFINE r == [shm[seg[p]] EXCEPT !.locks = g]
<1>1. DOMAIN r = {"head", "nodes", "locks"} /\ shm' = [shm EXCEPT ![seg[p]] = r]
      /\ r.head = shm[seg[p]].head /\ r.nodes = shm[seg[p]].nodes /\ r.locks = g
  BY DEF Shape, SegShape
<1> HIDE DEF r
<1>2. /\ Len(shm') = Len(shm) /\ DOMAIN shm' = DOMAIN shm /\ shm'[seg[p]] = r
      /\ \A s \in 1 .. Len(shm) :
           DOMAIN shm'[s] = DOMAIN shm[s] /\ (s # seg[p] => shm'[s] = shm[s])
  BY <1>1, OneStore
<1>3. ASSUME NEW s \in 1 .. Len(shm)
      PROVE  /\ DOMAIN shm'[s].head = DOMAIN shm[s].head
             /\ DOMAIN shm'[s].nodes = DOMAIN shm[s].nodes
             /\ DOMAIN shm'[s].locks = DOMAIN shm[s].locks
  BY <1>1, <1>2
<1> QED BY <1>1, <1>2, <1>3, SameShape

LEMMA ExitStores ==
  ASSUME Shape, NEW p \in Proc, Exit(p)
  PROVE  /\ Rooms /\ Len(shm') = Len(shm)
         /\ \A s \in 1 .. Len(shm) :
              /\ shm'[s].head = shm[s].head /\ shm'[s].nodes = shm[s].nodes
              /\ shm'[s].locks = [l \in DOMAIN shm[s].locks |->
                                    IF shm[s].locks[l] = p THEN "dead" ELSE shm[s].locks[l]]
<1>1. /\ Len(shm') = Len(shm) /\ DOMAIN shm' = DOMAIN shm
      /\ \A s \in 1 .. Len(shm) :
              /\ shm'[s].head = shm[s].head /\ shm'[s].nodes = shm[s].nodes
              /\ shm'[s].locks = [l \in DOMAIN shm[s].locks |->
                                    IF shm[s].locks[l] = p THEN "dead" ELSE shm[s].locks[l]]
              /\ DOMAIN shm'[s] = DOMAIN shm[s]
  BY DEF Shape, SegShape, Exit
<1> QED BY <1>1, SameShape DEF Exit

LEMMA SegMade ==
  ASSUME Shape, UNCHANGED setup, NEW n \in 1 .. SizeMax, shm' = Append(shm, Zeroed(n))
  PROVE  /\ Rooms /\ Len(shm') = Len(shm) + 1
         /\ \A s \in 1 .. Len(shm) : shm'[s] = shm[s]
         /\ \A s : s = Len(shm') => shm'[s] = Zeroed(n) /\ Room(s)' = n
<1> DEFINE z == Zeroed(n)
<1>z. /\ DOMAIN z = {"head", "nodes", "locks"} /\ DOMAIN z.head = Fields[kind]
      /\ DOMAIN z.nodes = 0 .. n - 1 /\ DOMAIN z.locks = 0 .. LockNum - 1
  BY DEF Zeroed
<1> HIDE DEF z
<1>1. /\ Len(shm') = Len(shm) + 1 /\ DOMAIN shm' = 1 .. Len(shm')
      /\ \A s \in 1 .. Len(shm) : shm'[s] = shm[s]
      /\ shm'[Len(shm')] = z
  BY DEF Shape, z
<1>2. Cardinality(0 .. n - 1) = n
  BY FS_Interval
<1>3. ASSUME NEW s, s = Len(shm') PROVE SegShape(s)' /\ Room(s)' = n
  <2>1. Room(s)' = n
    <3>1. Room(s)' = Cardinality(DOMAIN z.nodes)
      BY <1>1, <1>3 DEF Room
    <3> QED BY <1>2, <1>z, <3>1
  <2>2. n \in 1 .. SizeMax /\ shm'[s] = z
    BY <1>1, <1>3
  <2> QED BY <2>1, <2>2, <1>z DEF SegShape, kind
<1>5. ASSUME NEW s \in 1 .. Len(shm) PROVE SegShape(s)' /\ Room(s)' = Room(s)
  <2>1. Room(s)' = Room(s)
    BY <1>1 DEF Room
  <2>2. SegShape(s)
    BY DEF Shape
  <2> QED BY <1>1, <2>1, <2>2 DEF SegShape, kind
<1>6. Len(shm) \in Nat
  BY DEF Shape
<1>7. ASSUME NEW s \in 1 .. Len(shm') PROVE SegShape(s)'
  <2>1. s \in 1 .. Len(shm) \/ s = Len(shm')
    BY <1>1, <1>6
  <2> QED BY <2>1, <1>3, <1>5
<1> QED BY <1>1, <1>3, <1>5, <1>6, <1>7 DEF Rooms, Shape, z

LEMMA SegSame == Shape /\ UNCHANGED <<setup, shm>> => Rooms
BY SameShape

LEMMA OthersUse ==
  ASSUME SegInv, Rooms, NEW p \in Proc, UNCHANGED setup,
         \A q \in Proc \ {p} : /\ seg'[q] = seg[q] /\ pc'[q] = pc[q]
                               /\ op'[q] = op[q] /\ ret'[q] = ret[q]
  PROVE  \A q \in Proc \ {p} : Uses(q)'
<1> SUFFICES ASSUME NEW q \in Proc \ {p} PROVE Uses(q)'
  OBVIOUS
<1>1. Uses(q) /\ Len(shm) \in Nat /\ Len(shm') \in Nat /\ Len(shm) <= Len(shm')
  BY DEF SegInv, Shape, Rooms
<1>2. seg[q] # 0 => Room(seg[q])' = Room(seg[q])
  BY <1>1 DEF Rooms, Uses
<1> QED BY <1>1, <1>2 DEF Uses

(* A step of a call that is not Init.                                      *)
LEMMA SegCall ==
  ASSUME SegInv, ControlInv, Rooms, NEW p \in Proc, UNCHANGED <<setup, key, seg>>,
         op[p].call \notin {"none", "init"},
         pc' = [pc EXCEPT ![p] = pc'[p]], pc'[p] \notin HeadPcs,
         \/ UNCHANGED op
         \/ op[p].call \notin {"enqueue", "push", "set"} /\ \E x : op' = [op EXCEPT ![p].v = x],
         UNCHANGED ret \/ \E r : Return(p, r)
  PROVE  SegInv'
<1>1. /\ \A q \in Proc \ {p} : seg'[q] = seg[q] /\ pc'[q] = pc[q] /\ op'[q] = op[q] /\ ret'[q] = ret[q]
      /\ op'[p].call = op[p].call /\ op'[p].arg = op[p].arg
      /\ op[p].call \in {"enqueue", "push", "set"} => op'[p].v = op[p].v
      /\ DOMAIN ret' = Proc
  BY DEF SegInv, ControlInv, Domains, Return
<1>2. Len(shm) \in Nat /\ Len(shm') \in Nat /\ Len(shm) <= Len(shm')
  BY DEF SegInv, Shape, Rooms
<1>3. Uses(p)'
  BY <1>1, <1>2 DEF SegInv, Uses
<1>4. \A q \in Proc \ {p} : Uses(q)'
  BY <1>1, OthersUse
<1> QED BY <1>1, <1>2, <1>3, <1>4 DEF SegInv, Rooms

(* A step of Init past the attachment.                                     *)
LEMMA SegHead ==
  ASSUME SegInv, ControlInv, Rooms, NEW p \in Proc, UNCHANGED <<setup, key, seg, op, ret>>,
         pc' = [pc EXCEPT ![p] = pc'[p]], pc'[p] \in HeadPcs => pc[p] \in HeadPcs
  PROVE  SegInv'
<1>1. \A q \in Proc \ {p} : seg'[q] = seg[q] /\ pc'[q] = pc[q] /\ op'[q] = op[q] /\ ret'[q] = ret[q]
  BY DEF ControlInv, Domains
<1>2. Len(shm) \in Nat /\ Len(shm') \in Nat /\ Len(shm) <= Len(shm')
  BY DEF SegInv, Shape, Rooms
<1>3. Uses(p)'
  <2>1. seg[p] # 0 => Room(seg[p])' = Room(seg[p])
    BY <1>2 DEF Rooms, Uses, SegInv
  <2> QED BY <1>2, <2>1 DEF SegInv, Uses
<1>4. \A q \in Proc \ {p} : Uses(q)'
  BY <1>1, OthersUse
<1> QED BY <1>2, <1>3, <1>4 DEF SegInv, Rooms

(* A step that begins or ends a call, or a death.                          *)
LEMMA SegTurn ==
  ASSUME SegInv, ControlInv, Rooms, NEW p \in Proc, UNCHANGED <<setup, key>>,
         NEW to, NEW call,
         pc' = [pc EXCEPT ![p] = to], to \notin HeadPcs,
         op' = [op EXCEPT ![p] = call],
         call.arg \in Nat, call.call = "init" => call.arg \in 1 .. SizeMax,
         call.call \in {"enqueue", "push", "set"} => call.v \in Item,
         \/ UNCHANGED seg /\ (call.call \notin {"none", "init"} => seg[p] # 0)
         \/ seg' = [seg EXCEPT ![p] = 0] /\ call.call = "none",
         \/ Return(p, <<>>)
         \/ UNCHANGED ret /\ op[p].call = "none"
  PROVE  SegInv'
<1>1. /\ \A q \in Proc \ {p} : seg'[q] = seg[q] /\ pc'[q] = pc[q] /\ op'[q] = op[q] /\ ret'[q] = ret[q]
      /\ pc'[p] = to /\ op'[p] = call
      /\ DOMAIN ret' = Proc /\ DOMAIN seg' = Proc
  BY DEF SegInv, ControlInv, Domains, Return
<1>2. Len(shm) \in Nat /\ Len(shm') \in Nat /\ Len(shm) <= Len(shm')
  BY DEF SegInv, Shape, Rooms
<1>3. ret'[p] = <<>>
  BY DEF SegInv, Uses, Return
<1>4. /\ seg'[p] \in 0 .. Len(shm')
      /\ call.call \notin {"none", "init"} => seg'[p] # 0
  BY <1>2 DEF SegInv, Uses
<1>5. Uses(p)'
  BY <1>1, <1>3, <1>4 DEF Uses
<1>6. \A q \in Proc \ {p} : Uses(q)'
  BY <1>1, OthersUse
<1> QED BY <1>1, <1>2, <1>5, <1>6 DEF SegInv, Rooms

(* The steps of Init that look for the segment.                            *)
LEMMA SegInit ==
  ASSUME SegInv, ControlInv, NEW p \in Proc,
         InitCreate(p) \/ InitAttach(p) \/ InitRemove(p) \/ InitFail(p) \/ InitLost(p)
  PROVE  SegInv' /\ Rooms
<1>1. /\ \A q \in Proc \ {p} : seg'[q] = seg[q] /\ pc'[q] = pc[q] /\ op'[q] = op[q] /\ ret'[q] = ret[q]
      /\ DOMAIN seg' = Proc /\ UNCHANGED <<setup, op, ret>> /\ op[p].call = "init"
      /\ DOMAIN pc = Proc
  BY DEF InitCreate, InitAttach, InitRemove, InitFail, InitLost, Creates, Quiet, In, Go,
     SegInv, ControlInv, Domains
<1>2. Len(shm) \in Nat /\ op[p].arg \in 1 .. SizeMax /\ Uses(p)
  BY <1>1 DEF SegInv, Shape, Uses
<1>3. CASE InitAttach(p) \/ InitRemove(p) \/ InitFail(p)
  <2>1. UNCHANGED shm /\ Rooms /\ key' \in 0 .. Len(shm)
    BY <1>3, SegSame, <1>2 DEF InitAttach, InitRemove, InitFail, SegInv, Quiet
  <2>2. Uses(p)'
    <3>1. CASE InitAttach(p)
      <4>1. key # 0 /\ seg'[p] = key /\ op[p].arg <= Room(key)
        BY <3>1, <1>2, <2>1 DEF InitAttach, SegInv, Rooms, Shape, SegShape
      <4>2. Room(key)' = Room(key)
        <5>1. Room(key)' = Cardinality(DOMAIN shm'[key'].nodes) /\ key' = key
          BY <3>1 DEF InitAttach, Room
        <5> QED BY <5>1, <2>1 DEF Room
      <4>3. Room(seg[p])' = Room(key)
        BY <4>1, <2>1 DEF Room
      <4> QED BY <1>1, <1>2, <2>1, <4>1, <4>3 DEF Uses, SegInv
    <3>2. CASE InitRemove(p) \/ InitFail(p)
      <4>1. seg' = seg /\ pc'[p] \notin HeadPcs
        BY <3>2, <1>1 DEF InitRemove, InitFail, Quiet, In, Go, HeadPcs
      <4> QED BY <1>1, <1>2, <2>1, <4>1 DEF Uses
    <3> QED BY <1>3, <3>1, <3>2
  <2>3. \A q \in Proc \ {p} : Uses(q)'
    BY <1>1, <2>1, OthersUse
  <2> QED BY <1>1, <2>1, <2>2, <2>3 DEF SegInv, Rooms
<1>4. CASE InitCreate(p) \/ InitLost(p)
  <2>1. shm' = Append(shm, Zeroed(op[p].arg)) /\ key' = Len(shm')
    BY <1>4 DEF InitCreate, InitLost, Creates
  <2>2. /\ Rooms /\ Len(shm') = Len(shm) + 1
        /\ \A s : s = Len(shm') => Room(s)' = op[p].arg
    BY <1>1, <1>2, <2>1, SegMade DEF SegInv
  <2>3. Uses(p)'
    <3>1. CASE InitCreate(p)
      <4>1. seg'[p] = Len(shm')
        BY <3>1, <2>1 DEF InitCreate, SegInv
      <4>2. Room(seg[p])' = op[p].arg
        <5>1. PICK s : s = Len(shm')
          OBVIOUS
        <5>2. Room(seg[p])' = Room(s)'
          BY <4>1, <5>1 DEF Room
        <5> QED BY <2>2, <5>1, <5>2
      <4> QED BY <1>1, <1>2, <2>2, <4>1, <4>2 DEF Uses
    <3>2. CASE InitLost(p)
      <4>1. seg' = seg /\ pc'[p] \notin HeadPcs
        BY <3>2, <1>1 DEF InitLost, Creates, In, Go, HeadPcs
      <4> QED BY <1>1, <1>2, <2>2, <4>1 DEF Uses
    <3> QED BY <1>4, <3>1, <3>2
  <2>4. \A q \in Proc \ {p} : Uses(q)'
    BY <1>1, <2>2, OthersUse
  <2> QED BY <1>1, <1>2, <2>1, <2>2, <2>3, <2>4 DEF SegInv, Rooms
<1> QED BY <1>3, <1>4

LEMMA SegStep ==
  ASSUME SegInv, ControlInv, [Next]_vars
  PROVE  SegInv' /\ Rooms
<1>d. DOMAIN pc = Proc /\ DOMAIN op = Proc
  BY DEF ControlInv, Domains
<1>s. UNCHANGED <<setup, shm>> => Rooms
  BY SegSame DEF SegInv
<1>a. ASSUME NEW p \in Proc, op[p].call \notin {"none", "init"} \/ pc[p] \in HeadPcs
      PROVE  seg[p] \in 1 .. Len(shm)
  BY <1>a DEF SegInv, Uses, Shape
<1>n. /\ NoCall.call = "none" /\ NoCall.arg \in Nat
      /\ NoCall.call \notin {"init", "enqueue", "push", "set"}
      /\ "new" \notin HeadPcs /\ "out" \notin HeadPcs /\ "wait" \notin HeadPcs
  BY DEF NoCall, Asked, HeadPcs
<1>l. ASSUME NEW p \in Proc, NEW x, SetLock(p, x), seg[p] \in 1 .. Len(shm), UNCHANGED setup
      PROVE  Rooms
  <2> DEFINE g == [shm[seg[p]].locks EXCEPT ![MyLock(p)] = x]
  <2>1. DOMAIN g = DOMAIN shm[seg[p]].locks
    OBVIOUS
  <2>2. shm' = [shm EXCEPT ![seg[p]].locks = g]
    BY <1>l DEF SetLock, SegInv, Shape, SegShape
  <2> HIDE DEF g
  <2> QED BY <1>l, <2>1, <2>2, LockStores DEF SegInv
<1>1. CASE UNCHANGED vars
  <2>1. SegInv'
    BY <1>1 DEF vars, SegInv, Shape, SegShape, Room, Uses, kind
  <2> QED BY <1>1, <1>s, <2>1 DEF vars
<1>2. ASSUME NEW p \in Proc, SemGet(p) \/ SemInit(p) \/ Acquire(p) \/ Interrupted(p)
      PROVE  SegInv' /\ Rooms
  <2>1. UNCHANGED <<setup, key, shm, seg, op, ret>> /\ pc' = [pc EXCEPT ![p] = pc'[p]]
        /\ pc'[p] \notin HeadPcs
    BY <1>2, <1>d DEF SemGet, SemInit, Acquire, Interrupted, Quiet, Go, HeadPcs
  <2> QED BY <2>1, <1>s, SegHead
<1>3. ASSUME NEW p \in Proc, NEW n \in setup.sizes, InitCall(p, n) PROVE SegInv' /\ Rooms
  <2>1. /\ pc' = [pc EXCEPT ![p] = "wait"] /\ op' = [op EXCEPT ![p] = Asked("init", n)]
        /\ Quiet /\ UNCHANGED <<shm, ret>> /\ op[p].call = "none"
    BY <1>3 DEF InitCall, Enter, Go, ControlInv, Control
  <2>2. /\ Asked("init", n).call = "init" /\ Asked("init", n).arg \in 1 .. SizeMax
        /\ Asked("init", n).call \notin {"enqueue", "push", "set"} /\ Asked("init", n).arg \in Nat
    BY Kinds DEF Asked, ControlInv
  <2>3. UNCHANGED <<setup, key, seg, shm, ret>>
    BY <2>1 DEF Quiet
  <2> QED BY <2>1, <2>2, <2>3, <1>n, <1>s, SegTurn
<1>4. ASSUME NEW p \in Proc, Exit(p) PROVE SegInv' /\ Rooms
  <2>1. Rooms
    BY <1>4, ExitStores DEF SegInv
  <2>2. /\ pc' = [pc EXCEPT ![p] = "new"] /\ op' = [op EXCEPT ![p] = NoCall]
        /\ seg' = [seg EXCEPT ![p] = 0] /\ Return(p, <<>>) /\ UNCHANGED <<setup, key>>
    BY <1>4 DEF Exit
  <2> QED BY <2>1, <2>2, <1>n, SegTurn
<1>5. ASSUME NEW p \in Proc, UnLock(p) PROVE SegInv' /\ Rooms
  <2>1. /\ pc' = [pc EXCEPT ![p] = "out"] /\ op' = [op EXCEPT ![p] = NoCall]
        /\ Return(p, <<>>) /\ UNCHANGED <<setup, key, seg, shm>>
    BY <1>5 DEF UnLock, Go
  <2> QED BY <2>1, <1>n, <1>s, SegTurn
<1>6. ASSUME NEW p \in Proc, NEW to \in {"wait", "length"}, NEW call, Enter(p, "out", to, call),
             call.arg \in Nat, call.call # "init",
             call.call \in {"enqueue", "push", "set"} => call.v \in Item,
             seg[p] # 0
      PROVE  SegInv' /\ Rooms
  <2>1. /\ pc' = [pc EXCEPT ![p] = to] /\ to \notin HeadPcs /\ op' = [op EXCEPT ![p] = call]
        /\ UNCHANGED <<setup, key, seg, shm, ret>> /\ op[p].call = "none"
    BY <1>6 DEF Enter, Go, ControlInv, Control, HeadPcs, Quiet
  <2> QED BY <1>6, <2>1, <1>s, SegTurn
<1>7. ASSUME NEW p \in Proc, QueueCall(p) \/ StackCall(p) \/ ArrayCall(p) PROVE SegInv' /\ Rooms
  <2>1. setup.items \subseteq Item /\ seg[p] # 0
    BY <1>7, Kinds DEF ControlInv, QueueCall, StackCall, ArrayCall, Ready
  <2>2. \/ \E c \in {"dequeue", "clean", "ask", "pop", "size"} : Enter(p, "out", "wait", Asked(c, 0))
        \/ \E c \in {"enqueue", "push"}, v \in Item : Enter(p, "out", "wait", Given(c, 0, v))
        \/ \E c \in {"length", "get", "delete"}, i \in Nat, to \in {"wait", "length"} :
             Enter(p, "out", to, Asked(c, i))
        \/ \E v \in Item, i \in Nat, to \in {"wait", "length"} : Enter(p, "out", to, Given("set", i, v))
    <3>1. CASE QueueCall(p)
      BY <3>1, <2>1 DEF QueueCall
    <3>2. CASE StackCall(p)
      BY <3>2, <2>1 DEF StackCall
    <3>3. CASE ArrayCall(p)
      <4>1. PICK to \in {"wait", "length"} :
              \/ Enter(p, "out", to, Asked("length", 0))
              \/ \E i \in Index : \/ \E c \in {"get", "delete"} : Enter(p, "out", to, Asked(c, i))
                                  \/ \E x \in setup.items : Enter(p, "out", to, Given("set", i, x))
        BY <3>3 DEF ArrayCall
      <4> QED BY <4>1, <2>1, IndexAssumption
    <3> QED BY <1>7, <3>1, <3>2, <3>3
  <2> QED BY <2>1, <2>2, <1>6, Records
<1>8. ASSUME NEW p \in Proc, RWReturn(p) PROVE SegInv' /\ Rooms
  <2>1. op[p].call \notin {"none", "init"}
    BY <1>8 DEF RWReturn, Go, ControlInv, Control
  <2>2. Rooms
    BY <1>8, <2>1, <1>a, <1>s, <1>l DEF RWReturn, Quiet
  <2>3. /\ pc' = [pc EXCEPT ![p] = "out"] /\ op' = [op EXCEPT ![p] = NoCall]
        /\ Return(p, <<>>) /\ UNCHANGED <<setup, key, seg>>
    BY <1>8 DEF RWReturn, Go, Quiet
  <2> QED BY <2>2, <2>3, <1>n, SegTurn
<1>9. ASSUME NEW p \in Proc, InitCreate(p) \/ InitAttach(p) \/ InitRemove(p) \/ InitFail(p) \/ InitLost(p)
      PROVE  SegInv' /\ Rooms
  BY <1>9, SegInit
<1>10. ASSUME NEW p \in Proc, QueueStep(p) /\ ~QueueHead(p) /\ ~QueueCheck(p) /\ ~Exit(p)
       PROVE  SegInv' /\ Rooms
  <2>1. op[p].call \notin {"none", "init"} /\ Quiet
    BY <1>10 DEF QueueStep, QueueAbort, PushFull, PushNode, PushRear,
       PopEmpty, PopNode, PopFront, CleanFront, CleanRear, Ask, Quiet, In, Go, ControlInv, Control
  <2>2. pc' = [pc EXCEPT ![p] = pc'[p]] /\ pc'[p] \notin HeadPcs
    BY <1>10, <1>d DEF QueueStep, QueueAbort, PushFull, PushNode, PushRear,
       PopEmpty, PopNode, PopFront, CleanFront, CleanRear, Ask, In, Go, HeadPcs
  <2>3. \/ UNCHANGED op
        \/ op[p].call \notin {"enqueue", "push", "set"} /\ \E x : op' = [op EXCEPT ![p].v = x]
    BY <1>10 DEF QueueStep, QueueAbort, PushFull, PushNode, PushRear,
       PopEmpty, PopNode, PopFront, CleanFront, CleanRear, Ask, In
  <2>4. UNCHANGED ret \/ \E r : Return(p, r)
    BY <1>10 DEF QueueStep, QueueAbort, PushFull, PushNode, PushRear,
       PopEmpty, PopNode, PopFront, CleanFront, CleanRear, Ask
  <2>5. UNCHANGED shm \/ (\E f, x : Store(p, f, x)) \/ (\E i, x : StoreNode(p, i, x))
    BY <1>10 DEF QueueStep, QueueAbort, PushFull, PushNode, PushRear,
       PopEmpty, PopNode, PopFront, CleanFront, CleanRear, Ask
  <2>6. Rooms
    BY <2>1, <2>5, <1>a, <1>s, HeadStores, NodeStores DEF Quiet, SegInv
  <2>7. UNCHANGED <<setup, key, seg>>
    BY <2>1 DEF Quiet
  <2> QED BY <2>1, <2>2, <2>3, <2>4, <2>6, <2>7, SegCall
<1>11. ASSUME NEW p \in Proc, StackStep(p) /\ ~StackHead(p) /\ ~StackFound(p)
       PROVE  SegInv' /\ Rooms
  <2>1. op[p].call \notin {"none", "init"} /\ Quiet
    BY <1>11 DEF StackStep, StackFull, StackNode, StackPushed, StackEmpty,
       StackTop, StackPopped, StackSize, Quiet, In, Go, ControlInv, Control
  <2>2. pc' = [pc EXCEPT ![p] = pc'[p]] /\ pc'[p] \notin HeadPcs
    BY <1>11, <1>d DEF StackStep, StackFull, StackNode, StackPushed, StackEmpty,
       StackTop, StackPopped, StackSize, In, Go, HeadPcs
  <2>3. \/ UNCHANGED op
        \/ op[p].call \notin {"enqueue", "push", "set"} /\ \E x : op' = [op EXCEPT ![p].v = x]
    BY <1>11 DEF StackStep, StackFull, StackNode, StackPushed, StackEmpty,
       StackTop, StackPopped, StackSize, In
  <2>4. UNCHANGED ret \/ \E r : Return(p, r)
    BY <1>11 DEF StackStep, StackFull, StackNode, StackPushed, StackEmpty,
       StackTop, StackPopped, StackSize
  <2>5. UNCHANGED shm \/ (\E f, x : Store(p, f, x)) \/ (\E i, x : StoreNode(p, i, x))
    BY <1>11 DEF StackStep, StackFull, StackNode, StackPushed, StackEmpty,
       StackTop, StackPopped, StackSize
  <2>6. Rooms
    BY <2>1, <2>5, <1>a, <1>s, HeadStores, NodeStores DEF Quiet, SegInv
  <2>7. UNCHANGED <<setup, key, seg>>
    BY <2>1 DEF Quiet
  <2> QED BY <2>1, <2>2, <2>3, <2>4, <2>6, <2>7, SegCall
<1>12. ASSUME NEW p \in Proc, Overflow(p) \/ Length(p) \/ RWIndex(p) \/ RWLock(p)
                \/ SetFlag(p) \/ SetData(p) \/ GetUnset(p) \/ GetData(p) \/ Delete(p)
       PROVE  SegInv' /\ Rooms
  <2>1. op[p].call \notin {"none", "init"} /\ Quiet
    BY <1>12 DEF Overflow, Length, RWIndex, RWLock, SetFlag, SetData,
       GetUnset, GetData, Delete, Quiet, In, Go, ControlInv, Control
  <2>2. pc' = [pc EXCEPT ![p] = pc'[p]] /\ pc'[p] \notin HeadPcs
    BY <1>12, <1>d DEF Overflow, Length, RWIndex, RWLock, SetFlag, SetData,
       GetUnset, GetData, Delete, In, Go, HeadPcs, Last, Leave, Begin
  <2>3. \/ UNCHANGED op
        \/ op[p].call \notin {"enqueue", "push", "set"} /\ \E x : op' = [op EXCEPT ![p].v = x]
    BY <1>12 DEF Overflow, Length, RWIndex, RWLock, SetFlag, SetData,
       GetUnset, GetData, Delete, In
  <2>4. UNCHANGED ret \/ \E r : Return(p, r)
    BY <1>12 DEF Overflow, Length, RWIndex, RWLock, SetFlag, SetData,
       GetUnset, GetData, Delete
  <2>5. UNCHANGED shm \/ (\E i, x : StoreNode(p, i, x)) \/ SetLock(p, p)
    BY <1>12 DEF Overflow, Length, RWIndex, RWLock, SetFlag, SetData,
       GetUnset, GetData, Delete
  <2>6. Rooms
    BY <2>1, <2>5, <1>a, <1>s, <1>l, NodeStores DEF Quiet, SegInv
  <2>7. UNCHANGED <<setup, key, seg>>
    BY <2>1 DEF Quiet
  <2> QED BY <2>1, <2>2, <2>3, <2>4, <2>6, <2>7, SegCall
<1>13. ASSUME NEW p \in Proc, QueueHead(p) \/ QueueCheck(p) \/ StackHead(p) \/ StackFound(p)
                \/ ArrayHead(p) \/ ArrayFound(p) \/ RWFound(p) \/ RWLocks(p) \/ RWHead(p)
       PROVE  SegInv' /\ Rooms
  <2>1. /\ Quiet /\ pc' = [pc EXCEPT ![p] = pc'[p]] /\ pc[p] \in HeadPcs /\ UNCHANGED <<op, ret>>
        /\ UNCHANGED shm \/ RWLocks(p) \/ (\E f, x : Store(p, f, x))
    BY <1>13, <1>d DEF QueueHead, QueueCheck, StackHead, StackFound, ArrayHead, ArrayFound,
       RWFound, RWLocks, RWHead, InitStore, In, Go, HeadPcs
  <2>2. Rooms
    <3>1. ASSUME RWLocks(p) PROVE Rooms
      <4> DEFINE g == [l \in DOMAIN shm[seg[p]].locks |-> "free"]
      <4>1. DOMAIN g = DOMAIN shm[seg[p]].locks
        OBVIOUS
      <4>2. shm' = [shm EXCEPT ![seg[p]].locks = g]
        BY <3>1, <2>1, <1>a DEF RWLocks, SegInv, Shape, SegShape
      <4> HIDE DEF g
      <4> QED BY <4>1, <4>2, <2>1, <1>a, LockStores DEF Quiet, SegInv
    <3> QED BY <2>1, <3>1, <1>a, <1>s, HeadStores DEF Quiet, SegInv
  <2> QED BY <2>1, <2>2, SegHead DEF Quiet
<1> QED
  BY <1>1, <1>2, <1>3, <1>4, <1>5, <1>7, <1>8, <1>9, <1>10, <1>11, <1>12, <1>13
     DEF Next, Work, InitStep, ArrayStep, Die

LEMMA SegStart == Init => SegInv
BY Records DEF Init, SegInv, Shape, Uses, HeadPcs, NoCall, Asked


-----------------------------------------------------------------------------
(* The stack in a segment.                                                 *)
InLock(p) == pc[p] \notin Between \cup {"wait"}

LEMMA Alone ==
  ASSUME Guarded, kind # "rwarray", NEW p \in Proc, NEW q \in Proc, InLock(p), InLock(q)
  PROVE  p = q
<1>1. Place(p) = "in" /\ Place(q) = "in"
  BY Places DEF PlaceIs, InLock
<1>2. p \in Sem!Inside /\ q \in Sem!Inside
  BY <1>1 DEF Sem!Inside
<1> QED BY <1>2 DEF Guarded, Sem!LockInv, Sem!OneInside

StackSeg(s) ==
  /\ shm[s].head.cur \in Nat /\ shm[s].head.size \in Nat
  /\ shm[s].head.cur <= shm[s].head.size /\ shm[s].head.size <= Room(s)

StackAt(p) ==
  /\ pc[p] = "made" => m_pHead(p).size = 0
  /\ pc[p] = "total" => m_pHead(p).cur = 0
  /\ pc[p] = "stored" => /\ op[p].call = "push" /\ ~NoRoom(p)
                         /\ m_Nodes(p)[m_pHead(p).cur] = op[p].v
  /\ pc[p] = "read" => /\ op[p].call = "pop" /\ m_pHead(p).cur # 0
                       /\ m_Nodes(p)[m_pHead(p).cur - 1] = op[p].v

StackInv ==
  kind = "stack" =>
    (\A s \in 1 .. Len(shm) : StackSeg(s)) /\ (\A p \in Proc : StackAt(p))

(* The steps there are for a stack.                                        *)
LEMMA StackNext ==
  ASSUME ControlInv, kind = "stack", Next, kept'
  PROVE  \E p \in Proc :
           \/ SemGet(p) \/ SemInit(p) \/ Acquire(p) \/ InitStep(p) \/ StackStep(p)
           \/ StackCall(p) \/ Exit(p) \/ \E n \in setup.sizes : InitCall(p, n)
<1>1. ASSUME NEW p \in Proc PROVE /\ op[p].call \in {"none", "init", "push", "pop", "size"}
                                  /\ pc[p] # "rwwait" /\ pc[p] \notin {"rwleave", "rwreturn"}
  BY DEF ControlInv, Control, Calls
<1>2. ASSUME NEW p \in Proc, QueueStep(p) PROVE FALSE
  BY <1>1, <1>2 DEF QueueStep, QueueHead, QueueCheck, QueueAbort, PushFull, PushNode, PushRear,
     PopEmpty, PopNode, PopFront, CleanFront, CleanRear, Ask, In
<1>3. ASSUME NEW p \in Proc, ArrayStep(p) PROVE FALSE
  BY <1>1, <1>3 DEF ArrayStep, ArrayHead, ArrayFound, RWFound, RWLocks, RWHead, Overflow, Length,
     RWIndex, RWReturn, SetFlag, SetData, GetUnset, GetData, Delete, In, Go
<1>4. ASSUME NEW p \in Proc, RWLock(p) \/ QueueCall(p) \/ ArrayCall(p) PROVE FALSE
  BY <1>1, <1>4 DEF RWLock, Go, QueueCall, ArrayCall, Ready
<1>9. ASSUME NEW p \in Proc, Interrupted(p) PROVE FALSE
  BY <1>9 DEF Interrupted
<1> QED BY <1>9, <1>2, <1>3, <1>4 DEF Next, Work, Die

LEMMA StackRoom ==
  ASSUME SegInv, kind = "stack", NEW s \in 1 .. Len(shm)
  PROVE  /\ DOMAIN shm[s].head = {"size", "cur"} /\ Room(s) \in 1 .. SizeMax
         /\ DOMAIN shm[s].nodes = 0 .. Room(s) - 1
BY DEF SegInv, Shape, SegShape, Fields

(* A step of p that leaves the segments as they are, or that p takes alone.*)
LEMMA StackOthers ==
  ASSUME Guarded, SegInv, StackInv, kind = "stack", UNCHANGED setup, NEW p \in Proc,
         \A q \in Proc \ {p} : seg'[q] = seg[q] /\ pc'[q] = pc[q] /\ op'[q] = op[q],
         \/ InLock(p)
         \/ \A s \in 1 .. Len(shm) : shm'[s].head = shm[s].head /\ shm'[s].nodes = shm[s].nodes
  PROVE  \A q \in Proc \ {p} : StackAt(q)'
<1> SUFFICES ASSUME NEW q \in Proc \ {p} PROVE StackAt(q)'
  OBVIOUS
<1>1. CASE InLock(p)
  <2>1. ~InLock(q)
    BY <1>1, Alone
  <2> QED BY <2>1 DEF InLock, StackAt, Between
<1>2. CASE \A s \in 1 .. Len(shm) : shm'[s].head = shm[s].head /\ shm'[s].nodes = shm[s].nodes
  <2>1. StackAt(q)
    BY DEF StackInv
  <2>2. CASE pc[q] \in {"made", "total", "stored", "read"}
    <3>1. seg[q] \in 1 .. Len(shm)
      BY <2>1, <2>2 DEF SegInv, Uses, HeadPcs, StackAt, Shape
    <3> QED BY <1>2, <2>1, <3>1 DEF StackAt, m_pHead, m_Nodes, NoRoom
  <2>3. CASE pc[q] \notin {"made", "total", "stored", "read"}
    BY <2>3 DEF StackAt
  <2> QED BY <2>2, <2>3
<1> QED BY <1>1, <1>2

(* The results of the users of a segment.                                  *)
Users(s) == Results("stack", s)

LEMMA ResultsReturn ==
  ASSUME SegInv, UNCHANGED <<setup, seg>>, NEW p \in Proc, NEW r, Return(p, r), NEW s
  PROVE  Results(kind, s)' = IF s = seg[p] THEN [Results(kind, s) EXCEPT ![p] = r] ELSE Results(kind, s)
BY DEF SegInv, Results, kind, Return

LEMMA UsersReturn ==
  ASSUME SegInv, kind = "stack", UNCHANGED <<setup, seg>>, NEW p \in Proc, NEW r, Return(p, r), NEW s
  PROVE  Users(s)' = IF s = seg[p] THEN [Users(s) EXCEPT ![p] = r] ELSE Users(s)
BY ResultsReturn DEF Users, kind

(* A step of LifoStack on the stack in segment s.                          *)
Cap(s) == Nodes("stack", s)
StackTurn(s) ==
  \/ UNCHANGED <<Cap(s), StackIn(s), Users(s)>>
  \/ Cap(s) = 0 /\ Cap(s)' # 0 /\ UNCHANGED <<StackIn(s), Users(s)>>
  \/ /\ UNCHANGED Cap(s)
     /\ \E p \in Proc : \E r :
          /\ Users(s)' = [Users(s) EXCEPT ![p] = r]
          /\ \/ \E v \in Item : /\ Len(StackIn(s)) < Cap(s) /\ r = <<"pushed">>
                                /\ StackIn(s)' = Append(StackIn(s), v)
             \/ Len(StackIn(s)) = Cap(s) /\ r = <<"full">> /\ UNCHANGED StackIn(s)
             \/ /\ StackIn(s) # <<>> /\ r = <<"popped", StackIn(s)[Len(StackIn(s))]>>
                /\ StackIn(s)' = SubSeq(StackIn(s), 1, Len(StackIn(s)) - 1)
             \/ StackIn(s) = <<>> /\ r = <<"empty">> /\ UNCHANGED StackIn(s)
             \/ r = <<"is", Len(StackIn(s))>> /\ UNCHANGED StackIn(s)
             \/ r = <<>> /\ UNCHANGED StackIn(s)

(* The n first nodes of f as a sequence.                                   *)
Bottom(f, n) == [i \in 1 .. n |-> f[i - 1]]

LEMMA Firsts ==
  ASSUME NEW f, NEW n \in Nat
  PROVE  /\ Len(Bottom(f, n)) = n /\ (Bottom(f, n) = <<>> <=> n = 0)
         /\ Append(Bottom(f, n), f[n]) = Bottom(f, n + 1)
         /\ n # 0 => /\ SubSeq(Bottom(f, n), 1, n - 1) = Bottom(f, n - 1)
                     /\ Bottom(f, n)[n] = f[n - 1]
BY DEF Bottom

LEMMA StackView ==
  ASSUME SegInv, StackInv, kind = "stack", NEW s \in 1 .. Len(shm)
  PROVE  /\ Cap(s) = shm[s].head.size
         /\ StackIn(s) = Bottom(shm[s].nodes, shm[s].head.cur)
         /\ Len(StackIn(s)) = shm[s].head.cur
         /\ StackIn(s) = <<>> <=> shm[s].head.cur = 0
<1>1. shm[s].head.cur \in Nat
  BY DEF StackInv, StackSeg
<1>2. StackIn(s) = Bottom(shm[s].nodes, shm[s].head.cur) /\ Cap(s) = shm[s].head.size
  BY DEF StackIn, Stack, Bottom, SegInv, Shape, Cap, Nodes
<1>3. /\ Len(Bottom(shm[s].nodes, shm[s].head.cur)) = shm[s].head.cur
      /\ Bottom(shm[s].nodes, shm[s].head.cur) = <<>> <=> shm[s].head.cur = 0
  BY <1>1, Firsts
<1> QED BY <1>2, <1>3

LEMMA NoStack ==
  ASSUME SegInv, kind = "stack", NEW s \in Nat \ {0}, s \notin 1 .. Len(shm)
  PROVE  Cap(s) = 0 /\ StackIn(s) = <<>>
BY DEF Cap, Nodes, StackIn, Stack, SegInv, Shape

(* A step that leaves the segments as they are.                            *)
LEMMA StackStays ==
  ASSUME SegInv, SegInv', StackInv, kind = "stack", UNCHANGED setup, NEW s \in Nat \ {0},
         Len(shm') = Len(shm),
         s \in 1 .. Len(shm) =>
           /\ shm'[s].head.cur = shm[s].head.cur /\ shm'[s].head.size = shm[s].head.size
           /\ \A i \in 0 .. shm[s].head.cur - 1 : shm'[s].nodes[i] = shm[s].nodes[i]
  PROVE  UNCHANGED <<Cap(s), StackIn(s)>>
<1>k. kind' = kind
  BY DEF kind
<1>1. CASE s \in 1 .. Len(shm)
  <2>1. Cap(s)' = Cap(s)
    BY <1>1, <1>k DEF Cap, Nodes, SegInv, Shape
  <2>2. [i \in 1 .. shm'[s].head.cur |-> shm'[s].nodes[i - 1]] = [i \in 1 .. shm[s].head.cur |-> shm[s].nodes[i - 1]]
    <3>1. shm[s].head.cur \in Nat
      BY <1>1 DEF StackInv, StackSeg
    <3> QED BY <1>1, <3>1
  <2>3. StackIn(s)' = StackIn(s)
    BY <1>1, <1>k, <2>2 DEF StackIn, Stack, SegInv, Shape
  <2> QED BY <2>1, <2>3
<1>2. CASE s \notin 1 .. Len(shm)
  BY <1>2, <1>k DEF Cap, Nodes, StackIn, Stack, SegInv, Shape
<1> QED BY <1>1, <1>2

(* StackInv after a step of p.                                             *)
LEMMA StackKept ==
  ASSUME Guarded, SegInv, SegInv', StackInv, Rooms, kind = "stack", UNCHANGED setup,
         NEW p \in Proc,
         \A q \in Proc \ {p} : seg'[q] = seg[q] /\ pc'[q] = pc[q] /\ op'[q] = op[q],
         \/ InLock(p)
         \/ \A s \in 1 .. Len(shm) : shm'[s].head = shm[s].head /\ shm'[s].nodes = shm[s].nodes,
         \A s \in 1 .. Len(shm) :
           \/ shm'[s].head = shm[s].head
           \/ shm'[s].head.cur \in Nat /\ shm'[s].head.size \in Nat
              /\ shm'[s].head.cur <= shm'[s].head.size /\ shm'[s].head.size <= Room(s),
         \A s \in 1 .. Len(shm') : s \in 1 .. Len(shm) \/ StackSeg(s)',
         StackAt(p)'
  PROVE  StackInv'
<1>1. \A q \in Proc : StackAt(q)'
  BY StackOthers
<1>2. ASSUME NEW s \in 1 .. Len(shm') PROVE StackSeg(s)'
  <2>1. CASE s \in 1 .. Len(shm)
    <3>1. Room(s)' = Room(s) /\ StackSeg(s)
      BY <2>1 DEF Rooms, StackInv
    <3> QED BY <2>1, <3>1 DEF StackSeg
  <2> QED BY <2>1
<1> QED BY <1>1, <1>2 DEF StackInv

Goal == StackInv' /\ \A s \in Nat \ {0} : StackTurn(s)

(* A step that changes neither a stack nor a result.                       *)
LEMMA StackQuiet ==
  ASSUME Guarded, SegInv, SegInv', StackInv, Rooms, kind = "stack", NEW p \in Proc,
         UNCHANGED <<setup, shm, ret>>,
         \A q \in Proc \ {p} : seg'[q] = seg[q] /\ pc'[q] = pc[q] /\ op'[q] = op[q],
         UNCHANGED seg \/ ret[p] = <<>>,
         StackAt(p)'
  PROVE  Goal
<1>1. StackInv'
  BY StackKept
<1>2. ASSUME NEW s PROVE Users(s)' = Users(s)
  BY DEF Users, Results, kind
<1>3. ASSUME NEW s \in Nat \ {0} PROVE UNCHANGED <<Cap(s), StackIn(s)>>
  BY StackStays
<1> QED BY <1>1, <1>2, <1>3 DEF Goal, StackTurn

(* A step that returns a result and leaves the stacks as they are.         *)
LEMMA StackResult ==
  ASSUME Guarded, SegInv, SegInv', StackInv, Rooms, kind = "stack", NEW p \in Proc, NEW r,
         UNCHANGED <<setup, shm, seg>>, Return(p, r),
         \A q \in Proc \ {p} : pc'[q] = pc[q] /\ op'[q] = op[q],
         pc'[p] \in {"leave", "out"},
         \/ r = <<>>
         \/ /\ seg[p] # 0
            /\ \/ m_pHead(p).cur = m_pHead(p).size /\ r = <<"full">>
               \/ m_pHead(p).cur = 0 /\ r = <<"empty">>
               \/ r = <<"is", m_pHead(p).cur>>
  PROVE  Goal
<1>1. StackInv'
  <2>1. StackAt(p)'
    BY DEF StackAt
  <2> QED BY <2>1, StackKept
<1>2. ASSUME NEW s \in Nat \ {0} PROVE StackTurn(s)
  <2>1. UNCHANGED <<Cap(s), StackIn(s)>>
    BY StackStays
  <2>2. CASE s # seg[p]
    BY <2>1, <2>2, UsersReturn DEF StackTurn
  <2>3. CASE s = seg[p]
    <3>1. Users(s)' = [Users(s) EXCEPT ![p] = r]
      BY <2>3, UsersReturn
    <3>2. CASE r = <<>>
      BY <2>1, <3>1, <3>2 DEF StackTurn
    <3>3. CASE r # <<>>
      <4>1. s \in 1 .. Len(shm)
        BY <2>3 DEF SegInv, Uses
      <4>2. /\ Cap(s) = m_pHead(p).size /\ Len(StackIn(s)) = m_pHead(p).cur
            /\ StackIn(s) = <<>> <=> m_pHead(p).cur = 0
        BY <4>1, <2>3, StackView DEF m_pHead
      <4> QED BY <2>1, <3>1, <3>3, <4>2 DEF StackTurn
    <3> QED BY <3>2, <3>3
  <2> QED BY <2>2, <2>3
<1> QED BY <1>1, <1>2 DEF Goal

(* The stores to a stack: the others' stacks stay.                         *)
LEMMA StackStores ==
  ASSUME Guarded, SegInv, SegInv', StackInv, Rooms, kind = "stack", NEW p \in Proc,
         StackHead(p) \/ StackNode(p) \/ StackPushed(p) \/ StackPopped(p)
  PROVE  Goal
<1>p. /\ seg[p] \in 1 .. Len(shm) /\ InLock(p) /\ UNCHANGED <<setup, seg>>
      /\ \A q \in Proc \ {p} : seg'[q] = seg[q] /\ pc'[q] = pc[q] /\ op'[q] = op[q]
      /\ op' = op
  <2>1. pc[p] \in HeadPcs \/ op[p].call \in {"push", "pop"}
    BY DEF StackHead, StackNode, StackPushed, StackPopped, InitStore, In, Go, HeadPcs
  <2>2. seg[p] \in 1 .. Len(shm)
    BY <2>1 DEF SegInv, Uses, Shape
  <2>3. InLock(p) /\ Quiet /\ op' = op
    BY DEF StackHead, StackNode, StackPushed, StackPopped, InitStore, In, Go, InLock, Between
  <2>4. \A q \in Proc \ {p} : pc'[q] = pc[q]
    BY DEF StackHead, StackNode, StackPushed, StackPopped, InitStore, In, Go, Guarded, ControlInv, Domains
  <2> QED BY <2>2, <2>3, <2>4 DEF Quiet
<1> DEFINE sp == seg[p]
<1>s. /\ StackSeg(sp) /\ StackAt(p) /\ DOMAIN shm[sp].head = {"size", "cur"}
      /\ DOMAIN shm[sp].nodes = 0 .. Room(sp) - 1 /\ DOMAIN pc = Proc
      /\ Room(sp) \in 1 .. SizeMax
  BY <1>p, StackRoom DEF StackInv, Guarded, ControlInv, Domains
<1>o. ASSUME NEW s \in Nat \ {0}, s # sp, Len(shm') = Len(shm),
             \A t \in 1 .. Len(shm) : t # sp => shm'[t] = shm[t]
      PROVE  UNCHANGED <<Cap(s), StackIn(s)>>
  BY <1>o, <1>p, StackStays
<1>i. ASSUME StackSeg(sp)', Len(shm') = Len(shm), StackAt(p)',
             \A t \in 1 .. Len(shm) : t # sp => shm'[t] = shm[t]
      PROVE  StackInv'
  <2>1. \A q \in Proc : StackAt(q)'
    BY <1>i, <1>p, StackOthers
  <2>2. ASSUME NEW s \in 1 .. Len(shm') PROVE StackSeg(s)'
    <3>1. CASE s # sp
      BY <1>i, <2>2, <3>1 DEF StackInv, StackSeg, Rooms
    <3>2. CASE s = sp
      BY <1>i, <3>2, <1>p DEF StackSeg, Room
    <3> QED BY <3>1, <3>2
  <2> QED BY <2>1, <2>2 DEF StackInv
<1>v. /\ Cap(sp) = shm[sp].head.size /\ StackIn(sp) = Bottom(shm[sp].nodes, shm[sp].head.cur)
      /\ Len(StackIn(sp)) = shm[sp].head.cur /\ (StackIn(sp) = <<>> <=> shm[sp].head.cur = 0)
  BY <1>p, StackView
<1>w. ASSUME StackInv', Len(shm') = Len(shm), NEW s, s = sp
      PROVE  Cap(s)' = shm'[s].head.size /\ StackIn(s)' = Bottom(shm'[s].nodes, shm'[s].head.cur)
  <2>1. s \in 1 .. Len(shm') /\ kind' = "stack"
    BY <1>w, <1>p DEF kind
  <2> QED BY <2>1, <1>w DEF StackIn, Stack, Bottom, SegInv, Shape, Cap, Nodes
<1>h. ASSUME NEW f, NEW x, Store(p, f, x)
      PROVE  /\ Len(shm') = Len(shm) /\ \A t \in 1 .. Len(shm) : t # sp => shm'[t] = shm[t]
             /\ shm'[sp].nodes = shm[sp].nodes
             /\ f = "cur" => shm'[sp].head.cur = x /\ shm'[sp].head.size = shm[sp].head.size
             /\ f = "size" => shm'[sp].head.size = x /\ shm'[sp].head.cur = shm[sp].head.cur
  <2>1. Shape /\ UNCHANGED setup
    BY <1>p DEF SegInv
  <2> QED BY <2>1, <1>h, <1>p, <1>s, HeadStores
<1>1. CASE StackHead(p) /\ pc[p] = "made"
  <2>1. /\ Store(p, "size", op[p].arg) /\ pc' = [pc EXCEPT ![p] = "total"] /\ UNCHANGED ret
    BY <1>1 DEF StackHead, InitStore, In, Go
  <2>2. /\ Len(shm') = Len(shm) /\ \A t \in 1 .. Len(shm) : t # sp => shm'[t] = shm[t]
        /\ shm'[sp].nodes = shm[sp].nodes
        /\ shm'[sp].head.size = op[p].arg /\ shm'[sp].head.cur = shm[sp].head.cur
    BY <2>1, <1>h
  <2>3. op[p].arg \in 1 .. SizeMax /\ op[p].arg <= Room(sp) /\ shm[sp].head.size = 0 /\ shm[sp].head.cur = 0
    BY <1>1, <1>p, <1>s DEF SegInv, Uses, HeadPcs, StackAt, StackSeg, m_pHead
  <2>4. shm'[sp].head.size = op[p].arg /\ shm'[sp].head.cur = 0
    BY <2>2, <2>3, <1>s
  <2>5. StackInv'
    <3>1. Room(sp)' = Room(sp)
      BY <2>2, <1>p DEF Room
    <3>2. StackSeg(sp)'
      <4>1. seg'[p] = sp /\ 0 \in Nat /\ op[p].arg \in Nat /\ 0 <= op[p].arg
        BY <2>3, <1>p
      <4> QED BY <2>3, <2>4, <3>1, <4>1 DEF StackSeg
    <3>3. StackAt(p)'
      BY <2>1, <2>4, <1>s, <1>p DEF StackAt, m_pHead
    <3> QED BY <2>2, <3>2, <3>3, <1>i
  <2>6. ASSUME NEW s \in Nat \ {0} PROVE StackTurn(s)
    <3>u. Users(s)' = Users(s)
      BY <2>1, <1>p DEF Users, Results, kind
    <3>1. CASE s # sp
      BY <3>1, <3>u, <2>2, <1>o DEF StackTurn
    <3>2. CASE s = sp
      <4>1. Cap(s) = 0 /\ Cap(s)' = op[p].arg
        BY <3>2, <2>2, <2>3, <2>4, <2>5, <1>v, <1>w
      <4>2. StackIn(s)' = StackIn(s)
        BY <3>2, <2>2, <2>3, <2>4, <2>5, <1>v, <1>w
      <4> QED BY <4>1, <4>2, <3>u, <2>3 DEF StackTurn
    <3> QED BY <3>1, <3>2
  <2> QED BY <2>5, <2>6 DEF Goal
<1>2. CASE StackHead(p) /\ pc[p] = "total"
  <2>1. /\ Store(p, "cur", 0) /\ pc' = [pc EXCEPT ![p] = "leave"] /\ UNCHANGED ret
    BY <1>2 DEF StackHead, InitStore, In, Go
  <2>2. /\ Len(shm') = Len(shm) /\ \A t \in 1 .. Len(shm) : t # sp => shm'[t] = shm[t]
        /\ shm'[sp].nodes = shm[sp].nodes
        /\ shm'[sp].head.cur = 0 /\ shm'[sp].head.size = shm[sp].head.size
    BY <2>1, <1>h
  <2>4. shm'[sp].head.size = shm[sp].head.size /\ shm'[sp].head.cur = 0 /\ shm[sp].head.cur = 0
    BY <1>2, <2>2, <1>s DEF StackAt, m_pHead
  <2>5. StackInv'
    <3>1. Room(sp)' = Room(sp)
      BY <2>2, <1>p DEF Room
    <3>2. StackSeg(sp)'
      BY <2>4, <3>1, <1>p, <1>s DEF StackSeg
    <3>3. StackAt(p)'
      BY <2>1, <1>s DEF StackAt
    <3> QED BY <2>2, <3>2, <3>3, <1>i
  <2>6. ASSUME NEW s \in Nat \ {0} PROVE StackTurn(s)
    <3>u. Users(s)' = Users(s)
      BY <2>1, <1>p DEF Users, Results, kind
    <3>1. CASE s # sp
      BY <3>1, <3>u, <2>2, <1>o DEF StackTurn
    <3>2. CASE s = sp
      BY <3>2, <3>u, <2>2, <2>4, <2>5, <1>v, <1>w DEF StackTurn
    <3> QED BY <3>1, <3>2
  <2> QED BY <2>5, <2>6 DEF Goal
<1>3. CASE StackNode(p)
  <2>1. /\ StoreNode(p, shm[sp].head.cur, op[p].v) /\ ~NoRoom(p) /\ pc' = [pc EXCEPT ![p] = "stored"]
        /\ UNCHANGED ret /\ op[p].call = "push"
    BY <1>3 DEF StackNode, In, Go, m_pHead
  <2>2. /\ Len(shm') = Len(shm) /\ \A t \in 1 .. Len(shm) : t # sp => shm'[t] = shm[t]
        /\ shm'[sp].head = shm[sp].head
        /\ \A j \in DOMAIN shm[sp].nodes :
             shm'[sp].nodes[j] = IF j = shm[sp].head.cur THEN op[p].v ELSE shm[sp].nodes[j]
    <3>1. Shape
      BY DEF SegInv
    <3> QED BY <2>1, <1>p, <3>1, NodeStores
  <2>3. shm[sp].head.cur \in DOMAIN shm[sp].nodes /\ shm[sp].head.cur \in Nat
    BY <1>s, <2>1 DEF StackSeg, NoRoom, m_pHead
  <2>4. /\ shm'[sp].nodes[shm[sp].head.cur] = op[p].v
        /\ \A i \in 0 .. shm[sp].head.cur - 1 : shm'[sp].nodes[i] = shm[sp].nodes[i]
    <3> DEFINE c == shm[sp].head.cur
               n == Room(sp)
    <3>1. c \in 0 .. n - 1 /\ n \in Nat
      BY <2>3, <1>s
    <3>2. \A i \in 0 .. c - 1 : i \in 0 .. n - 1 /\ i # c
      <4> HIDE DEF c, n
      <4> QED BY <3>1
    <3>3. shm'[sp].nodes[c] = op[p].v
      BY <2>2, <2>3
    <3>4. \A i \in 0 .. c - 1 : i \in DOMAIN shm[sp].nodes
      BY <3>2, <1>s
    <3> HIDE DEF n
    <3> QED BY <2>2, <3>2, <3>3, <3>4
  <2>5. StackInv'
    <3>1. Room(sp)' = Room(sp)
      BY <1>p DEF Rooms, Room
    <3>2. StackSeg(sp)'
      BY <2>2, <3>1, <1>p, <1>s DEF StackSeg
    <3>3. StackAt(p)'
      BY <2>1, <2>2, <2>4, <1>s, <1>p DEF StackAt, m_pHead, m_Nodes, NoRoom
    <3> QED BY <2>2, <3>2, <3>3, <1>i
  <2>6. ASSUME NEW s \in Nat \ {0} PROVE StackTurn(s)
    <3>u. Users(s)' = Users(s)
      BY <2>1, <1>p DEF Users, Results, kind
    <3>1. UNCHANGED <<Cap(s), StackIn(s)>>
      BY <2>2, <2>4, <1>p, StackStays
    <3> QED BY <3>1, <3>u DEF StackTurn
  <2> QED BY <2>5, <2>6 DEF Goal
<1>4. CASE StackPushed(p)
  <2> DEFINE c == shm[sp].head.cur
  <2>0. Store(p, "cur", Up(c)) /\ pc[p] = "stored"
    BY <1>4 DEF StackPushed, In, Go, m_pHead
  <2>u. Up(c) = c + 1
    <3>1. c \in Nat /\ c < shm[sp].head.size /\ shm[sp].head.size <= Room(sp)
      BY <1>s, <2>0 DEF StackSeg, NoRoom, m_pHead, StackAt
    <3>2. c # SizeMax
      BY <1>s, <3>1, SegmentAssumption DEF StackSeg
    <3> QED BY <3>2 DEF Up
  <2>1. /\ Store(p, "cur", c + 1) /\ pc' = [pc EXCEPT ![p] = "leave"]
        /\ Return(p, <<"pushed">>) /\ op[p].call = "push" /\ pc[p] = "stored"
    BY <1>4, <2>0, <2>u DEF StackPushed, In, Go
  <2>2. /\ Len(shm') = Len(shm) /\ \A t \in 1 .. Len(shm) : t # sp => shm'[t] = shm[t]
        /\ shm'[sp].nodes = shm[sp].nodes
        /\ shm'[sp].head.cur = c + 1 /\ shm'[sp].head.size = shm[sp].head.size
    BY <2>1, <1>h
  <2>3. c \in Nat /\ c < shm[sp].head.size /\ shm[sp].nodes[c] = op[p].v /\ op[p].v \in Item
    BY <1>s, <2>1 DEF StackSeg, NoRoom, m_pHead, m_Nodes, StackAt, SegInv, Uses
  <2>4. shm'[sp].head.size = shm[sp].head.size /\ shm'[sp].head.cur = c + 1
    BY <2>2, <1>s
  <2>5. StackInv'
    <3>1. Room(sp)' = Room(sp)
      BY <1>p DEF Rooms, Room
    <3>2. StackSeg(sp)'
      BY <2>3, <2>4, <3>1, <1>p, <1>s DEF StackSeg
    <3>3. StackAt(p)'
      BY <2>1, <1>s DEF StackAt
    <3> QED BY <2>2, <3>2, <3>3, <1>i
  <2>6. ASSUME NEW s \in Nat \ {0} PROVE StackTurn(s)
    <3>1. CASE s # sp
      <4>u. Users(s)' = Users(s)
        BY <2>1, <1>p, <3>1, UsersReturn
      <4> QED BY <3>1, <4>u, <2>2, <1>o DEF StackTurn
    <3>2. CASE s = sp
      <4>u. Users(s)' = [Users(s) EXCEPT ![p] = <<"pushed">>]
        BY <2>1, <1>p, <3>2, UsersReturn
      <4>1. Cap(s)' = Cap(s) /\ Len(StackIn(s)) < Cap(s)
        BY <3>2, <2>3, <2>4, <2>5, <2>2, <1>v, <1>w
      <4>2. StackIn(s)' = Append(StackIn(s), op[p].v)
        <5>1. StackIn(s) = Bottom(shm[s].nodes, c) /\ StackIn(s)' = Bottom(shm[s].nodes, c + 1)
          BY <3>2, <2>2, <2>4, <2>5, <1>v, <1>w
        <5>2. Append(Bottom(shm[s].nodes, c), shm[s].nodes[c]) = Bottom(shm[s].nodes, c + 1)
          BY <2>3, Firsts
        <5> QED BY <5>1, <5>2, <2>3, <3>2
      <4> QED BY <4>u, <4>1, <4>2, <2>3 DEF StackTurn
    <3> QED BY <3>1, <3>2
  <2> QED BY <2>5, <2>6 DEF Goal
<1>5. CASE StackPopped(p)
  <2> DEFINE c == shm[sp].head.cur
  <2>0. Store(p, "cur", Down(c)) /\ pc[p] = "read"
    BY <1>5 DEF StackPopped, In, Go, m_pHead
  <2>u. Down(c) = c - 1
    BY <1>s, <2>0 DEF StackAt, m_pHead, Down
  <2>1. /\ Store(p, "cur", c - 1) /\ pc' = [pc EXCEPT ![p] = "leave"]
        /\ Return(p, <<"popped", op[p].v>>) /\ op[p].call = "pop" /\ pc[p] = "read"
    BY <1>5, <2>0, <2>u DEF StackPopped, In, Go
  <2>2. /\ Len(shm') = Len(shm) /\ \A t \in 1 .. Len(shm) : t # sp => shm'[t] = shm[t]
        /\ shm'[sp].nodes = shm[sp].nodes
        /\ shm'[sp].head.cur = c - 1 /\ shm'[sp].head.size = shm[sp].head.size
    BY <2>1, <1>h
  <2>3. c \in Nat \ {0} /\ shm[sp].nodes[c - 1] = op[p].v
    BY <1>s, <2>1 DEF StackSeg, m_pHead, m_Nodes, StackAt
  <2>4. shm'[sp].head.size = shm[sp].head.size /\ shm'[sp].head.cur = c - 1
    BY <2>2, <1>s
  <2>5. StackInv'
    <3>1. Room(sp)' = Room(sp)
      BY <1>p DEF Rooms, Room
    <3>2. StackSeg(sp)'
      <4>1. seg'[p] = sp /\ c - 1 \in Nat /\ c - 1 <= c
        BY <2>3, <1>p
      <4>2. c <= shm[sp].head.size /\ shm[sp].head.size \in Nat /\ shm[sp].head.size <= Room(sp)
        BY <1>s DEF StackSeg
      <4> QED BY <2>3, <2>4, <3>1, <4>1, <4>2 DEF StackSeg
    <3>3. StackAt(p)'
      BY <2>1, <1>s DEF StackAt
    <3> QED BY <2>2, <3>2, <3>3, <1>i
  <2>6. ASSUME NEW s \in Nat \ {0} PROVE StackTurn(s)
    <3>1. CASE s # sp
      <4>u. Users(s)' = Users(s)
        BY <2>1, <1>p, <3>1, UsersReturn
      <4> QED BY <3>1, <4>u, <2>2, <1>o DEF StackTurn
    <3>2. CASE s = sp
      <4>u. Users(s)' = [Users(s) EXCEPT ![p] = <<"popped", op[p].v>>]
        BY <2>1, <1>p, <3>2, UsersReturn
      <4>1. Cap(s)' = Cap(s) /\ Len(StackIn(s)) = c /\ StackIn(s) # <<>>
        BY <3>2, <2>3, <2>4, <2>5, <2>2, <1>v, <1>w
      <4>2. StackIn(s)' = SubSeq(StackIn(s), 1, c - 1) /\ StackIn(s)[c] = op[p].v
        <5>1. StackIn(s) = Bottom(shm[s].nodes, c) /\ StackIn(s)' = Bottom(shm[s].nodes, c - 1)
          BY <3>2, <2>2, <2>4, <2>5, <1>v, <1>w
        <5>2. /\ SubSeq(Bottom(shm[s].nodes, c), 1, c - 1) = Bottom(shm[s].nodes, c - 1)
              /\ Bottom(shm[s].nodes, c)[c] = shm[s].nodes[c - 1]
          BY <2>3, Firsts
        <5> QED BY <5>1, <5>2, <2>3, <3>2
      <4> QED BY <4>u, <4>1, <4>2 DEF StackTurn
    <3> QED BY <3>1, <3>2
  <2> QED BY <2>5, <2>6 DEF Goal
<1> QED BY <1>1, <1>2, <1>3, <1>4, <1>5 DEF StackHead, InitStore, In, Go

(* A new segment is an empty stack that fits nothing.                      *)
LEMMA StackMade ==
  ASSUME Guarded, SegInv, SegInv', StackInv, Rooms, kind = "stack", NEW p \in Proc,
         InitCreate(p) \/ InitLost(p)
  PROVE  Goal
<1>1. /\ \A q \in Proc \ {p} : seg'[q] = seg[q] /\ pc'[q] = pc[q] /\ op'[q] = op[q]
      /\ UNCHANGED <<setup, op, ret>> /\ op[p].call = "init" /\ pc'[p] \in {"made", "leave"}
      /\ shm' = Append(shm, Zeroed(op[p].arg))
      /\ InitCreate(p) => seg'[p] = Len(shm') /\ pc'[p] = "made"
      /\ InitLost(p) => seg' = seg /\ pc'[p] = "leave"
      /\ InLock(p)
  BY DEF InitCreate, InitLost, Creates, In, Go, SegInv, Guarded, ControlInv, Domains, InLock, Between
<1>2. op[p].arg \in 1 .. SizeMax /\ ret[p] = <<>> /\ Len(shm) \in Nat
  BY <1>1 DEF SegInv, Uses, Shape
<1>3. /\ Len(shm') = Len(shm) + 1
      /\ \A s \in 1 .. Len(shm) : shm'[s] = shm[s]
      /\ \A s : s = Len(shm') => shm'[s] = Zeroed(op[p].arg) /\ Room(s)' = op[p].arg
  BY <1>1, <1>2, SegMade DEF SegInv
<1>4. Zeroed(op[p].arg).head.cur = 0 /\ Zeroed(op[p].arg).head.size = 0
  BY DEF Zeroed, Fields
<1>5. ASSUME NEW s, s = Len(shm') PROVE StackSeg(s)'
  BY <1>2, <1>3, <1>4, <1>5 DEF StackSeg
<1>6. StackAt(p)'
  <2>1. CASE InitCreate(p)
    BY <2>1, <1>1, <1>3, <1>4 DEF StackAt, m_pHead
  <2>2. CASE InitLost(p)
    BY <2>2, <1>1 DEF StackAt
  <2> QED BY <2>1, <2>2
<1>7. StackInv'
  <2>1. ASSUME NEW s \in 1 .. Len(shm'), s \notin 1 .. Len(shm) PROVE StackSeg(s)'
    BY <1>2, <1>3, <1>5, <2>1
  <2> QED BY <1>1, <1>3, <1>6, <2>1, StackKept
<1>8. ASSUME NEW s \in Nat \ {0} PROVE StackTurn(s)
  <2>u. Users(s)' = Users(s)
    BY <1>1, <1>2 DEF Users, Results, kind, SegInv
  <2>k. kind' = "stack" /\ Shape'
    BY <1>1 DEF kind, SegInv
  <2>1. CASE s \in 1 .. Len(shm)
    <3>1. Cap(s)' = Cap(s)
      BY <2>1, <2>k, <1>2, <1>3 DEF Cap, Nodes, Shape, SegInv
    <3>2. StackIn(s)' = StackIn(s)
      <4>1. shm'[s] = shm[s]
        BY <2>1, <1>3
      <4>2. [i \in 1 .. shm'[s].head.cur |-> shm'[s].nodes[i - 1]]
              = [i \in 1 .. shm[s].head.cur |-> shm[s].nodes[i - 1]]
        BY <4>1
      <4>3. StackIn(s) = [i \in 1 .. shm[s].head.cur |-> shm[s].nodes[i - 1]]
        BY <2>1, <1>2 DEF StackIn, Stack
      <4>4. StackIn(s)' = [i \in 1 .. shm'[s].head.cur |-> shm'[s].nodes[i - 1]]
        BY <2>1, <2>k, <1>2, <1>3 DEF StackIn, Stack
      <4> QED BY <4>2, <4>3, <4>4
    <3> QED BY <2>u, <3>1, <3>2 DEF StackTurn
  <2>2. CASE s \notin 1 .. Len(shm)
    <3>1. Cap(s) = 0 /\ StackIn(s) = <<>>
      BY <2>2, NoStack
    <3>2. Cap(s)' = 0 /\ StackIn(s)' = <<>>
      <4>1. CASE s = Len(shm')
        <5>1. shm'[s].head.cur = 0 /\ shm'[s].head.size = 0
          BY <4>1, <1>3, <1>4
        <5> QED BY <4>1, <5>1, <2>k, <1>3, <1>2 DEF Cap, Nodes, StackIn, Stack, Shape
      <4>2. CASE s # Len(shm')
        BY <4>2, <2>2, <2>k, <1>3, <1>2 DEF Cap, Nodes, StackIn, Stack, Shape
      <4> QED BY <4>1, <4>2
    <3> QED BY <2>u, <3>1, <3>2 DEF StackTurn
  <2> QED BY <2>1, <2>2
<1> QED BY <1>7, <1>8 DEF Goal

(* A death takes a result away.                                            *)
LEMMA StackDeath ==
  ASSUME Guarded, SegInv, SegInv', StackInv, Rooms, kind = "stack", NEW p \in Proc, Exit(p)
  PROVE  Goal
<1>1. /\ \A q \in Proc \ {p} : seg'[q] = seg[q] /\ pc'[q] = pc[q] /\ op'[q] = op[q] /\ ret'[q] = ret[q]
      /\ UNCHANGED setup /\ pc'[p] = "new" /\ ret'[p] = <<>> /\ seg'[p] = 0
      /\ DOMAIN ret' = Proc
  BY DEF Exit, Return, SegInv, Guarded, ControlInv, Domains
<1>2. /\ Len(shm') = Len(shm)
      /\ \A s \in 1 .. Len(shm) : shm'[s].head = shm[s].head /\ shm'[s].nodes = shm[s].nodes
  BY ExitStores DEF SegInv
<1>3. StackInv'
  <2>1. StackAt(p)'
    BY <1>1 DEF StackAt
  <2> QED BY <1>1, <1>2, <2>1, StackKept
<1>4. ASSUME NEW s \in Nat \ {0} PROVE StackTurn(s)
  <2>1. UNCHANGED <<Cap(s), StackIn(s)>>
    BY <1>1, <1>2, StackStays
  <2>2. Users(s)' = [Users(s) EXCEPT ![p] = <<>>]
    BY <1>1 DEF Users, Results, kind
  <2> QED BY <2>1, <2>2 DEF StackTurn
<1> QED BY <1>3, <1>4 DEF Goal

LEMMA StackSteps ==
  ASSUME Guarded, SegInv, SegInv', StackInv, Rooms, kind = "stack", [Next]_vars, kept'
  PROVE  Goal
<1>d. DOMAIN pc = Proc /\ DOMAIN op = Proc
  BY DEF Guarded, ControlInv, Domains
<1>1. CASE UNCHANGED vars
  <2>1. StackInv'
    BY <1>1 DEF vars, StackInv, kind, StackSeg, StackAt, Room, m_pHead, m_Nodes, NoRoom
  <2>2. ASSUME NEW s \in Nat \ {0} PROVE UNCHANGED <<Cap(s), StackIn(s), Users(s)>>
    BY <1>1 DEF vars, Cap, Nodes, StackIn, Stack, Users, Results, kind
  <2> QED BY <2>1, <2>2 DEF Goal, StackTurn
<1>2. ASSUME NEW p \in Proc,
             \/ SemGet(p) \/ SemInit(p) \/ Acquire(p) \/ StackCall(p)
             \/ InitRemove(p) \/ InitFail(p) \/ StackFound(p)
             \/ \E n \in setup.sizes : InitCall(p, n)
      PROVE  Goal
  <2>1. /\ UNCHANGED <<setup, shm, ret, seg>>
        /\ \A q \in Proc \ {p} : pc'[q] = pc[q] /\ op'[q] = op[q]
        /\ pc'[p] \in {"set", "ready", "begin", "wait", "create", "leave"}
    BY <1>2, <1>d DEF SemGet, SemInit, Acquire, StackCall, InitRemove, InitFail, StackFound, InitCall,
       Enter, Quiet, In, Go
  <2>2. StackAt(p)'
    BY <2>1 DEF StackAt
  <2> QED BY <2>1, <2>2, StackQuiet
<1>3. ASSUME NEW p \in Proc, InitAttach(p) PROVE Goal
  <2>1. /\ UNCHANGED <<setup, shm, ret>> /\ ret[p] = <<>>
        /\ \A q \in Proc \ {p} : seg'[q] = seg[q] /\ pc'[q] = pc[q] /\ op'[q] = op[q]
        /\ pc'[p] = "found"
    BY <1>3, <1>d DEF InitAttach, In, Go, SegInv, Uses
  <2>2. StackAt(p)'
    BY <2>1 DEF StackAt
  <2> QED BY <2>1, <2>2, StackQuiet
<1>4. ASSUME NEW p \in Proc, StackTop(p) PROVE Goal
  <2>0. TopItems(p) = {m_Nodes(p)[m_pHead(p).cur - 1]}
    <3>1. seg[p] \in 1 .. Len(shm)
      BY <1>4 DEF StackTop, In, SegInv, Uses, Shape
    <3>2. StackSeg(seg[p]) /\ Room(seg[p]) \in 1 .. SizeMax
      BY <3>1, StackRoom DEF StackInv
    <3> QED BY <3>2 DEF TopItems, StackSeg, m_pHead
  <2>1. /\ UNCHANGED <<setup, shm, ret, seg>>
        /\ \A q \in Proc \ {p} : pc'[q] = pc[q] /\ op'[q] = op[q]
        /\ pc'[p] = "read" /\ op'[p].v = m_Nodes(p)[m_pHead(p).cur - 1]
        /\ op'[p].call = "pop" /\ m_pHead(p).cur # 0
    BY <1>4, <1>d, <2>0 DEF StackTop, In, Go, Quiet, Guarded, ControlInv, Domains
  <2>2. StackAt(p)'
    BY <2>1 DEF StackAt, m_pHead, m_Nodes
  <2> QED BY <2>1, <2>2, StackQuiet
<1>5. ASSUME NEW p \in Proc, StackFull(p) \/ StackEmpty(p) \/ StackSize(p) PROVE Goal
  <2>1. seg[p] \in 1 .. Len(shm)
    BY <1>5 DEF StackFull, StackEmpty, StackSize, In, SegInv, Uses, Shape
  <2>2. StackSeg(seg[p])
    BY <2>1 DEF StackInv
  <2>3. PICK r : /\ Return(p, r)
                 /\ \/ m_pHead(p).cur = m_pHead(p).size /\ r = <<"full">>
                    \/ m_pHead(p).cur = 0 /\ r = <<"empty">>
                    \/ r = <<"is", m_pHead(p).cur>>
    BY <1>5, <2>2 DEF StackFull, StackEmpty, StackSize, NoRoom, StackSeg, m_pHead
  <2>4. /\ UNCHANGED <<setup, shm, seg>> /\ pc'[p] = "leave"
        /\ \A q \in Proc \ {p} : pc'[q] = pc[q] /\ op'[q] = op[q]
    BY <1>5, <1>d DEF StackFull, StackEmpty, StackSize, In, Go, Quiet
  <2> QED BY <2>1, <2>3, <2>4, StackResult
<1>6. ASSUME NEW p \in Proc, UnLock(p) PROVE Goal
  <2>1. /\ UNCHANGED <<setup, shm, seg>> /\ pc'[p] = "out" /\ Return(p, <<>>)
        /\ \A q \in Proc \ {p} : pc'[q] = pc[q] /\ op'[q] = op[q]
    BY <1>6, <1>d DEF UnLock, Go
  <2> QED BY <2>1, StackResult
<1> QED
  BY <1>1, <1>2, <1>3, <1>4, <1>5, <1>6, StackNext, StackStores, StackMade, StackDeath
     DEF InitStep, StackStep, Guarded

LEMMA Fixed ==
  ASSUME ControlInv, [Next]_vars
  PROVE  UNCHANGED setup
<1>1. CASE UNCHANGED vars
  BY <1>1 DEF vars
<1>2. ASSUME NEW p \in Proc, Inner(p) PROVE UNCHANGED setup
  BY <1>2 DEF Inner
<1>3. ASSUME NEW p \in Proc,
             \/ SemGet(p) \/ SemInit(p) \/ Acquire(p) \/ Interrupted(p) \/ Exit(p) \/ UnLock(p)
             \/ QueueCall(p) \/ StackCall(p) \/ ArrayCall(p) \/ RWReturn(p)
             \/ \E n \in setup.sizes : InitCall(p, n)
      PROVE  UNCHANGED setup
  BY <1>3 DEF SemGet, SemInit, Acquire, Interrupted, Exit, UnLock, RWReturn, QueueCall, StackCall, ArrayCall,
     InitCall, Enter, Quiet
<1> QED
  BY <1>1, <1>2, <1>3, InnerSteps DEF Next, Work, InitStep, Die

(* Segments of another class hold no stack.                                *)
LEMMA OtherKind ==
  ASSUME kind # "stack", UNCHANGED setup
  PROVE  Goal
<1>1. ASSUME NEW s PROVE UNCHANGED <<Cap(s), StackIn(s), Users(s)>>
  BY DEF Cap, Nodes, StackIn, Users, Results, kind
<1>2. StackInv'
  BY DEF StackInv, kind
<1> QED BY <1>1, <1>2 DEF Goal, StackTurn

LEMMA StackAlways ==
  Spec => [][kept' => StackTurn(1) /\ StackTurn(2)]_vars
<1> DEFINE Inv == ControlInv /\ (kept => Guarded /\ SegInv /\ StackInv)
           Turn == StackTurn(1) /\ StackTurn(2)
<1>1. Init => Inv
  BY InitLock, SegStart DEF Guarded, StackInv, StackAt, Init
<1>2. Inv /\ [Next]_vars => Inv' /\ (kept' => Turn)
  <2> SUFFICES ASSUME Inv, [Next]_vars PROVE Inv' /\ (kept' => Turn)
    OBVIOUS
  <2>0. ControlInv'
    BY ControlStep
  <2>1. ASSUME kept' PROVE Guarded' /\ SegInv' /\ StackInv' /\ Turn
    <3>0. Guarded /\ SegInv /\ StackInv
      BY <2>1, KeptBefore
    <3>1. Guarded' /\ SegInv' /\ Rooms /\ UNCHANGED setup
      BY <2>1, <3>0, GuardedStep, SegStep, Fixed DEF Guarded
    <3>2. Goal
      BY <2>1, <3>0, <3>1, StackSteps, OtherKind
    <3> QED BY <3>1, <3>2 DEF Goal
  <2> QED BY <2>0, <2>1
<1> QED BY <1>1, <1>2, PTL DEF Spec

(* As long as the lock's rules are kept, and also after deaths in the      *)
(* middle of calls, the processes that have attached a segment, the first  *)
(* one or one that has replaced it, see one stack in it on which every     *)
(* call takes effect in one step.                                          *)
THEOREM StackLinearizable == Spec => IsStack
<1>1. Init => Lifo1!Init /\ Lifo2!Init
  BY DEF Init, Lifo1!Init, Lifo2!Init, Nodes, StackIn, Stack, Results
<1>2. StackTurn(1) => [Lifo1!Next]_(Lifo1!vars)
  BY DEF StackTurn, Cap, Users, Lifo1!Next, Lifo1!vars, Lifo1!Make, Lifo1!Push, Lifo1!PushFull,
     Lifo1!Pop, Lifo1!PopEmpty, Lifo1!Ask, Lifo1!Done, Lifo1!Return, Lifo1!Front, Lifo1!Last
<1>3. StackTurn(2) => [Lifo2!Next]_(Lifo2!vars)
  BY DEF StackTurn, Cap, Users, Lifo2!Next, Lifo2!vars, Lifo2!Make, Lifo2!Push, Lifo2!PushFull,
     Lifo2!Pop, Lifo2!PopEmpty, Lifo2!Ask, Lifo2!Done, Lifo2!Return, Lifo2!Front, Lifo2!Last
<1>4. [kept' => StackTurn(1) /\ StackTurn(2)]_vars =>
        [kept' => [Lifo1!Next]_(Lifo1!vars)]_vars /\ [kept' => [Lifo2!Next]_(Lifo2!vars)]_vars
  BY <1>2, <1>3
<1> QED
  BY <1>1, <1>4, StackAlways, PTL DEF Spec, IsStack

-----------------------------------------------------------------------------
(* A ring of n nodes g, used from f up to r: how many are used, which node *)
(* is the i-th used one, and their contents.                               *)
Used(f, r, n) == IF f <= r THEN r - f ELSE r + n - f
Nth(f, i, n) == IF f + i - 1 < n THEN f + i - 1 ELSE f + i - 1 - n
After(i, n) == IF i = n - 1 THEN 0 ELSE i + 1
Ring(g, f, r, n) == [i \in 1 .. Used(f, r, n) |-> g[Nth(f, i, n)]]

LEMMA Modulo ==
  ASSUME NEW n \in Nat \ {0}, NEW a \in 0 .. 2 * n - 1
  PROVE  (a < n => a % n = a) /\ (a >= n => a % n = a - n)
OBVIOUS

LEMMA RingIs ==
  ASSUME NEW n \in Nat \ {0}, NEW f \in 0 .. n - 1, NEW r \in 0 .. n - 1
  PROVE  /\ (r + n - f) % n = Used(f, r, n)
         /\ \A i \in 1 .. Used(f, r, n) : (f + i - 1) % n = Nth(f, i, n)
<1>1. (r + n - f) % n = Used(f, r, n)
  <2>1. r + n - f \in 0 .. 2 * n - 1 /\ (f <= r <=> r + n - f >= n)
    OBVIOUS
  <2> DEFINE a == r + n - f
  <2>2. a \in 0 .. 2 * n - 1
    BY <2>1
  <2> HIDE DEF a
  <2>3. (a < n => a % n = a) /\ (a >= n => a % n = a - n)
    BY <2>2, Modulo
  <2> QED BY <2>1, <2>3 DEF Used, a
<1>2. ASSUME NEW i \in 1 .. Used(f, r, n) PROVE (f + i - 1) % n = Nth(f, i, n)
  <2>1. f + i - 1 \in 0 .. 2 * n - 1
    BY DEF Used
  <2> DEFINE a == f + i - 1
  <2>2. a \in 0 .. 2 * n - 1
    BY <2>1
  <2> HIDE DEF a
  <2>3. (a < n => a % n = a) /\ (a >= n => a % n = a - n)
    BY <2>2, Modulo
  <2> QED BY <2>1, <2>3 DEF Nth, a
<1> QED BY <1>1, <1>2

LEMMA AfterIs ==
  ASSUME NEW n \in Nat \ {0}, NEW i \in 0 .. n - 1
  PROVE  (i + 1) % n = After(i, n) /\ After(i, n) \in 0 .. n - 1
<1>1. i + 1 \in 0 .. 2 * n - 1
  OBVIOUS
<1> QED BY <1>1, Modulo DEF After

LEMMA RingBounds ==
  ASSUME NEW n \in Nat \ {0}, NEW f \in 0 .. n - 1, NEW r \in 0 .. n - 1, NEW m \in Nat, n <= m
  PROVE  /\ r \in 0 .. m - 1
         /\ \A j \in 0 .. n - 1 : j \in 0 .. m - 1
         /\ \A j \in 0 .. r - 1 : j \in 0 .. m - 1 /\ j # r
         /\ f > r => \A j \in f .. n - 1 : j \in 0 .. m - 1 /\ j # r
OBVIOUS

LEMMA RingSize ==
  ASSUME NEW n \in Nat \ {0}, NEW f \in 0 .. n - 1, NEW r \in 0 .. n - 1, NEW g
  PROVE  /\ Used(f, r, n) \in 0 .. n - 1
         /\ Len(Ring(g, f, r, n)) = Used(f, r, n)
         /\ Ring(g, f, r, n) = <<>> <=> f = r
         /\ Used(f, r, n) = n - 1 <=> f = After(r, n)
BY DEF Ring, Used, After

LEMMA RingPush ==
  ASSUME NEW n \in Nat \ {0}, NEW f \in 0 .. n - 1, NEW r \in 0 .. n - 1, NEW g, f # After(r, n)
  PROVE  Append(Ring(g, f, r, n), g[r]) = Ring(g, f, After(r, n), n)
<1>1. Used(f, After(r, n), n) = Used(f, r, n) + 1 /\ Used(f, r, n) \in Nat
  BY DEF Used, After
<1>2. Nth(f, Used(f, r, n) + 1, n) = r
  BY DEF Used, Nth
<1> QED BY <1>1, <1>2 DEF Ring

LEMMA RingPop ==
  ASSUME NEW n \in Nat \ {0}, NEW f \in 0 .. n - 1, NEW r \in 0 .. n - 1, NEW g, f # r
  PROVE  Tail(Ring(g, f, r, n)) = Ring(g, After(f, n), r, n) /\ Head(Ring(g, f, r, n)) = g[f]
<1>1. Used(After(f, n), r, n) = Used(f, r, n) - 1 /\ Used(f, r, n) \in Nat \ {0}
  BY DEF Used, After
<1>2. \A i \in 1 .. Used(After(f, n), r, n) : Nth(After(f, n), i, n) = Nth(f, i + 1, n)
  BY DEF Used, Nth, After
<1>3. Nth(f, 1, n) = f
  BY DEF Nth
<1> QED BY <1>1, <1>2, <1>3 DEF Ring

(* The nodes that a Clean's death can bring back, and the used ones behind *)
(* the wrap, hold members of S.                                            *)
Holds(g, f, r, n, S) ==
  /\ \A j \in 0 .. r - 1 : g[j] \in S
  /\ f > r => \A j \in f .. n - 1 : g[j] \in S

LEMMA RingHolds ==
  ASSUME NEW n \in Nat \ {0}, NEW f \in 0 .. n - 1, NEW r \in 0 .. n - 1, NEW g, NEW S,
         Holds(g, f, r, n, S)
  PROVE  /\ g[r] \in S => Holds(g, f, After(r, n), n, S)
         /\ f # r => Holds(g, After(f, n), r, n, S)
         /\ Holds(g, 0, r, n, S) /\ Holds(g, 0, 0, n, S)
BY DEF Holds, After

(* A store to a node that is not used.                                     *)
LEMMA RingFree ==
  ASSUME NEW n \in Nat \ {0}, NEW f \in 0 .. n - 1, NEW r \in 0 .. n - 1, NEW g, NEW h,
         \A j \in 0 .. n - 1 : j # r => h[j] = g[j]
  PROVE  Ring(h, f, r, n) = Ring(g, f, r, n)
<1>1. \A i \in 1 .. Used(f, r, n) : Nth(f, i, n) # r /\ Nth(f, i, n) \in 0 .. n - 1
  BY DEF Used, Nth
<1> QED BY <1>1 DEF Ring

-----------------------------------------------------------------------------
(* The queue in a segment.                                                 *)
QueueSeg(s) ==
  /\ shm[s].head.size \in Nat /\ shm[s].head.size <= Room(s)
  /\ shm[s].head.front \in Nat /\ shm[s].head.rear \in Nat
  /\ shm[s].head.size = 0 => shm[s].head.front = 0 /\ shm[s].head.rear = 0
  /\ shm[s].head.size # 0 => /\ shm[s].head.front < shm[s].head.size
                             /\ shm[s].head.rear < shm[s].head.size
  /\ \A j \in 0 .. shm[s].head.rear - 1 : shm[s].nodes[j] \in Item
  /\ shm[s].head.front > shm[s].head.rear =>
       \A j \in shm[s].head.front .. shm[s].head.size - 1 : shm[s].nodes[j] \in Item

QueueAt(p) ==
  /\ pc[p] \in {"made", "rear", "size"} => m_pHead(p).size = 0
  /\ seg[p] # 0 /\ pc[p] \notin {"made", "rear", "size", "found"} => m_pHead(p).size # 0
  /\ pc[p] = "pushed" => /\ op[p].call = "enqueue" /\ ~IsFull(p)
                         /\ m_Nodes(p)[m_pHead(p).rear] = op[p].v
  /\ pc[p] = "popped" => /\ op[p].call = "dequeue" /\ ~IsEmpty(p)
                         /\ m_Nodes(p)[m_pHead(p).front] = op[p].v
  /\ pc[p] = "cleaned" => op[p].call = "clean" /\ m_pHead(p).front = 0 /\ ret[p] = <<"cleaned">>

QueueInv ==
  kind = "queue" =>
    (\A s \in 1 .. Len(shm) : QueueSeg(s)) /\ (\A p \in Proc : QueueAt(p))

(* The steps there are for a queue.                                        *)
LEMMA QueueNext ==
  ASSUME ControlInv, kind = "queue", Next, kept'
  PROVE  \E p \in Proc :
           \/ SemGet(p) \/ SemInit(p) \/ Acquire(p) \/ InitStep(p) \/ QueueStep(p)
           \/ QueueCall(p) \/ Exit(p) \/ \E n \in setup.sizes : InitCall(p, n)
<1>1. ASSUME NEW p \in Proc PROVE /\ op[p].call \in {"none", "init", "enqueue", "dequeue", "clean", "ask"}
                                  /\ pc[p] # "rwwait" /\ pc[p] \notin {"rwleave", "rwreturn"}
  BY DEF ControlInv, Control, Calls
<1>2. ASSUME NEW p \in Proc, StackStep(p) PROVE FALSE
  BY <1>1, <1>2 DEF StackStep, StackHead, StackFound, StackFull, StackNode, StackPushed, StackEmpty,
     StackTop, StackPopped, StackSize, In
<1>3. ASSUME NEW p \in Proc, ArrayStep(p) PROVE FALSE
  BY <1>1, <1>3 DEF ArrayStep, ArrayHead, ArrayFound, RWFound, RWLocks, RWHead, Overflow, Length,
     RWIndex, RWReturn, SetFlag, SetData, GetUnset, GetData, Delete, In, Go
<1>4. ASSUME NEW p \in Proc, RWLock(p) \/ StackCall(p) \/ ArrayCall(p) PROVE FALSE
  BY <1>1, <1>4 DEF RWLock, Go, StackCall, ArrayCall, Ready
<1>9. ASSUME NEW p \in Proc, Interrupted(p) PROVE FALSE
  BY <1>9 DEF Interrupted
<1> QED BY <1>9, <1>2, <1>3, <1>4 DEF Next, Work, Die

LEMMA QueueRoom ==
  ASSUME SegInv, kind = "queue", NEW s \in 1 .. Len(shm)
  PROVE  /\ DOMAIN shm[s].head = {"front", "rear", "size"} /\ Room(s) \in 1 .. SizeMax
         /\ DOMAIN shm[s].nodes = 0 .. Room(s) - 1
BY DEF SegInv, Shape, SegShape, Fields

(* A step of p that leaves the segments as they are, or that p takes alone.*)
LEMMA QueueOthers ==
  ASSUME Guarded, SegInv, QueueInv, kind = "queue", UNCHANGED setup, NEW p \in Proc,
         \A q \in Proc \ {p} : seg'[q] = seg[q] /\ pc'[q] = pc[q] /\ op'[q] = op[q] /\ ret'[q] = ret[q],
         \A s \in 1 .. Len(shm) : shm[s].head.size # 0 => shm'[s].head.size # 0,
         \/ InLock(p)
         \/ \A s \in 1 .. Len(shm) : shm'[s].head = shm[s].head /\ shm'[s].nodes = shm[s].nodes
  PROVE  \A q \in Proc \ {p} : QueueAt(q)'
<1> SUFFICES ASSUME NEW q \in Proc \ {p} PROVE QueueAt(q)'
  OBVIOUS
<1>0. QueueAt(q) /\ seg[q] \in 0 .. Len(shm) /\ (seg[q] # 0 => seg[q] \in 1 .. Len(shm))
  BY DEF QueueInv, SegInv, Uses, Shape
<1>s. seg[q] # 0 /\ pc[q] \notin {"made", "rear", "size", "found"} => m_pHead(q)'.size # 0
  BY <1>0 DEF QueueAt, m_pHead
<1>1. CASE InLock(p)
  <2>1. ~InLock(q)
    BY <1>1, Alone
  <2> QED BY <1>s, <2>1 DEF InLock, QueueAt, Between
<1>2. CASE \A s \in 1 .. Len(shm) : shm'[s].head = shm[s].head /\ shm'[s].nodes = shm[s].nodes
  <2>2. CASE pc[q] \in {"made", "rear", "size", "pushed", "popped", "cleaned"}
    <3>1. seg[q] \in 1 .. Len(shm)
      BY <1>0, <2>2 DEF SegInv, Uses, HeadPcs, QueueAt, Shape
    <3> QED BY <1>2, <1>0, <3>1 DEF QueueAt, m_pHead, m_Nodes, IsFull, IsEmpty, Next1
  <2>3. CASE pc[q] \notin {"made", "rear", "size", "pushed", "popped", "cleaned"}
    BY <1>s, <2>3 DEF QueueAt
  <2> QED BY <2>2, <2>3
<1> QED BY <1>1, <1>2

(* The queue of segment 1, as the refinement has it.                       *)
QCap == IF Nodes("queue", 1) = 0 THEN 0 ELSE Nodes("queue", 1) - 1
TheQueue == IF kind = "queue" THEN Queue(1) ELSE <<>>
QUsers == Results("queue", 1)
Cleaning == \E p \in Proc : seg[p] = 1 /\ pc[p] = "cleaned"

QueueView ==
  kind = "queue" /\ Shape /\ QueueInv =>
    /\ Len(shm) = 0 => QCap = 0 /\ TheQueue = <<>>
    /\ Len(shm) # 0 /\ shm[1].head.size = 0 => QCap = 0 /\ TheQueue = <<>>
    /\ Len(shm) # 0 /\ shm[1].head.size # 0 =>
         /\ QCap = shm[1].head.size - 1
         /\ Cleaning => TheQueue = <<>>
         /\ ~Cleaning => TheQueue = Ring(shm[1].nodes, shm[1].head.front, shm[1].head.rear, shm[1].head.size)

LEMMA QueueViews == QueueView
<1> SUFFICES ASSUME kind = "queue", Shape, QueueInv PROVE QueueView
  BY DEF QueueView
<1>l. Len(shm) \in Nat
  BY DEF Shape
<1>1. CASE Len(shm) = 0
  BY <1>1 DEF QueueView, QCap, Nodes, TheQueue, Queue, Shape
<1>2. CASE Len(shm) # 0 /\ shm[1].head.size = 0
  BY <1>2, <1>l DEF QueueView, QCap, Nodes, TheQueue, Queue, Shape
<1>3. CASE Len(shm) # 0 /\ shm[1].head.size # 0
  <2> DEFINE h == shm[1].head
  <2>1. 1 \in 1 .. Len(shm) /\ 1 \in DOMAIN shm
    BY <1>3, <1>l DEF Shape
  <2>2. h.size \in Nat \ {0} /\ h.front \in 0 .. h.size - 1 /\ h.rear \in 0 .. h.size - 1
    BY <1>3, <2>1 DEF QueueInv, QueueSeg
  <2>3. QCap = h.size - 1
    BY <1>3, <2>1 DEF QCap, Nodes
  <2>4. Cleaning => TheQueue = <<>>
    BY DEF TheQueue, Queue, Cleaning
  <2>5. ASSUME ~Cleaning PROVE TheQueue = Ring(shm[1].nodes, h.front, h.rear, h.size)
    <3>1. TheQueue = [i \in 1 .. (h.rear + h.size - h.front) % h.size |->
                        shm[1].nodes[(h.front + i - 1) % h.size]]
      BY <1>3, <2>1, <2>5, <1>l DEF TheQueue, Queue, Cleaning
    <3>2. /\ (h.rear + h.size - h.front) % h.size = Used(h.front, h.rear, h.size)
          /\ \A i \in 1 .. Used(h.front, h.rear, h.size) :
               (h.front + i - 1) % h.size = Nth(h.front, i, h.size)
      BY <2>2, RingIs
    <3> HIDE DEF h
    <3>3. [i \in 1 .. (h.rear + h.size - h.front) % h.size |-> shm[1].nodes[(h.front + i - 1) % h.size]]
            = [i \in 1 .. Used(h.front, h.rear, h.size) |-> shm[1].nodes[Nth(h.front, i, h.size)]]
      BY <3>2
    <3> QED BY <3>1, <3>3 DEF Ring
  <2> QED BY <1>3, <2>3, <2>4, <2>5 DEF QueueView
<1> QED BY <1>1, <1>2, <1>3

LEMMA QueueViewsNext == QueueView'
BY QueueViews, PTL

(* A step of FifoQueue on the queue in segment 1.                          *)
QueueTurn ==
  \/ UNCHANGED QCap /\ UNCHANGED TheQueue /\ UNCHANGED QUsers
  \/ QCap = 0 /\ QCap' # 0 /\ UNCHANGED TheQueue /\ UNCHANGED QUsers
  \/ /\ UNCHANGED QCap
     /\ \E p \in Proc : \E r :
          /\ QUsers' = [QUsers EXCEPT ![p] = r]
          /\ \/ \E v \in Item : /\ Len(TheQueue) < QCap /\ r = <<"pushed">>
                                /\ TheQueue' = Append(TheQueue, v)
             \/ Len(TheQueue) = QCap /\ r = <<"full">> /\ UNCHANGED TheQueue
             \/ /\ TheQueue # <<>> /\ r = <<"popped", Head(TheQueue)>>
                /\ TheQueue' = Tail(TheQueue)
             \/ TheQueue = <<>> /\ r = <<"empty">> /\ UNCHANGED TheQueue
             \/ TheQueue' = <<>> /\ r = <<"cleaned">>
             \/ /\ r = <<"is", Len(TheQueue), Len(TheQueue) = QCap, TheQueue = <<>> >>
                /\ UNCHANGED TheQueue
             \/ r = <<>> /\ UNCHANGED TheQueue
             \/ /\ r = <<>> /\ QUsers[p] = <<"cleaned">> /\ TheQueue = <<>>
                /\ \E m \in 0 .. QCap : TheQueue' \in [1 .. m -> Item]

QueueGoal == QueueInv' /\ QueueTurn

LEMMA QUsersReturn ==
  ASSUME SegInv, kind = "queue", UNCHANGED <<setup, seg>>, NEW p \in Proc, NEW r, Return(p, r)
  PROVE  QUsers' = IF seg[p] = 1 THEN [QUsers EXCEPT ![p] = r] ELSE QUsers
BY ResultsReturn DEF QUsers, kind

(* QueueInv after a step of p.                                             *)
LEMMA QueueKept ==
  ASSUME Guarded, SegInv, SegInv', QueueInv, Rooms, kind = "queue", UNCHANGED setup,
         NEW p \in Proc,
         \A q \in Proc \ {p} : seg'[q] = seg[q] /\ pc'[q] = pc[q] /\ op'[q] = op[q] /\ ret'[q] = ret[q],
         \A s \in 1 .. Len(shm) : shm[s].head.size # 0 => shm'[s].head.size # 0,
         \/ InLock(p)
         \/ \A s \in 1 .. Len(shm) : shm'[s].head = shm[s].head /\ shm'[s].nodes = shm[s].nodes,
         \A s \in 1 .. Len(shm') :
           \/ s \in 1 .. Len(shm) /\ shm'[s].head = shm[s].head /\ shm'[s].nodes = shm[s].nodes
           \/ QueueSeg(s)',
         QueueAt(p)'
  PROVE  QueueInv'
<1>1. \A q \in Proc : QueueAt(q)'
  BY QueueOthers
<1>2. ASSUME NEW s \in 1 .. Len(shm') PROVE QueueSeg(s)'
  <2>1. CASE s \in 1 .. Len(shm) /\ shm'[s].head = shm[s].head /\ shm'[s].nodes = shm[s].nodes
    <3>1. Room(s)' = Room(s) /\ QueueSeg(s)
      BY <2>1 DEF Rooms, QueueInv
    <3> QED BY <2>1, <3>1 DEF QueueSeg
  <2> QED BY <2>1
<1> QED BY <1>1, <1>2 DEF QueueInv

(* The used nodes stay, and so does the queue.                             *)
LEMMA QueueStays ==
  ASSUME SegInv, SegInv', QueueInv, QueueInv', kind = "queue", UNCHANGED setup,
         Len(shm') = Len(shm), Cleaning' <=> Cleaning,
         1 \in 1 .. Len(shm) =>
           /\ shm'[1].head.front = shm[1].head.front /\ shm'[1].head.rear = shm[1].head.rear
           /\ shm'[1].head.size = shm[1].head.size
           /\ \/ shm'[1].nodes = shm[1].nodes
              \/ \A j \in 0 .. shm[1].head.size - 1 :
                   j # shm[1].head.rear => shm'[1].nodes[j] = shm[1].nodes[j]
  PROVE  QCap' = QCap /\ TheQueue' = TheQueue
<1>k. kind' = "queue" /\ Shape /\ Shape' /\ Len(shm) \in Nat
  BY DEF kind, SegInv, Shape
<1>1. CASE Len(shm) = 0
  BY <1>1, <1>k, QueueViews, QueueViewsNext DEF QueueView
<1>2. CASE Len(shm) # 0 /\ shm[1].head.size = 0
  <2>1. Len(shm') # 0 /\ shm'[1].head.size = 0
    BY <1>2, <1>k
  <2> QED BY <1>2, <2>1, <1>k, QueueViews, QueueViewsNext DEF QueueView
<1>3. CASE Len(shm) # 0 /\ shm[1].head.size # 0
  <2>1. 1 \in 1 .. Len(shm)
    BY <1>3, <1>k
  <2> DEFINE h == shm[1].head
             g == shm[1].nodes
             j == shm'[1].nodes
  <2>2. h.size \in Nat \ {0} /\ h.front \in 0 .. h.size - 1 /\ h.rear \in 0 .. h.size - 1
    BY <1>3, <2>1 DEF QueueInv, QueueSeg
  <2>3. \A k \in 0 .. h.size - 1 : k # h.rear => j[k] = g[k]
    BY <2>1
  <2>4. Ring(j, h.front, h.rear, h.size) = Ring(g, h.front, h.rear, h.size)
    <3> DEFINE n == h.size
               f == h.front
               r == h.rear
    <3>1. n \in Nat \ {0} /\ f \in 0 .. n - 1 /\ r \in 0 .. n - 1
      BY <2>2
    <3>2. \A k \in 0 .. n - 1 : k # r => j[k] = g[k]
      BY <2>3
    <3> HIDE DEF n, f, r, g, j
    <3>3. Ring(j, f, r, n) = Ring(g, f, r, n)
      BY <3>1, <3>2, RingFree
    <3> QED BY <3>3 DEF n, f, r
  <2>5. Len(shm') # 0 /\ shm'[1].head.size # 0
    BY <1>3, <2>1
  <2>6. /\ shm'[1].head.front = h.front /\ shm'[1].head.rear = h.rear
        /\ shm'[1].head.size = h.size
    BY <2>1
  <2>7. /\ QCap' = h.size - 1
        /\ Cleaning' => TheQueue' = <<>>
        /\ ~Cleaning' => TheQueue' = Ring(j, h.front, h.rear, h.size)
    BY <1>k, <2>5, <2>6, QueueViewsNext DEF QueueView
  <2>8. /\ QCap = h.size - 1
        /\ Cleaning => TheQueue = <<>>
        /\ ~Cleaning => TheQueue = Ring(g, h.front, h.rear, h.size)
    BY <1>k, <1>3, QueueViews DEF QueueView
  <2> QED BY <2>4, <2>7, <2>8
<1> QED BY <1>1, <1>2, <1>3

LEMMA CleaningSame ==
  ASSUME NEW p \in Proc, \A q \in Proc \ {p} : seg'[q] = seg[q] /\ pc'[q] = pc[q],
         pc[p] # "cleaned", pc'[p] # "cleaned"
  PROVE  Cleaning' <=> Cleaning
BY DEF Cleaning

(* A step that changes neither a segment nor a result.                     *)
LEMMA QueueQuiet ==
  ASSUME Guarded, SegInv, SegInv', QueueInv, Rooms, kind = "queue", NEW p \in Proc,
         UNCHANGED <<setup, shm, ret>>,
         \A q \in Proc \ {p} : seg'[q] = seg[q] /\ pc'[q] = pc[q] /\ op'[q] = op[q],
         UNCHANGED seg \/ ret[p] = <<>>,
         pc[p] # "cleaned", pc'[p] # "cleaned",
         QueueAt(p)'
  PROVE  QueueGoal
<1>1. QueueInv'
  BY QueueKept
<1>2. QUsers' = QUsers
  BY DEF QUsers, Results, kind
<1>3. QCap' = QCap /\ TheQueue' = TheQueue
  BY <1>1, QueueStays, CleaningSame
<1> QED BY <1>1, <1>2, <1>3 DEF QueueGoal, QueueTurn

(* What a process in the lock sees.                                        *)
LEMMA QueueSeen ==
  ASSUME Guarded, SegInv, QueueInv, kind = "queue", NEW p \in Proc, InLock(p), pc[p] # "cleaned",
         seg[p] = 1, m_pHead(p).size # 0
  PROVE  LET h == m_pHead(p) IN
         /\ h.size \in Nat \ {0} /\ h.front \in 0 .. h.size - 1 /\ h.rear \in 0 .. h.size - 1
         /\ ~Cleaning /\ QCap = h.size - 1
         /\ TheQueue = Ring(m_Nodes(p), h.front, h.rear, h.size)
         /\ Size(p) = Len(TheQueue)
         /\ IsFull(p) <=> Len(TheQueue) = QCap
         /\ IsEmpty(p) <=> TheQueue = <<>>
<1> DEFINE h == shm[1].head
<1>1. 1 \in 1 .. Len(shm) /\ Len(shm) # 0
  BY DEF SegInv, Uses, Shape
<1>2. h.size \in Nat \ {0} /\ h.front \in 0 .. h.size - 1 /\ h.rear \in 0 .. h.size - 1
  BY <1>1 DEF QueueInv, QueueSeg, m_pHead
<1>3. ~Cleaning
  BY Alone DEF Cleaning, InLock, Between
<1>4. QCap = h.size - 1 /\ TheQueue = Ring(shm[1].nodes, h.front, h.rear, h.size)
  BY <1>1, <1>2, <1>3, QueueViews DEF QueueView, SegInv
<1>5. m_pHead(p) = h /\ m_Nodes(p) = shm[1].nodes
  BY DEF m_pHead, m_Nodes
<1>6. /\ Size(p) = (h.rear + h.size - h.front) % h.size
      /\ IsFull(p) <=> h.front = (h.rear + 1) % h.size
      /\ IsEmpty(p) <=> h.front = h.rear
  BY <1>5 DEF Size, IsFull, IsEmpty, Next1
<1> HIDE DEF h
<1>7. /\ Size(p) = Used(h.front, h.rear, h.size)
      /\ IsFull(p) <=> h.front = After(h.rear, h.size)
  BY <1>2, <1>6, RingIs, AfterIs
<1>8. /\ Len(TheQueue) = Used(h.front, h.rear, h.size)
      /\ TheQueue = <<>> <=> h.front = h.rear
      /\ Used(h.front, h.rear, h.size) = h.size - 1 <=> h.front = After(h.rear, h.size)
  BY <1>2, <1>4, RingSize
<1> QED BY <1>2, <1>3, <1>4, <1>5, <1>6, <1>7, <1>8

(* A step that returns a result and leaves the segments as they are.       *)
LEMMA QueueResult ==
  ASSUME Guarded, SegInv, SegInv', QueueInv, Rooms, kind = "queue", NEW p \in Proc, NEW r,
         UNCHANGED <<setup, shm, seg>>, Return(p, r),
         \A q \in Proc \ {p} : pc'[q] = pc[q] /\ op'[q] = op[q],
         pc[p] # "cleaned", pc'[p] \in {"leave", "out"},
         seg[p] # 0 => m_pHead(p).size # 0,
         \/ r = <<>>
         \/ /\ seg[p] # 0 /\ InLock(p)
            /\ \/ IsFull(p) /\ r = <<"full">>
               \/ IsEmpty(p) /\ r = <<"empty">>
               \/ r = <<"is", Size(p), IsFull(p), IsEmpty(p)>>
  PROVE  QueueGoal
<1>0. \A q \in Proc \ {p} : ret'[q] = ret[q]
  BY DEF Return, SegInv
<1>1. QueueInv'
  <2>1. QueueAt(p)'
    BY DEF QueueAt, m_pHead
  <2> QED BY <1>0, <2>1, QueueKept
<1>2. QCap' = QCap /\ TheQueue' = TheQueue
  BY <1>1, QueueStays, CleaningSame
<1>3. CASE seg[p] # 1
  BY <1>1, <1>2, <1>3, QUsersReturn DEF QueueGoal, QueueTurn
<1>4. CASE seg[p] = 1
  <2>1. QUsers' = [QUsers EXCEPT ![p] = r]
    BY <1>4, QUsersReturn
  <2>2. CASE r = <<>>
    BY <1>1, <1>2, <2>1, <2>2 DEF QueueGoal, QueueTurn
  <2>3. CASE r # <<>>
    <3>1. InLock(p) /\ m_pHead(p).size # 0
      BY <1>4, <2>3
    <3>2. /\ Size(p) = Len(TheQueue)
          /\ IsFull(p) <=> Len(TheQueue) = QCap
          /\ IsEmpty(p) <=> TheQueue = <<>>
      BY <1>4, <3>1, QueueSeen
    <3>3. \/ Len(TheQueue) = QCap /\ r = <<"full">>
          \/ TheQueue = <<>> /\ r = <<"empty">>
          \/ r = <<"is", Len(TheQueue), Len(TheQueue) = QCap, TheQueue = <<>> >>
      BY <2>3, <3>2 DEF IsFull, IsEmpty
    <3> QED BY <1>1, <1>2, <2>1, <3>3 DEF QueueGoal, QueueTurn
  <2> QED BY <2>2, <2>3
<1> QED BY <1>3, <1>4

(* The stores to a queue.                                                  *)
LEMMA QueueStore ==
  ASSUME Guarded, SegInv, SegInv', QueueInv, Rooms, kind = "queue", NEW p \in Proc, InLock(p),
         UNCHANGED <<setup, seg>>, NEW s \in 1 .. Len(shm), s = seg[p], Len(shm') = Len(shm),
         \A q \in Proc \ {p} : pc'[q] = pc[q] /\ op'[q] = op[q] /\ ret'[q] = ret[q],
         \A t \in 1 .. Len(shm) : t # s => shm'[t] = shm[t],
         shm[s].head.size # 0 => shm'[s].head.size # 0,
         QueueSeg(s)', QueueAt(p)'
  PROVE  /\ QueueInv'
         /\ s # 1 => QCap' = QCap /\ TheQueue' = TheQueue
         /\ s = 1 => (Cleaning <=> pc[p] = "cleaned") /\ (Cleaning' <=> pc'[p] = "cleaned")
<1>1. QueueInv'
  BY QueueKept
<1>2. ASSUME s # 1 PROVE QCap' = QCap /\ TheQueue' = TheQueue
  <2>1. Cleaning' <=> Cleaning
    BY <1>2 DEF Cleaning
  <2> QED BY <1>1, <1>2, <2>1, QueueStays
<1>3. ASSUME s = 1 PROVE (Cleaning <=> pc[p] = "cleaned") /\ (Cleaning' <=> pc'[p] = "cleaned")
  <2>1. \A q \in Proc \ {p} : pc[q] # "cleaned"
    BY Alone DEF InLock, Between
  <2> QED BY <1>3, <2>1 DEF Cleaning
<1> QED BY <1>1, <1>2, <1>3

(* The header of a new queue.                                              *)
LEMMA QueueHeadStores ==
  ASSUME Guarded, SegInv, SegInv', QueueInv, Rooms, kind = "queue", NEW p \in Proc, QueueHead(p)
  PROVE  QueueGoal
<1>0. /\ InLock(p) /\ UNCHANGED <<setup, seg, op, ret>> /\ pc[p] \in HeadPcs
      /\ pc[p] # "cleaned" /\ pc'[p] # "cleaned"
      /\ \A q \in Proc \ {p} : seg'[q] = seg[q] /\ pc'[q] = pc[q] /\ op'[q] = op[q] /\ ret'[q] = ret[q]
      /\ DOMAIN pc = Proc
  BY DEF QueueHead, InitStore, In, Go, Quiet, InLock, Between, HeadPcs, Guarded, ControlInv, Domains
<1>1. seg[p] \in 1 .. Len(shm) /\ op[p].arg \in 1 .. SizeMax
  BY <1>0 DEF SegInv, Uses, Shape
<1> SUFFICES ASSUME NEW s \in 1 .. Len(shm), s = seg[p] PROVE QueueGoal
  BY <1>1
<1>2. /\ shm[s].head.size = 0 /\ shm[s].head.front = 0 /\ shm[s].head.rear = 0
      /\ op[p].arg <= Room(s) /\ DOMAIN shm[s].head = {"front", "rear", "size"}
      /\ Room(s) \in 1 .. SizeMax /\ Room(s)' = Room(s) /\ s \in 1 .. Len(shm')
      /\ \A j \in 0 .. -1 : FALSE
  <2>1. QueueAt(p) /\ QueueSeg(s) /\ Uses(p)
    BY DEF QueueInv, SegInv
  <2>2. shm[s].head.size = 0
    BY <2>1 DEF QueueAt, QueueHead, InitStore, In, Go, m_pHead
  <2>3. Room(s)' = Room(s) /\ s \in 1 .. Len(shm')
    BY DEF Rooms, SegInv, Shape
  <2> QED BY <1>0, <2>1, <2>2, <2>3, QueueRoom DEF QueueSeg, Uses
<1>3. QUsers' = QUsers
  BY <1>0 DEF QUsers, Results, kind
<1>h. ASSUME NEW f, NEW x, Store(p, f, x)
      PROVE  /\ Len(shm') = Len(shm) /\ \A t \in 1 .. Len(shm) : t # s => shm'[t] = shm[t]
             /\ shm'[s].nodes = shm[s].nodes
             /\ \A g \in {"front", "rear", "size"} :
                  shm'[s].head[g] = IF g = f THEN x ELSE shm[s].head[g]
  <2>1. Shape /\ UNCHANGED setup
    BY <1>0 DEF SegInv
  <2> QED BY <2>1, <1>h, <1>1, <1>2, HeadStores
<1>4. CASE pc[p] \in {"made", "rear"}
  <2>1. PICK f \in {"front", "rear"} : Store(p, f, 0) /\ pc'[p] \in {"rear", "size"}
    BY <1>4, <1>0 DEF QueueHead, InitStore, In, Go
  <2>2. /\ Len(shm') = Len(shm) /\ \A t \in 1 .. Len(shm) : t # s => shm'[t] = shm[t]
        /\ shm'[s].nodes = shm[s].nodes
        /\ shm'[s].head.front = 0 /\ shm'[s].head.rear = 0 /\ shm'[s].head.size = 0
    BY <2>1, <1>2, <1>h
  <2>3. QueueSeg(s)'
    BY <1>2, <2>2 DEF QueueSeg
  <2>4. QueueAt(p)'
    BY <1>0, <2>1, <2>2 DEF QueueAt, m_pHead
  <2>5. QueueInv' /\ (s # 1 => QCap' = QCap /\ TheQueue' = TheQueue)
    BY <1>0, <1>2, <2>2, <2>3, <2>4, QueueStore
  <2>6. ASSUME s = 1 PROVE QCap' = QCap /\ TheQueue' = TheQueue
    <3>1. Cleaning' <=> Cleaning
      BY <1>0, CleaningSame
    <3> QED BY <1>0, <1>2, <2>2, <2>5, <2>6, <3>1, QueueStays
  <2> QED BY <1>3, <2>5, <2>6 DEF QueueGoal, QueueTurn
<1>5. CASE pc[p] = "size"
  <2>1. Store(p, "size", op[p].arg) /\ pc'[p] = "found"
    BY <1>5, <1>0 DEF QueueHead, InitStore, In, Go
  <2>2. /\ Len(shm') = Len(shm) /\ \A t \in 1 .. Len(shm) : t # s => shm'[t] = shm[t]
        /\ shm'[s].nodes = shm[s].nodes
        /\ shm'[s].head.front = 0 /\ shm'[s].head.rear = 0 /\ shm'[s].head.size = op[p].arg
    BY <2>1, <1>2, <1>h
  <2>3. QueueSeg(s)'
    <3>1. /\ shm'[s].head.size \in Nat \ {0} /\ shm'[s].head.size <= Room(s)'
          /\ shm'[s].head.rear = 0 /\ shm'[s].head.front = 0
      BY <1>1, <1>2, <2>2
    <3> QED BY <3>1 DEF QueueSeg
  <2>4. QueueAt(p)'
    BY <1>0, <2>1 DEF QueueAt
  <2>5. QueueInv' /\ (s # 1 => QCap' = QCap /\ TheQueue' = TheQueue)
    BY <1>0, <1>2, <2>2, <2>3, <2>4, QueueStore
  <2>6. ASSUME s = 1
        PROVE  QCap = 0 /\ QCap' = op[p].arg - 1 /\ TheQueue' = TheQueue
    <3>1. kind' = "queue" /\ Shape /\ Shape' /\ Len(shm) # 0 /\ Len(shm') # 0
      BY <1>0, <2>2 DEF kind, SegInv, Shape
    <3>2. QCap = 0 /\ TheQueue = <<>>
      BY <1>2, <2>6, <3>1, QueueViews DEF QueueView
    <3>3. shm'[1].head.size # 0
      BY <1>1, <2>2, <2>6
    <3>4. /\ QCap' = op[p].arg - 1
          /\ TheQueue' = <<>> \/ TheQueue' = Ring(shm[1].nodes, 0, 0, op[p].arg)
      <4>1. /\ shm'[1].head.front = 0 /\ shm'[1].head.rear = 0 /\ shm'[1].head.size = op[p].arg
            /\ shm'[1].nodes = shm[1].nodes
        BY <2>2, <2>6
      <4>2. /\ QCap' = shm'[1].head.size - 1
            /\ \/ TheQueue' = <<>>
               \/ TheQueue' = Ring(shm'[1].nodes, shm'[1].head.front, shm'[1].head.rear, shm'[1].head.size)
        BY <2>5, <3>1, <3>3, QueueViewsNext DEF QueueView
      <4> QED BY <4>1, <4>2
    <3>5. Ring(shm[1].nodes, 0, 0, op[p].arg) = <<>>
      <4> DEFINE n == op[p].arg
                 g == shm[1].nodes
      <4>1. n \in Nat \ {0} /\ 0 \in 0 .. n - 1
        BY <1>1
      <4> HIDE DEF n, g
      <4>2. Ring(g, 0, 0, n) = <<>>
        BY <4>1, RingSize
      <4> QED BY <4>2 DEF n, g
    <3> QED BY <3>2, <3>4, <3>5
  <2>7. CASE s # 1
    BY <1>3, <2>5, <2>7 DEF QueueGoal, QueueTurn
  <2>8. CASE s = 1 /\ op[p].arg = 1
    BY <1>3, <2>5, <2>6, <2>8 DEF QueueGoal, QueueTurn
  <2>9. CASE s = 1 /\ op[p].arg # 1
    BY <1>1, <1>3, <2>5, <2>6, <2>9 DEF QueueGoal, QueueTurn
  <2> QED BY <2>7, <2>8, <2>9
<1> QED BY <1>4, <1>5 DEF QueueHead, InitStore, In, Go

(* A node is stored, behind the queue.                                     *)
LEMMA QueuePushNode ==
  ASSUME Guarded, SegInv, SegInv', QueueInv, Rooms, kind = "queue", NEW p \in Proc, PushNode(p)
  PROVE  QueueGoal
<1>0. /\ InLock(p) /\ UNCHANGED <<setup, seg, op, ret>>
      /\ pc[p] = "begin" /\ pc'[p] = "pushed" /\ op[p].call = "enqueue"
      /\ \A q \in Proc \ {p} : seg'[q] = seg[q] /\ pc'[q] = pc[q] /\ op'[q] = op[q] /\ ret'[q] = ret[q]
  BY DEF PushNode, In, Go, Quiet, InLock, Between, Guarded, ControlInv, Domains
<1>1. seg[p] \in 1 .. Len(shm) /\ op[p].v \in Item
  BY <1>0 DEF SegInv, Uses, Shape
<1> SUFFICES ASSUME NEW s \in 1 .. Len(shm), s = seg[p] PROVE QueueGoal
  BY <1>1
<1> DEFINE h == shm[s].head
<1>2. /\ h.size \in Nat \ {0} /\ h.front \in 0 .. h.size - 1 /\ h.rear \in 0 .. h.size - 1
      /\ h.size <= Room(s) /\ DOMAIN shm[s].nodes = 0 .. Room(s) - 1
      /\ Room(s) \in 1 .. SizeMax /\ Room(s)' = Room(s) /\ s \in 1 .. Len(shm')
  <2>1. QueueAt(p) /\ QueueSeg(s)
    BY DEF QueueInv
  <2>2. Room(s)' = Room(s) /\ s \in 1 .. Len(shm')
    BY DEF Rooms, SegInv, Shape
  <2> QED BY <1>0, <1>1, <2>1, <2>2, QueueRoom DEF QueueSeg, QueueAt, m_pHead
<1>3. ~IsFull(p) /\ StoreNode(p, h.rear, op[p].v)
  BY DEF PushNode, m_pHead
<1>4. /\ Len(shm') = Len(shm) /\ \A t \in 1 .. Len(shm) : t # s => shm'[t] = shm[t]
      /\ shm'[s].head = shm[s].head
      /\ \A j \in 0 .. Room(s) - 1 :
           shm'[s].nodes[j] = IF j = h.rear THEN op[p].v ELSE shm[s].nodes[j]
  <2>1. Shape /\ UNCHANGED setup
    BY <1>0 DEF SegInv
  <2> HIDE DEF h
  <2> QED BY SMTT(30), <2>1, <1>1, <1>2, <1>3, NodeStores
<1>5. \A j \in 0 .. Room(s) - 1 : j # h.rear => shm'[s].nodes[j] = shm[s].nodes[j]
  BY <1>4
<1>b. /\ h.rear \in 0 .. Room(s) - 1
      /\ \A j \in 0 .. h.size - 1 : j \in 0 .. Room(s) - 1
      /\ \A j \in 0 .. h.rear - 1 : j \in 0 .. Room(s) - 1 /\ j # h.rear
      /\ h.front > h.rear => \A j \in h.front .. h.size - 1 : j \in 0 .. Room(s) - 1 /\ j # h.rear
  <2> DEFINE n == h.size
             f == h.front
             r == h.rear
             m == Room(s)
  <2>1. n \in Nat \ {0} /\ f \in 0 .. n - 1 /\ r \in 0 .. n - 1 /\ m \in Nat /\ n <= m
    BY <1>2
  <2> HIDE DEF n, f, r, m
  <2>2. /\ r \in 0 .. m - 1
        /\ \A j \in 0 .. n - 1 : j \in 0 .. m - 1
        /\ \A j \in 0 .. r - 1 : j \in 0 .. m - 1 /\ j # r
        /\ f > r => \A j \in f .. n - 1 : j \in 0 .. m - 1 /\ j # r
    BY <2>1, RingBounds
  <2> QED BY <2>2 DEF n, f, r, m
<1>6. QueueSeg(s)'
  <2>1. QueueSeg(s)
    BY DEF QueueInv
  <2>2. ASSUME NEW j \in 0 .. h.rear - 1 PROVE shm'[s].nodes[j] \in Item
    <3>1. shm[s].nodes[j] \in Item
      BY <2>1 DEF QueueSeg
    <3> QED BY <3>1, <1>b, <1>5
  <2>3. ASSUME h.front > h.rear, NEW j \in h.front .. h.size - 1 PROVE shm'[s].nodes[j] \in Item
    <3>1. shm[s].nodes[j] \in Item
      BY <2>1, <2>3 DEF QueueSeg
    <3> QED BY <3>1, <2>3, <1>b, <1>5
  <2>4. /\ h.size \in Nat /\ h.size # 0 /\ h.size <= Room(s)' /\ h.front \in Nat /\ h.rear \in Nat
        /\ h.front < h.size /\ h.rear < h.size
    BY SMTT(30), <1>2
  <2> QED BY <1>4, <2>2, <2>3, <2>4 DEF QueueSeg
<1>7. QueueAt(p)'
  <2>1. m_pHead(p)' = m_pHead(p) /\ m_Nodes(p)'[h.rear] = op[p].v /\ m_pHead(p) = h
    BY <1>0, <1>4, <1>b DEF m_pHead, m_Nodes
  <2>2. ~IsFull(p)'
    BY <1>3, <2>1 DEF IsFull, Next1
  <2> QED BY <1>0, <1>2, <2>1, <2>2 DEF QueueAt
<1>8. QueueInv' /\ (s # 1 => QCap' = QCap /\ TheQueue' = TheQueue)
  <2>1. h.size # 0 => shm'[s].head.size # 0
    BY <1>4
  <2> QED BY <1>0, <1>4, <1>6, <1>7, <2>1, QueueStore
<1>9. ASSUME s = 1 PROVE QCap' = QCap /\ TheQueue' = TheQueue
  <2>1. Cleaning' <=> Cleaning
    BY <1>0, CleaningSame
  <2>2. \A j \in 0 .. h.size - 1 : j # h.rear => shm'[s].nodes[j] = shm[s].nodes[j]
    BY <1>b, <1>5
  <2>3. /\ shm'[1].head = shm[1].head
        /\ \A j \in 0 .. shm[1].head.size - 1 :
             j # shm[1].head.rear => shm'[1].nodes[j] = shm[1].nodes[j]
    BY <1>4, <1>9, <2>2
  <2> QED BY <1>0, <1>4, <1>8, <2>1, <2>3, QueueStays
<1>10. QUsers' = QUsers
  BY <1>0 DEF QUsers, Results, kind
<1> QED BY <1>8, <1>9, <1>10 DEF QueueGoal, QueueTurn

(* The stores that move an end of the queue in a segment.                  *)
LEMMA QueueEnds ==
  ASSUME Guarded, SegInv, SegInv', QueueInv, Rooms, kind = "queue", NEW p \in Proc, InLock(p),
         UNCHANGED <<setup, seg, op>>,
         \A q \in Proc \ {p} : pc'[q] = pc[q] /\ ret'[q] = ret[q],
         pc'[p] \in {"leave", "cleaned"},
         NEW s \in 1 .. Len(shm), s = seg[p],
         shm[s].head.size # 0,
         NEW f \in 0 .. shm[s].head.size - 1, NEW r \in 0 .. shm[s].head.size - 1,
         \/ Store(p, "front", f) /\ r = shm[s].head.rear
         \/ Store(p, "rear", r) /\ f = shm[s].head.front,
         Holds(shm[s].nodes, f, r, shm[s].head.size, Item),
         pc'[p] = "cleaned" => op[p].call = "clean" /\ f = 0 /\ ret'[p] = <<"cleaned">>
  PROVE  /\ QueueInv'
         /\ s # 1 => QCap' = QCap /\ TheQueue' = TheQueue
         /\ s = 1 =>
              LET h == shm[s].head IN
              /\ QCap' = QCap /\ QCap = h.size - 1
              /\ pc[p] = "cleaned" => TheQueue = <<>>
              /\ pc[p] # "cleaned" => TheQueue = Ring(shm[s].nodes, h.front, h.rear, h.size)
              /\ pc'[p] = "cleaned" => TheQueue' = <<>>
              /\ pc'[p] # "cleaned" => TheQueue' = Ring(shm[s].nodes, f, r, h.size)
<1> DEFINE h == shm[s].head
<1>1. QueueSeg(s) /\ DOMAIN h = {"front", "rear", "size"} /\ Room(s)' = Room(s)
  BY QueueRoom DEF QueueInv, Rooms
<1>2. /\ Len(shm') = Len(shm) /\ \A t \in 1 .. Len(shm) : t # s => shm'[t] = shm[t]
      /\ shm'[s].nodes = shm[s].nodes
      /\ shm'[s].head.front = f /\ shm'[s].head.rear = r /\ shm'[s].head.size = h.size
  <2>1. Shape /\ UNCHANGED setup /\ seg[p] \in 1 .. Len(shm)
    BY DEF SegInv
  <2>2. CASE Store(p, "front", f) /\ r = h.rear
    BY <1>1, <2>1, <2>2, HeadStores
  <2>3. CASE Store(p, "rear", r) /\ f = h.front
    BY <1>1, <2>1, <2>3, HeadStores
  <2> QED BY <2>2, <2>3
<1>3. QueueSeg(s)'
  <2>1. /\ h.size \in Nat /\ h.size <= Room(s)' /\ f \in Nat /\ r \in Nat
        /\ f < h.size /\ r < h.size
    BY <1>1 DEF QueueSeg
  <2> QED BY <1>2, <2>1 DEF QueueSeg, Holds
<1>4. QueueAt(p)'
  <2>1. m_pHead(p)'.size # 0 /\ m_pHead(p)'.front = f
    BY <1>2 DEF m_pHead
  <2> QED BY <2>1 DEF QueueAt
<1>5. /\ QueueInv'
      /\ s # 1 => QCap' = QCap /\ TheQueue' = TheQueue
      /\ s = 1 => (Cleaning <=> pc[p] = "cleaned") /\ (Cleaning' <=> pc'[p] = "cleaned")
  <2>1. /\ \A q \in Proc \ {p} : pc'[q] = pc[q] /\ op'[q] = op[q] /\ ret'[q] = ret[q]
        /\ UNCHANGED <<setup, seg>> /\ (shm[s].head.size # 0 => shm'[s].head.size # 0)
    BY <1>2
  <2> QED BY <1>2, <1>3, <1>4, <2>1, QueueStore
<1>6. ASSUME s = 1
      PROVE  /\ QCap' = QCap /\ QCap = h.size - 1
             /\ pc[p] = "cleaned" => TheQueue = <<>>
             /\ pc[p] # "cleaned" => TheQueue = Ring(shm[s].nodes, h.front, h.rear, h.size)
             /\ pc'[p] = "cleaned" => TheQueue' = <<>>
             /\ pc'[p] # "cleaned" => TheQueue' = Ring(shm[s].nodes, f, r, h.size)
  <2>1. kind' = "queue" /\ Shape /\ Shape' /\ Len(shm) # 0 /\ Len(shm') # 0
    BY <1>2, <1>6 DEF kind, SegInv, Shape
  <2>2. /\ QCap = h.size - 1
        /\ Cleaning => TheQueue = <<>>
        /\ ~Cleaning => TheQueue = Ring(shm[s].nodes, h.front, h.rear, h.size)
    BY <1>6, <2>1, QueueViews DEF QueueView
  <2>3. /\ QCap' = shm'[1].head.size - 1
        /\ Cleaning' => TheQueue' = <<>>
        /\ ~Cleaning' => TheQueue' =
             Ring(shm'[1].nodes, shm'[1].head.front, shm'[1].head.rear, shm'[1].head.size)
    <3>1. shm'[1].head.size # 0
      BY <1>2, <1>6
    <3> QED BY <1>5, <2>1, <3>1, QueueViewsNext DEF QueueView
  <2>4. /\ shm'[1].head.front = f /\ shm'[1].head.rear = r /\ shm'[1].head.size = h.size
        /\ shm'[1].nodes = shm[s].nodes
    BY <1>2, <1>6
  <2> QED BY <1>5, <1>6, <2>2, <2>3, <2>4
<1> QED BY <1>5, <1>6

LEMMA QueueEndView ==
  ASSUME Guarded, SegInv, QueueInv, kind = "queue", NEW p \in Proc,
         PushRear(p) \/ PopFront(p) \/ CleanFront(p) \/ CleanRear(p)
  PROVE  LET h == m_pHead(p) IN
         /\ InLock(p) /\ UNCHANGED <<setup, seg, op>>
         /\ \A q \in Proc \ {p} : pc'[q] = pc[q] /\ ret'[q] = ret[q]
         /\ seg[p] \in 1 .. Len(shm) /\ QueueAt(p) /\ DOMAIN pc = Proc
         /\ h.size \in Nat \ {0} /\ h.front \in 0 .. h.size - 1 /\ h.rear \in 0 .. h.size - 1
         /\ Holds(m_Nodes(p), h.front, h.rear, h.size, Item)
<1>1. InLock(p) /\ UNCHANGED <<setup, seg, op>> /\ DOMAIN pc = Proc /\ DOMAIN ret = Proc
  BY DEF PushRear, PopFront, CleanFront, CleanRear, In, Go, Quiet, InLock, Between, Guarded,
     ControlInv, Domains, SegInv
<1>2. \A q \in Proc \ {p} : pc'[q] = pc[q] /\ ret'[q] = ret[q]
  BY <1>1 DEF PushRear, PopFront, CleanFront, CleanRear, In, Go, Return
<1>3. seg[p] \in 1 .. Len(shm) /\ pc[p] \in {"pushed", "popped", "begin", "cleaned"}
  <2>1. op[p].call \in {"enqueue", "dequeue", "clean"} /\ pc[p] \in {"pushed", "popped", "begin", "cleaned"}
    BY DEF PushRear, PopFront, CleanFront, CleanRear, In, Go
  <2> QED BY <2>1 DEF SegInv, Uses, Shape
<1>4. QueueAt(p) /\ QueueSeg(seg[p])
  BY <1>3 DEF QueueInv
<1>5. m_pHead(p).size # 0
  BY <1>3, <1>4 DEF QueueAt
<1> QED BY <1>1, <1>2, <1>3, <1>4, <1>5 DEF QueueSeg, m_pHead, m_Nodes, Holds

LEMMA QueuePushRear ==
  ASSUME Guarded, SegInv, SegInv', QueueInv, Rooms, kind = "queue", NEW p \in Proc, PushRear(p)
  PROVE  QueueGoal
<1>0. /\ InLock(p) /\ UNCHANGED <<setup, seg, op>> /\ DOMAIN pc = Proc
      /\ \A q \in Proc \ {p} : pc'[q] = pc[q] /\ ret'[q] = ret[q]
      /\ seg[p] \in 1 .. Len(shm) /\ QueueAt(p)
  BY QueueEndView
<1> SUFFICES ASSUME NEW s \in 1 .. Len(shm), s = seg[p] PROVE QueueGoal
  BY <1>0
<1> DEFINE h == shm[s].head
           g == shm[s].nodes
<1>1. m_pHead(p) = h /\ m_Nodes(p) = g
  BY DEF m_pHead, m_Nodes
<1>2. /\ h.size \in Nat \ {0} /\ h.front \in 0 .. h.size - 1 /\ h.rear \in 0 .. h.size - 1
      /\ Holds(g, h.front, h.rear, h.size, Item)
  BY <1>1, QueueEndView
<1>3. /\ pc[p] = "pushed" /\ pc'[p] = "leave" /\ op[p].call = "enqueue"
      /\ Store(p, "rear", Next1(p, h.rear)) /\ Return(p, <<"pushed">>)
  BY <1>0, <1>1 DEF PushRear, In, Go
<1>4. op[p].v \in Item /\ g[h.rear] = op[p].v /\ h.front # (h.rear + 1) % h.size
  BY <1>0, <1>1, <1>3 DEF QueueAt, IsFull, Next1, SegInv, Uses
<1>5. /\ Next1(p, h.rear) = After(h.rear, h.size) /\ After(h.rear, h.size) \in 0 .. h.size - 1
      /\ h.front # After(h.rear, h.size)
  <2>1. (h.rear + 1) % h.size = After(h.rear, h.size) /\ After(h.rear, h.size) \in 0 .. h.size - 1
    <3> HIDE DEF h
    <3> QED BY <1>2, AfterIs
  <2> QED BY <1>1, <1>4, <2>1 DEF Next1
<1> DEFINE a == After(h.rear, h.size)
<1>6. /\ a \in 0 .. h.size - 1 /\ h.front # a /\ Store(p, "rear", a)
      /\ Holds(g, h.front, a, h.size, Item)
      /\ Append(Ring(g, h.front, h.rear, h.size), g[h.rear]) = Ring(g, h.front, a, h.size)
      /\ Len(Ring(g, h.front, h.rear, h.size)) < h.size - 1
  <2> HIDE DEF h, g
  <2>1. a \in 0 .. h.size - 1 /\ h.front # a /\ Store(p, "rear", a)
    BY <1>3, <1>5
  <2>2. Holds(g, h.front, a, h.size, Item)
    BY <1>2, <1>4, RingHolds
  <2>3. Append(Ring(g, h.front, h.rear, h.size), g[h.rear]) = Ring(g, h.front, a, h.size)
    BY <1>2, <2>1, RingPush
  <2>4. Len(Ring(g, h.front, h.rear, h.size)) < h.size - 1
    <3>1. /\ Used(h.front, h.rear, h.size) \in 0 .. h.size - 1
          /\ Len(Ring(g, h.front, h.rear, h.size)) = Used(h.front, h.rear, h.size)
          /\ Used(h.front, h.rear, h.size) # h.size - 1
      BY SMTT(30), <1>2, <2>1, RingSize
    <3> QED BY <1>2, <3>1
  <2> QED BY <2>1, <2>2, <2>3, <2>4
<1> HIDE DEF a
<1>7. /\ QueueInv'
      /\ s # 1 => QCap' = QCap /\ TheQueue' = TheQueue
      /\ s = 1 => /\ QCap' = QCap /\ QCap = h.size - 1
                  /\ TheQueue = Ring(g, h.front, h.rear, h.size)
                  /\ TheQueue' = Ring(g, h.front, a, h.size)
  <2>1. /\ h.size # 0 /\ h.front \in 0 .. h.size - 1 /\ a \in 0 .. h.size - 1
        /\ Store(p, "rear", a) /\ Holds(g, h.front, a, h.size, Item)
        /\ pc[p] # "cleaned" /\ pc'[p] # "cleaned" /\ pc'[p] \in {"leave", "cleaned"}
    BY <1>2, <1>3, <1>6
  <2> QED BY <1>0, <2>1, QueueEnds
<1>8. QUsers' = IF s = 1 THEN [QUsers EXCEPT ![p] = <<"pushed">>] ELSE QUsers
  BY <1>0, <1>3, QUsersReturn
<1>9. CASE s # 1
  BY <1>7, <1>8, <1>9 DEF QueueGoal, QueueTurn
<1>10. CASE s = 1
  <2> HIDE DEF h, g
  <2>1. Len(TheQueue) < QCap /\ TheQueue' = Append(TheQueue, op[p].v)
    BY <1>4, <1>6, <1>7, <1>10
  <2>2. QUsers' = [QUsers EXCEPT ![p] = <<"pushed">>] /\ QCap' = QCap
    BY <1>7, <1>8, <1>10
  <2> QED BY <1>4, <1>7, <2>1, <2>2 DEF QueueGoal, QueueTurn
<1> QED BY <1>9, <1>10

LEMMA QueuePopFront ==
  ASSUME Guarded, SegInv, SegInv', QueueInv, Rooms, kind = "queue", NEW p \in Proc, PopFront(p)
  PROVE  QueueGoal
<1>0. /\ InLock(p) /\ UNCHANGED <<setup, seg, op>> /\ DOMAIN pc = Proc
      /\ \A q \in Proc \ {p} : pc'[q] = pc[q] /\ ret'[q] = ret[q]
      /\ seg[p] \in 1 .. Len(shm) /\ QueueAt(p)
  BY QueueEndView
<1> SUFFICES ASSUME NEW s \in 1 .. Len(shm), s = seg[p] PROVE QueueGoal
  BY <1>0
<1> DEFINE h == shm[s].head
           g == shm[s].nodes
<1>1. m_pHead(p) = h /\ m_Nodes(p) = g
  BY DEF m_pHead, m_Nodes
<1>2. /\ h.size \in Nat \ {0} /\ h.front \in 0 .. h.size - 1 /\ h.rear \in 0 .. h.size - 1
      /\ Holds(g, h.front, h.rear, h.size, Item)
  BY <1>1, QueueEndView
<1>3. /\ pc[p] = "popped" /\ pc'[p] = "leave" /\ op[p].call = "dequeue"
      /\ Store(p, "front", Next1(p, h.front)) /\ Return(p, <<"popped", op[p].v>>)
  BY <1>0, <1>1 DEF PopFront, In, Go
<1>4. g[h.front] = op[p].v /\ h.front # h.rear
  BY <1>0, <1>1, <1>3 DEF QueueAt, IsEmpty
<1>5. Next1(p, h.front) = After(h.front, h.size) /\ After(h.front, h.size) \in 0 .. h.size - 1
  <2>1. (h.front + 1) % h.size = After(h.front, h.size) /\ After(h.front, h.size) \in 0 .. h.size - 1
    <3> HIDE DEF h
    <3> QED BY <1>2, AfterIs
  <2> QED BY <1>1, <2>1 DEF Next1
<1> DEFINE a == After(h.front, h.size)
<1>6. /\ a \in 0 .. h.size - 1 /\ Store(p, "front", a)
      /\ Holds(g, a, h.rear, h.size, Item)
      /\ Tail(Ring(g, h.front, h.rear, h.size)) = Ring(g, a, h.rear, h.size)
      /\ Head(Ring(g, h.front, h.rear, h.size)) = g[h.front]
      /\ Ring(g, h.front, h.rear, h.size) # <<>>
  <2> HIDE DEF h, g
  <2>1. a \in 0 .. h.size - 1 /\ Store(p, "front", a)
    BY <1>3, <1>5
  <2>2. Holds(g, a, h.rear, h.size, Item)
    BY <1>2, <1>4, RingHolds
  <2>3. /\ Tail(Ring(g, h.front, h.rear, h.size)) = Ring(g, a, h.rear, h.size)
        /\ Head(Ring(g, h.front, h.rear, h.size)) = g[h.front]
    BY <1>2, <1>4, RingPop
  <2>4. Ring(g, h.front, h.rear, h.size) # <<>>
    BY <1>2, <1>4, RingSize
  <2> QED BY <2>1, <2>2, <2>3, <2>4
<1> HIDE DEF a
<1>7. /\ QueueInv'
      /\ s # 1 => QCap' = QCap /\ TheQueue' = TheQueue
      /\ s = 1 => /\ QCap' = QCap
                  /\ TheQueue = Ring(g, h.front, h.rear, h.size)
                  /\ TheQueue' = Ring(g, a, h.rear, h.size)
  <2>1. /\ h.size # 0 /\ h.rear \in 0 .. h.size - 1 /\ a \in 0 .. h.size - 1
        /\ Store(p, "front", a) /\ Holds(g, a, h.rear, h.size, Item)
        /\ pc[p] # "cleaned" /\ pc'[p] # "cleaned" /\ pc'[p] \in {"leave", "cleaned"}
    BY <1>2, <1>3, <1>6
  <2> QED BY <1>0, <2>1, QueueEnds
<1>8. QUsers' = IF s = 1 THEN [QUsers EXCEPT ![p] = <<"popped", op[p].v>>] ELSE QUsers
  BY <1>0, <1>3, QUsersReturn
<1>9. CASE s # 1
  BY <1>7, <1>8, <1>9 DEF QueueGoal, QueueTurn
<1>10. CASE s = 1
  <2> HIDE DEF h, g
  <2>1. TheQueue # <<>> /\ TheQueue' = Tail(TheQueue) /\ Head(TheQueue) = op[p].v
    BY <1>4, <1>6, <1>7, <1>10
  <2>2. QUsers' = [QUsers EXCEPT ![p] = <<"popped", Head(TheQueue)>>] /\ QCap' = QCap
    BY <1>7, <1>8, <1>10, <2>1
  <2> QED BY <1>7, <2>1, <2>2 DEF QueueGoal, QueueTurn
<1> QED BY <1>9, <1>10

(* A Clean: with its first store nobody sees an element any more.          *)
LEMMA QueueClean ==
  ASSUME Guarded, SegInv, SegInv', QueueInv, Rooms, kind = "queue", NEW p \in Proc,
         CleanFront(p) \/ CleanRear(p)
  PROVE  QueueGoal
<1>0. /\ InLock(p) /\ UNCHANGED <<setup, seg, op>> /\ DOMAIN pc = Proc
      /\ \A q \in Proc \ {p} : pc'[q] = pc[q] /\ ret'[q] = ret[q]
      /\ seg[p] \in 1 .. Len(shm) /\ QueueAt(p)
  BY QueueEndView
<1> SUFFICES ASSUME NEW s \in 1 .. Len(shm), s = seg[p] PROVE QueueGoal
  BY <1>0
<1> DEFINE h == shm[s].head
           g == shm[s].nodes
<1>1. m_pHead(p) = h /\ m_Nodes(p) = g
  BY DEF m_pHead, m_Nodes
<1>2. /\ h.size \in Nat \ {0} /\ h.front \in 0 .. h.size - 1 /\ h.rear \in 0 .. h.size - 1
      /\ Holds(g, h.front, h.rear, h.size, Item) /\ 0 \in 0 .. h.size - 1
  <2>1. /\ h.size \in Nat \ {0} /\ h.front \in 0 .. h.size - 1 /\ h.rear \in 0 .. h.size - 1
        /\ Holds(g, h.front, h.rear, h.size, Item)
    BY <1>1, QueueEndView
  <2> HIDE DEF h, g
  <2> QED BY <2>1
<1>3. Holds(g, 0, h.rear, h.size, Item) /\ Holds(g, 0, 0, h.size, Item)
  <2> HIDE DEF h, g
  <2> QED BY <1>2, RingHolds
<1>4. CASE CleanFront(p)
  <2>1. /\ pc[p] = "begin" /\ pc'[p] = "cleaned" /\ op[p].call = "clean"
        /\ Store(p, "front", 0) /\ Return(p, <<"cleaned">>) /\ ret'[p] = <<"cleaned">>
    BY <1>0, <1>4 DEF CleanFront, In, Go, Return, SegInv
  <2>2. /\ QueueInv'
        /\ s # 1 => QCap' = QCap /\ TheQueue' = TheQueue
        /\ s = 1 => QCap' = QCap /\ TheQueue' = <<>>
    BY <1>0, <1>2, <1>3, <2>1, QueueEnds
  <2>3. QUsers' = IF s = 1 THEN [QUsers EXCEPT ![p] = <<"cleaned">>] ELSE QUsers
    BY <1>0, <2>1, QUsersReturn
  <2>4. CASE s # 1
    BY <2>2, <2>3, <2>4 DEF QueueGoal, QueueTurn
  <2>5. CASE s = 1
    BY <2>2, <2>3, <2>5 DEF QueueGoal, QueueTurn
  <2> QED BY <2>4, <2>5
<1>5. CASE CleanRear(p)
  <2>1. /\ pc[p] = "cleaned" /\ pc'[p] = "leave" /\ h.front = 0
        /\ Store(p, "rear", 0) /\ UNCHANGED ret
    BY <1>0, <1>1, <1>5 DEF CleanRear, In, Go, QueueAt
  <2>2. /\ QueueInv'
        /\ s # 1 => QCap' = QCap /\ TheQueue' = TheQueue
        /\ s = 1 => QCap' = QCap /\ TheQueue = <<>> /\ TheQueue' = Ring(g, 0, 0, h.size)
    <3>1. Holds(g, 0, 0, h.size, Item) /\ 0 \in 0 .. h.size - 1 /\ h.size # 0
      BY <1>2, <1>3
    <3>2. Store(p, "rear", 0) /\ 0 = h.front /\ pc'[p] \in {"leave", "cleaned"} /\ pc'[p] # "cleaned"
      BY <2>1
    <3> QED
      BY SMTT(30), <1>0, <1>2, <2>1, <3>1, <3>2, QueueEnds
  <2>3. Ring(g, 0, 0, h.size) = <<>>
    <3> HIDE DEF h, g
    <3> QED BY <1>2, RingSize
  <2>4. QUsers' = QUsers
    BY <1>0, <2>1 DEF QUsers, Results, kind
  <2> QED BY <2>2, <2>3, <2>4 DEF QueueGoal, QueueTurn
<1> QED BY <1>4, <1>5

(* A new segment is an empty queue that fits nothing.                      *)
LEMMA QueueMade ==
  ASSUME Guarded, SegInv, SegInv', QueueInv, Rooms, kind = "queue", NEW p \in Proc,
         InitCreate(p) \/ InitLost(p)
  PROVE  QueueGoal
<1>1. /\ \A q \in Proc \ {p} : seg'[q] = seg[q] /\ pc'[q] = pc[q] /\ op'[q] = op[q] /\ ret'[q] = ret[q]
      /\ UNCHANGED <<setup, op, ret>> /\ op[p].call = "init" /\ pc'[p] \in {"made", "leave"}
      /\ pc[p] \in {"begin", "create"}
      /\ shm' = Append(shm, Zeroed(op[p].arg))
      /\ InitCreate(p) => seg'[p] = Len(shm') /\ pc'[p] = "made"
      /\ InitLost(p) => seg' = seg /\ pc'[p] = "leave"
      /\ InLock(p)
  BY DEF InitCreate, InitLost, Creates, In, Go, SegInv, Guarded, ControlInv, Domains, InLock, Between
<1>2. op[p].arg \in 1 .. SizeMax /\ ret[p] = <<>> /\ Len(shm) \in Nat /\ seg[p] \in 0 .. Len(shm)
  BY <1>1 DEF SegInv, Uses, Shape
<1>3. /\ Len(shm') = Len(shm) + 1
      /\ \A s \in 1 .. Len(shm) : shm'[s] = shm[s]
      /\ \A s : s = Len(shm') => shm'[s] = Zeroed(op[p].arg) /\ Room(s)' = op[p].arg
  BY <1>1, <1>2, SegMade DEF SegInv
<1>4. \A f \in {"front", "rear", "size"} : Zeroed(op[p].arg).head[f] = 0
  BY DEF Zeroed, Fields
<1>5. ASSUME NEW s, s = Len(shm') PROVE QueueSeg(s)'
  <2>1. /\ shm'[s].head.size = 0 /\ shm'[s].head.front = 0 /\ shm'[s].head.rear = 0
        /\ Room(s)' \in Nat
    BY <1>2, <1>3, <1>4, <1>5
  <2>2. 0 \in Nat /\ (\A n \in Nat : 0 <= n) /\ ~(0 > 0) /\ 0 .. -1 = {}
    OBVIOUS
  <2> QED BY <2>1, <2>2 DEF QueueSeg
<1>6. QueueAt(p)'
  <2>1. CASE InitCreate(p)
    <3>1. m_pHead(p)'.size = 0
      BY <2>1, <1>1, <1>3, <1>4 DEF m_pHead
    <3> QED BY <2>1, <1>1, <3>1 DEF QueueAt
  <2>2. CASE InitLost(p)
    <3>1. seg[p] # 0 => m_pHead(p)'.size # 0
      <4>1. QueueAt(p)
        BY DEF QueueInv
      <4> QED BY <2>2, <1>1, <1>2, <1>3, <4>1 DEF QueueAt, m_pHead
    <3> QED BY <2>2, <1>1, <3>1 DEF QueueAt
  <2> QED BY <2>1, <2>2
<1>7. QueueInv'
  <2>1. ASSUME NEW s \in 1 .. Len(shm')
        PROVE  \/ s \in 1 .. Len(shm) /\ shm'[s].head = shm[s].head /\ shm'[s].nodes = shm[s].nodes
               \/ QueueSeg(s)'
    BY <1>2, <1>3, <1>5
  <2>2. \A s \in 1 .. Len(shm) : shm[s].head.size # 0 => shm'[s].head.size # 0
    BY <1>3
  <2> QED BY <1>1, <1>6, <2>1, <2>2, QueueKept
<1>8. QUsers' = QUsers
  BY <1>1, <1>2 DEF QUsers, Results, kind, SegInv
<1>9. QCap' = QCap /\ TheQueue' = TheQueue
  <2>1. Cleaning' <=> Cleaning
    BY <1>1, CleaningSame
  <2>2. kind' = "queue" /\ Shape /\ Shape' /\ Len(shm') # 0
    BY <1>1, <1>2, <1>3 DEF kind, SegInv
  <2>3. CASE Len(shm) = 0
    <3>1. shm'[1].head.size = 0
      BY <2>3, <1>3, <1>4
    <3> QED BY <1>7, <2>2, <2>3, <3>1, QueueViews, QueueViewsNext DEF QueueView
  <2>4. CASE Len(shm) # 0
    <3>1. shm'[1] = shm[1]
      BY <2>4, <1>2, <1>3
    <3>2. CASE shm[1].head.size = 0
      BY <1>7, <2>2, <2>4, <3>1, <3>2, QueueViews, QueueViewsNext DEF QueueView
    <3>3. CASE shm[1].head.size # 0
      BY <1>7, <2>1, <2>2, <2>4, <3>1, <3>3, QueueViews, QueueViewsNext DEF QueueView
    <3> QED BY <3>2, <3>3
  <2> QED BY <2>3, <2>4
<1> QED BY <1>7, <1>8, <1>9 DEF QueueGoal, QueueTurn

(* A death takes a result away, and one between the stores of a Clean      *)
(* shows the elements again that are before the rear.                      *)
LEMMA QueueDeath ==
  ASSUME Guarded, SegInv, SegInv', QueueInv, Rooms, kind = "queue", NEW p \in Proc, Exit(p)
  PROVE  QueueGoal
<1>1. /\ \A q \in Proc \ {p} : seg'[q] = seg[q] /\ pc'[q] = pc[q] /\ op'[q] = op[q] /\ ret'[q] = ret[q]
      /\ UNCHANGED setup /\ pc'[p] = "new" /\ ret'[p] = <<>> /\ seg'[p] = 0
      /\ DOMAIN ret' = Proc
  BY DEF Exit, Return, SegInv, Guarded, ControlInv, Domains
<1>2. /\ Len(shm') = Len(shm)
      /\ \A s \in 1 .. Len(shm) : shm'[s].head = shm[s].head /\ shm'[s].nodes = shm[s].nodes
  BY ExitStores DEF SegInv
<1>3. QueueInv'
  <2>1. QueueAt(p)'
    BY <1>1 DEF QueueAt
  <2>2. \A s \in 1 .. Len(shm) : shm[s].head.size # 0 => shm'[s].head.size # 0
    BY <1>2
  <2> QED BY <1>1, <1>2, <2>1, <2>2, QueueKept
<1>4. QUsers' = [QUsers EXCEPT ![p] = <<>>]
  BY <1>1 DEF QUsers, Results, kind
<1>5. CASE ~(pc[p] = "cleaned" /\ seg[p] = 1)
  <2>1. Cleaning' <=> Cleaning
    BY <1>1, <1>5 DEF Cleaning
  <2>2. QCap' = QCap /\ TheQueue' = TheQueue
    BY <1>1, <1>2, <1>3, <2>1, QueueStays
  <2> QED BY <1>3, <1>4, <2>2 DEF QueueGoal, QueueTurn
<1>6. CASE pc[p] = "cleaned" /\ seg[p] = 1
  <2> DEFINE h == shm[1].head
             g == shm[1].nodes
  <2>1. QueueAt(p) /\ 1 \in 1 .. Len(shm) /\ Len(shm) # 0 /\ Shape /\ Shape' /\ kind' = "queue"
    BY <1>1, <1>6 DEF QueueInv, SegInv, Uses, Shape, kind
  <2>2. h.front = 0 /\ ret[p] = <<"cleaned">> /\ h.size # 0
    BY <1>6, <2>1 DEF QueueAt, m_pHead
  <2>3. Cleaning
    BY <1>6 DEF Cleaning
  <2>4. ~Cleaning'
    <3>1. \A q \in Proc \ {p} : pc[q] # "cleaned"
      BY <1>6, Alone DEF InLock, Between
    <3> QED BY <1>1, <3>1 DEF Cleaning
  <2>5. TheQueue = <<>> /\ QCap = h.size - 1
    BY <2>1, <2>2, <2>3, QueueViews DEF QueueView
  <2>6. TheQueue' = Ring(g, 0, h.rear, h.size) /\ QCap' = h.size - 1
    <3>1. Len(shm') # 0 /\ shm'[1].head = h /\ shm'[1].nodes = g
      BY <1>2, <2>1
    <3> QED BY <1>3, <2>1, <2>2, <2>4, <3>1, QueueViewsNext DEF QueueView
  <2>7. /\ h.size \in Nat \ {0} /\ h.rear \in 0 .. h.size - 1
        /\ \A j \in 0 .. h.rear - 1 : g[j] \in Item
    BY <2>1, <2>2 DEF QueueInv, QueueSeg
  <2>8. h.rear \in 0 .. QCap /\ Ring(g, 0, h.rear, h.size) \in [1 .. h.rear -> Item]
    <3> HIDE DEF h, g
    <3>1. Used(0, h.rear, h.size) = h.rear
      BY <2>7 DEF Used
    <3>2. \A i \in 1 .. h.rear : Nth(0, i, h.size) = i - 1 /\ i - 1 \in 0 .. h.rear - 1
      BY <2>7 DEF Nth
    <3>3. h.rear \in 0 .. QCap
      BY <2>5, <2>7
    <3> QED BY <2>7, <3>1, <3>2, <3>3 DEF Ring
  <2>9. QUsers[p] = <<"cleaned">>
    BY <1>6, <2>2 DEF QUsers, Results
  <2> HIDE DEF h, g
  <2>10. \E m \in 0 .. QCap : TheQueue' \in [1 .. m -> Item]
    BY <2>6, <2>8
  <2>11. QCap' = QCap
    BY <2>5, <2>6
  <2> QED BY <1>3, <1>4, <2>5, <2>9, <2>10, <2>11 DEF QueueGoal, QueueTurn
<1> QED BY <1>5, <1>6

LEMMA QueueSteps ==
  ASSUME Guarded, SegInv, SegInv', QueueInv, Rooms, kind = "queue", [Next]_vars, kept'
  PROVE  QueueGoal
<1>d. DOMAIN pc = Proc /\ DOMAIN op = Proc /\ DOMAIN ret = Proc
  BY DEF Guarded, ControlInv, Domains, SegInv
<1>a. ASSUME NEW p \in Proc PROVE QueueAt(p)
  BY DEF QueueInv
<1>1. CASE UNCHANGED vars
  <2>1. QueueInv'
    BY <1>1 DEF vars, QueueInv, kind, QueueSeg, QueueAt, Room, m_pHead, m_Nodes, IsFull, IsEmpty, Next1
  <2>2. QCap' = QCap /\ TheQueue' = TheQueue /\ QUsers' = QUsers
    BY <1>1 DEF vars, QCap, Nodes, TheQueue, Queue, QUsers, Results, kind
  <2> QED BY <2>1, <2>2 DEF QueueGoal, QueueTurn
<1>2. ASSUME NEW p \in Proc,
             \/ SemGet(p) \/ SemInit(p) \/ Acquire(p) \/ QueueCall(p)
             \/ InitRemove(p) \/ InitFail(p) \/ QueueCheck(p)
             \/ \E n \in setup.sizes : InitCall(p, n)
      PROVE  QueueGoal
  <2>1. /\ UNCHANGED <<setup, shm, ret, seg>>
        /\ \A q \in Proc \ {p} : pc'[q] = pc[q] /\ op'[q] = op[q]
        /\ pc'[p] \in {"set", "ready", "begin", "wait", "create", "leave"}
        /\ \/ pc[p] \in {"new", "out", "set", "wait", "ready", "begin", "create"}
           \/ pc[p] = "found" /\ m_pHead(p).size # 0
    BY <1>2, <1>d DEF SemGet, SemInit, Acquire, QueueCall, InitRemove, InitFail, QueueCheck, InitCall,
       Enter, Quiet, In, Go
  <2>2. seg[p] # 0 => m_pHead(p).size # 0
    BY <1>a, <2>1 DEF QueueAt
  <2>3. QueueAt(p)'
    BY <2>1, <2>2 DEF QueueAt, m_pHead
  <2> QED BY <2>1, <2>3, QueueQuiet
<1>3. ASSUME NEW p \in Proc, InitAttach(p) PROVE QueueGoal
  <2>1. /\ UNCHANGED <<setup, shm, ret>> /\ ret[p] = <<>>
        /\ \A q \in Proc \ {p} : seg'[q] = seg[q] /\ pc'[q] = pc[q] /\ op'[q] = op[q]
        /\ pc'[p] = "found" /\ pc[p] = "begin"
    BY <1>3, <1>d DEF InitAttach, In, Go, SegInv, Uses
  <2>2. QueueAt(p)'
    BY <2>1 DEF QueueAt
  <2> QED BY <2>1, <2>2, QueueQuiet
<1>4. ASSUME NEW p \in Proc, PopNode(p) PROVE QueueGoal
  <2>1. /\ UNCHANGED <<setup, shm, ret, seg>>
        /\ \A q \in Proc \ {p} : pc'[q] = pc[q] /\ op'[q] = op[q]
        /\ pc'[p] = "popped" /\ pc[p] = "begin" /\ op'[p].v = m_Nodes(p)[m_pHead(p).front]
        /\ op'[p].call = "dequeue" /\ ~IsEmpty(p)
    BY <1>4, <1>d DEF PopNode, In, Go, Quiet, Guarded, ControlInv, Domains
  <2>2. seg[p] # 0 => m_pHead(p).size # 0
    BY <1>a, <2>1 DEF QueueAt
  <2>3. QueueAt(p)'
    BY <2>1, <2>2 DEF QueueAt, m_pHead, m_Nodes, IsEmpty
  <2> QED BY <2>1, <2>3, QueueQuiet
<1>5. ASSUME NEW p \in Proc, PushFull(p) \/ PopEmpty(p) \/ Ask(p) PROVE QueueGoal
  <2>1. seg[p] # 0 /\ pc[p] = "begin" /\ InLock(p)
    BY <1>5 DEF PushFull, PopEmpty, Ask, In, Go, SegInv, Uses, InLock, Between
  <2>2. PICK r : /\ Return(p, r)
                 /\ \/ IsFull(p) /\ r = <<"full">>
                    \/ IsEmpty(p) /\ r = <<"empty">>
                    \/ r = <<"is", Size(p), IsFull(p), IsEmpty(p)>>
    BY <1>5 DEF PushFull, PopEmpty, Ask
  <2>3. /\ UNCHANGED <<setup, shm, seg>> /\ pc'[p] = "leave"
        /\ \A q \in Proc \ {p} : pc'[q] = pc[q] /\ op'[q] = op[q]
    BY <1>5, <1>d DEF PushFull, PopEmpty, Ask, In, Go, Quiet
  <2>4. m_pHead(p).size # 0
    BY <1>a, <2>1 DEF QueueAt
  <2> QED BY <2>1, <2>2, <2>3, <2>4, QueueResult
<1>6. ASSUME NEW p \in Proc, UnLock(p) PROVE QueueGoal
  <2>1. /\ UNCHANGED <<setup, shm, seg>> /\ pc'[p] = "out" /\ Return(p, <<>>) /\ pc[p] = "leave"
        /\ \A q \in Proc \ {p} : pc'[q] = pc[q] /\ op'[q] = op[q]
    BY <1>6, <1>d DEF UnLock, Go
  <2>2. seg[p] # 0 => m_pHead(p).size # 0
    BY <1>a, <2>1 DEF QueueAt
  <2> QED BY <2>1, <2>2, QueueResult
<1>7. ASSUME NEW p \in Proc, QueueStep(p) PROVE QueueGoal
  BY <1>2, <1>4, <1>5, <1>7, QueueHeadStores, QueuePushNode, QueuePushRear, QueuePopFront,
     QueueClean, QueueDeath DEF QueueStep, QueueAbort
<1> QED
  BY <1>1, <1>2, <1>3, <1>6, <1>7, QueueNext, QueueMade, QueueDeath DEF InitStep, Guarded

(* Segments of another class hold no queue.                                *)
LEMMA NoQueue ==
  ASSUME kind # "queue", UNCHANGED setup
  PROVE  QueueGoal
<1>1. QCap' = QCap /\ TheQueue' = TheQueue /\ QUsers' = QUsers
  BY DEF QCap, Nodes, TheQueue, QUsers, Results, kind
<1>2. QueueInv'
  BY DEF QueueInv, kind
<1> QED BY <1>1, <1>2 DEF QueueGoal, QueueTurn

LEMMA QueueAlways ==
  Spec => [][kept' => QueueTurn]_vars
<1> DEFINE Inv == ControlInv /\ (kept => Guarded /\ SegInv /\ QueueInv)
<1>1. Init => Inv
  BY InitLock, SegStart DEF Guarded, QueueInv, QueueAt, Init
<1>2. Inv /\ [Next]_vars => Inv' /\ (kept' => QueueTurn)
  <2> SUFFICES ASSUME Inv, [Next]_vars PROVE Inv' /\ (kept' => QueueTurn)
    OBVIOUS
  <2>0. ControlInv'
    BY ControlStep
  <2>1. ASSUME kept' PROVE Guarded' /\ SegInv' /\ QueueInv' /\ QueueTurn
    <3>0. Guarded /\ SegInv /\ QueueInv
      BY <2>1, KeptBefore
    <3>1. Guarded' /\ SegInv' /\ Rooms /\ UNCHANGED setup
      BY <2>1, <3>0, GuardedStep, SegStep, Fixed DEF Guarded
    <3>2. QueueGoal
      BY <2>1, <3>0, <3>1, QueueSteps, NoQueue
    <3> QED BY <3>1, <3>2 DEF QueueGoal
  <2> QED BY <2>0, <2>1
<1> QED BY <1>1, <1>2, PTL DEF Spec

(* As long as the lock's rules are kept, and also after deaths in the      *)
(* middle of calls, the processes that use a queue see one bounded FIFO    *)
(* queue on which every call takes effect in one step.                     *)
THEOREM QueueLinearizable == Spec => Linearizable
<1>1. Init => Fifo!Init
  BY DEF Init, Fifo!Init, Nodes, Queue, Results
<1>2. QueueTurn => [Fifo!Next]_(Fifo!vars)
  <2>1. ASSUME NEW m \in 0 .. QCap, TheQueue' \in [1 .. m -> Item]
        PROVE  TheQueue' \in Fifo!BoundedSeq(Item, QCap)
    BY <2>1 DEF Fifo!BoundedSeq, Fifo!SeqOf
  <2> QED BY <2>1 DEF QueueTurn, QCap, TheQueue, QUsers, Fifo!Next, Fifo!vars, Fifo!Make, Fifo!Push,
     Fifo!PushFull, Fifo!Pop, Fifo!PopEmpty, Fifo!Clean, Fifo!Ask, Fifo!Done, Fifo!DieInClean, Fifo!Return
<1>4. [kept' => QueueTurn]_vars => [kept' => [Fifo!Next]_(Fifo!vars)]_vars
  BY <1>2
<1> QED
  BY <1>1, <1>4, QueueAlways, PTL DEF Spec, Linearizable

-----------------------------------------------------------------------------
(* The cells in a segment.  Who is in a cell has it to itself: with one    *)
(* lock for all, because it is in the semaphore's lock; with a lock for    *)
(* some of them, because it has stored its name in the lock of the cell,   *)
(* and no Init touches the locks of an array that has a length.            *)
CellCalls == {"get", "delete", "set"}
HalfSet == {"flagged", "half"}
Half == Item \cup {"zero"}

ArraySeg(s) ==
  /\ shm[s].head.size \in 0 .. Room(s)
  /\ kind = "rwarray" /\ shm[s].head.size # 0 => shm[s].head.locknum = LockNum
  /\ \A i \in 0 .. Room(s) - 1 : shm[s].nodes[i] \in [flag : {0, 1}, data : Half \X Half]

InCell(p) ==
  /\ op[p].call \in CellCalls
  /\ pc[p] \in IF kind = "array" THEN {"begin", "flagged", "half", "gethalf", "leave"}
               ELSE {"rwbegin", "flagged", "half", "gethalf", "rwleave"}

HasSet(p) ==
  /\ op[p].call = "set" /\ pc[p] \in HalfSet \cup {"leave", "rwleave"}
  /\ op[p].arg < m_pHead(p).size /\ Cell(p).flag = 1

Making == {"made", "numbered", "locked"}
Past == {"rwwait", "rwbegin", "rwleave", "gethalf"} \cup HalfSet
ArrayAt(p) ==
  /\ pc[p] \in Making => m_pHead(p).size = 0
  /\ pc[p] \in {"numbered", "locked"} => kind = "rwarray" /\ m_pHead(p).locknum = LockNum
  /\ op[p].call \in CellCalls => op[p].arg \in Index
  /\ pc[p] \in Past => op[p].call \in CellCalls /\ op[p].arg < m_pHead(p).size
  /\ kind = "rwarray" /\ InCell(p) => shm[seg[p]].locks[MyLock(p)] = p
  /\ pc[p] \in HalfSet => ret[p] = <<"set", op[p].arg>>
  /\ pc[p] = "half" => Cell(p).data[1] = op[p].v
  /\ pc[p] = "gethalf" => op[p].call = "get" /\ Cell(p).flag = 1 /\ Cell(p).data[1] = op[p].v
  /\ \A i \in Index : ret[p] = <<"set", i>> => HasSet(p) /\ i = op[p].arg

ArrayInv ==
  IsArray =>
    (\A s \in 1 .. Len(shm) : ArraySeg(s)) /\ (\A p \in Proc : ArrayAt(p))

(* The steps there are for an array.                                       *)
LEMMA ArrayNext ==
  ASSUME ControlInv, IsArray, Next, kept'
  PROVE  \E p \in Proc :
           \/ SemGet(p) \/ SemInit(p) \/ Acquire(p) \/ RWLock(p) \/ InitStep(p) \/ ArrayStep(p)
           \/ ArrayCall(p) \/ Exit(p) \/ \E n \in setup.sizes : InitCall(p, n)
<1>1. ASSUME NEW p \in Proc PROVE op[p].call \in {"none", "init"} \cup ArrayCalls
  BY DEF ControlInv, Control, Calls, IsArray
<1>2. ASSUME NEW p \in Proc, QueueStep(p) PROVE Exit(p)
  BY <1>1, <1>2 DEF QueueStep, QueueHead, QueueCheck, QueueAbort, PushFull, PushNode, PushRear,
     PopEmpty, PopNode, PopFront, CleanFront, CleanRear, Ask, In, ArrayCalls, IsArray
<1>3. ASSUME NEW p \in Proc, StackStep(p) PROVE FALSE
  BY <1>1, <1>3 DEF StackStep, StackHead, StackFound, StackFull, StackNode, StackPushed, StackEmpty,
     StackTop, StackPopped, StackSize, In, ArrayCalls, IsArray
<1>4. ASSUME NEW p \in Proc, QueueCall(p) \/ StackCall(p) PROVE FALSE
  BY <1>4 DEF QueueCall, StackCall, Ready, IsArray
<1>9. ASSUME NEW p \in Proc, Interrupted(p) PROVE FALSE
  BY <1>9 DEF Interrupted
<1> QED BY <1>9, <1>2, <1>3, <1>4 DEF Next, Work, Die

LEMMA ArrayAlone ==
  ASSUME Guarded, SegInv, ArrayInv, IsArray, NEW p \in Proc, NEW q \in Proc,
         InCell(p), InCell(q), seg[p] = seg[q], op[p].arg = op[q].arg
  PROVE  p = q
<1>1. CASE kind = "array"
  <2>1. InLock(p) /\ InLock(q)
    BY <1>1 DEF InCell, InLock, Between
  <2> QED BY <1>1, <2>1, Alone
<1>2. CASE kind = "rwarray"
  BY <1>2 DEF ArrayInv, ArrayAt, MyLock, m_pHead
<1> QED BY <1>1, <1>2 DEF IsArray

Still(p) ==
  \A q \in Proc \ {p} : /\ seg'[q] = seg[q] /\ pc'[q] = pc[q]
                        /\ op'[q] = op[q] /\ ret'[q] = ret[q]

(* What a step of another leaves to q.                                     *)
Undisturbed(q) ==
  /\ \/ shm'[seg[q]].head = shm[seg[q]].head
     \/ m_pHead(q).size = 0 /\ pc[q] \notin Making
  /\ kind = "rwarray" /\ InCell(q) => shm'[seg[q]].locks[MyLock(q)] = q
  /\ InCell(q) /\ op[q].arg < m_pHead(q).size =>
       shm'[seg[q]].nodes[op[q].arg] = shm[seg[q]].nodes[op[q].arg]

LEMMA ArrayOthers ==
  ASSUME Guarded, SegInv, ArrayInv, IsArray, UNCHANGED setup, NEW p \in Proc, Still(p),
         \A q \in Proc \ {p} : seg[q] \in 1 .. Len(shm) => Undisturbed(q)
  PROVE  \A q \in Proc \ {p} : ArrayAt(q)'
<1> SUFFICES ASSUME NEW q \in Proc \ {p} PROVE ArrayAt(q)'
  OBVIOUS
<1>1. seg'[q] = seg[q] /\ pc'[q] = pc[q] /\ op'[q] = op[q] /\ ret'[q] = ret[q] /\ kind' = kind
  BY DEF Still, kind
<1>2. ArrayAt(q) /\ Uses(q) /\ Control(q) /\ Len(shm) \in Nat
  BY DEF ArrayInv, SegInv, Guarded, ControlInv, Shape
<1>3. CASE seg[q] = 0
  <2>1. op[q].call \in {"none", "init"} /\ ret[q] = <<>> /\ pc[q] \notin HeadPcs
    BY <1>2, <1>3 DEF Uses
  <2>2. pc[q] \notin Past
    BY <1>2, <2>1 DEF ArrayAt, CellCalls
  <2> QED BY <1>1, <2>1, <2>2 DEF ArrayAt, InCell, CellCalls, HeadPcs, Making, Past, HalfSet
<1>4. CASE seg[q] # 0
  <2>1. seg[q] \in 1 .. Len(shm) /\ Undisturbed(q)
    BY <1>2, <1>4 DEF Uses
  <2>2. ArraySeg(seg[q])
    BY <2>1 DEF ArrayInv
  <2>3. InCell(q)' <=> InCell(q)
    BY <1>1 DEF InCell
  <2>4. CASE shm'[seg[q]].head = shm[seg[q]].head
    <3>1. m_pHead(q)' = m_pHead(q) /\ MyLock(q)' = MyLock(q)
      BY <1>1, <2>4 DEF m_pHead, MyLock
    <3>2. InCell(q) /\ op[q].arg < m_pHead(q).size => Cell(q)' = Cell(q)
      BY <1>1, <2>1, <2>4 DEF Undisturbed, Cell, m_Nodes
    <3>3. pc[q] \in HalfSet \cup {"gethalf"} => InCell(q) /\ op[q].arg < m_pHead(q).size
      BY <1>2 DEF ArrayAt, Past, InCell, IsArray, HalfSet
    <3>4. ASSUME NEW i \in Index, ret[q] = <<"set", i>>
          PROVE  HasSet(q)' /\ i = op'[q].arg
      <4>1. HasSet(q) /\ i = op[q].arg
        BY <1>2, <3>4 DEF ArrayAt
      <4>2. InCell(q)
        BY <1>2, <4>1 DEF HasSet, InCell, IsArray, CellCalls, HalfSet, Control
      <4> QED BY <1>1, <4>1, <4>2, <3>1, <3>2 DEF HasSet
    <3>5. kind = "rwarray" /\ InCell(q) => (shm[seg[q]].locks[MyLock(q)] = q)'
      BY <1>1, <2>1, <3>1 DEF Undisturbed
    <3> QED BY <1>1, <1>2, <2>3, <3>1, <3>2, <3>3, <3>4, <3>5 DEF ArrayAt, HalfSet
  <2>5. CASE m_pHead(q).size = 0 /\ pc[q] \notin Making
    <3>1. pc[q] \notin Past /\ ~HasSet(q)
      BY <1>2, <2>5 DEF ArrayAt, HasSet, Uses
    <3>2. kind = "rwarray" => ~InCell(q)
      BY <3>1 DEF InCell, Past, HalfSet
    <3>3. \A i \in Index : ret[q] # <<"set", i>>
      BY <1>2, <3>1 DEF ArrayAt
    <3> QED BY <1>1, <1>2, <2>3, <2>5, <3>1, <3>2, <3>3 DEF ArrayAt, Past, HalfSet, Making
  <2> QED BY <2>1, <2>4, <2>5 DEF Undisturbed
<1> QED BY <1>3, <1>4

(* ArrayInv after a step of p.                                             *)
LEMMA ArrayKept ==
  ASSUME Guarded, SegInv, ArrayInv, Rooms, IsArray, UNCHANGED setup, NEW p \in Proc, Still(p),
         \A q \in Proc \ {p} : seg[q] \in 1 .. Len(shm) => Undisturbed(q),
         \A s \in 1 .. Len(shm') :
           \/ s \in 1 .. Len(shm) /\ shm'[s].head = shm[s].head /\ shm'[s].nodes = shm[s].nodes
           \/ ArraySeg(s)',
         ArrayAt(p)'
  PROVE  ArrayInv'
<1>1. \A q \in Proc : ArrayAt(q)'
  BY ArrayOthers
<1>2. ASSUME NEW s \in 1 .. Len(shm') PROVE ArraySeg(s)'
  <2>1. CASE s \in 1 .. Len(shm) /\ shm'[s].head = shm[s].head /\ shm'[s].nodes = shm[s].nodes
    <3>1. ArraySeg(s) /\ Room(s)' = Room(s) /\ kind' = kind
      BY <2>1 DEF ArrayInv, Rooms, kind
    <3> QED BY <2>1, <3>1 DEF ArraySeg
  <2> QED BY <2>1
<1> QED BY <1>1, <1>2 DEF ArrayInv

(* A process that is in no call of the array.                              *)
LEMMA ArrayIdle ==
  ASSUME SegInv', NEW p \in Proc, op'[p].call \in {"none", "init"}, pc'[p] \notin Making \cup Past
  PROVE  ArrayAt(p)'
<1>1. ret'[p] = <<>>
  BY DEF SegInv, Uses
<1> QED BY <1>1 DEF ArrayAt, InCell, CellCalls, Past, Making, HalfSet

(* The steps that leave the segments as they are.                          *)
LEMMA ArrayReads ==
  ASSUME Guarded, SegInv, SegInv', ArrayInv, Rooms, IsArray, NEW p \in Proc, Still(p),
         UNCHANGED <<setup, shm>>, ArrayAt(p)'
  PROVE  ArrayInv'
<1>1. ASSUME NEW q \in Proc \ {p}, seg[q] \in 1 .. Len(shm) PROVE Undisturbed(q)
  BY <1>1 DEF Undisturbed, ArrayInv, ArrayAt
<1> QED BY <1>1, ArrayKept

Reads(p) ==
  \/ SemGet(p) \/ SemInit(p) \/ Acquire(p) \/ ArrayCall(p) \/ InitAttach(p) \/ InitRemove(p)
  \/ InitFail(p) \/ UnLock(p) \/ ArrayFound(p) \/ RWFound(p) \/ Overflow(p) \/ Length(p)
  \/ RWIndex(p) \/ GetUnset(p) \/ GetData(p) \/ (RWReturn(p) /\ UNCHANGED shm)
  \/ \E n \in setup.sizes : InitCall(p, n)

LEMMA ArrayReadsInv ==
  ASSUME Guarded, Guarded', SegInv, SegInv', ArrayInv, Rooms, IsArray, NEW p \in Proc, Reads(p)
  PROVE  ArrayInv' /\ Still(p)
<1>d. /\ DOMAIN pc = Proc /\ DOMAIN op = Proc /\ DOMAIN seg = Proc /\ DOMAIN ret = Proc
      /\ DOMAIN op[p] = {"call", "arg", "v"}
  BY DEF Guarded, ControlInv, Domains, SegInv
<1>s. Still(p) /\ UNCHANGED <<setup, shm>>
  BY <1>d DEF Reads, Still, SemGet, SemInit, Acquire, ArrayCall, InitAttach, InitRemove, InitFail, UnLock,
     ArrayFound, RWFound, Overflow, Length, RWIndex, GetUnset, GetData, RWReturn, InitCall,
     Enter, Quiet, In, Go, Return
<1>k. kind' = kind /\ ArrayAt(p) /\ Uses(p) /\ Control(p) /\ Uses(p)' /\ Control(p)'
  BY <1>s DEF kind, ArrayInv, SegInv, Guarded, ControlInv
<1>1. CASE \/ SemGet(p) \/ SemInit(p) \/ InitAttach(p) \/ InitRemove(p) \/ InitFail(p)
           \/ UnLock(p) \/ ArrayFound(p) \/ (RWReturn(p) /\ UNCHANGED shm)
           \/ \E n \in setup.sizes : InitCall(p, n)
  <2>1. op'[p].call \in {"none", "init"}
    <3>1. CASE SemGet(p) \/ SemInit(p) \/ InitAttach(p) \/ InitRemove(p) \/ InitFail(p) \/ ArrayFound(p)
      BY <3>1, <1>k DEF SemGet, SemInit, InitAttach, InitRemove, InitFail, ArrayFound, In, Go, Control, Quiet
    <3>2. CASE UnLock(p) \/ RWReturn(p)
      BY <3>2, <1>d, Records DEF UnLock, RWReturn, NoCall
    <3>3. ASSUME NEW n \in setup.sizes, InitCall(p, n) PROVE op'[p].call = "init"
      BY <3>3, <1>d, Records DEF InitCall, Enter
    <3> QED BY <1>1, <3>1, <3>2, <3>3
  <2>2. pc'[p] \notin Making \cup Past
    BY <1>1, <1>d DEF SemGet, SemInit, InitAttach, InitRemove, InitFail, UnLock, ArrayFound, RWReturn,
       InitCall, Enter, In, Go, Making, Past, HalfSet
  <2> QED BY <2>1, <2>2, <1>s, ArrayIdle, ArrayReads
<1>2. CASE RWFound(p)
  <2>1. /\ pc[p] = "found" /\ op' = op /\ seg' = seg /\ ret' = ret /\ op[p].call = "init"
        /\ pc'[p] \in {"leave", "made"} /\ (pc'[p] = "made" => m_pHead(p).locknum # LockNum)
        /\ kind = "rwarray" /\ m_pHead(p)' = m_pHead(p) /\ ret[p] = <<>>
    BY <1>2, <1>d, <1>s, <1>k DEF RWFound, In, Go, Quiet, m_pHead, Uses
  <2>2. seg[p] \in 1 .. Len(shm)
    BY <1>k, <2>1 DEF Uses, HeadPcs, SegInv, Shape
  <2>3. m_pHead(p).locknum # LockNum => m_pHead(p).size = 0
    BY <2>1, <2>2 DEF ArrayInv, ArraySeg, m_pHead
  <2>4. ArrayAt(p)'
    BY <2>1, <2>3 DEF ArrayAt, InCell, CellCalls, Making, Past, HalfSet
  <2> QED BY <2>4, <1>s, ArrayReads
<1>3. CASE Acquire(p)
  <2>1. pc'[p] = "begin" /\ UNCHANGED <<op, ret, seg>> /\ pc[p] = "wait"
    BY <1>3, <1>d DEF Acquire, Go
  <2>2. ~InCell(p)' \/ kind = "array"
    BY <2>1, <1>k DEF InCell
  <2>3. \A i \in Index : ret[p] # <<"set", i>>
    BY <1>k, <2>1 DEF ArrayAt, HasSet, HalfSet
  <2>4. ArrayAt(p)'
    BY <2>1, <2>2, <2>3, <1>k DEF ArrayAt, Making, Past, HalfSet
  <2> QED BY <2>4, <1>s, ArrayReads
<1>4. CASE ArrayCall(p)
  <2>1. /\ pc'[p] \in {"wait", "length"} /\ ret'[p] = <<>>
        /\ op'[p].call \in CellCalls => op'[p].arg \in Index
    <3>1. pc[p] = "out" /\ UNCHANGED ret /\ pc'[p] \in {"wait", "length"}
      BY <1>4, <1>d DEF ArrayCall, Enter, Go
    <3>2. PICK to, call : Enter(p, "out", to, call) /\ (call.call \in CellCalls => call.arg \in Index)
      BY <1>4, Records DEF ArrayCall, CellCalls
    <3> QED BY <3>1, <3>2, <1>d, <1>k DEF Enter, Uses, Control
  <2>2. ArrayAt(p)'
    BY <2>1 DEF ArrayAt, InCell, Making, Past, HalfSet
  <2> QED BY <2>2, <1>s, ArrayReads
<1>5. CASE Overflow(p) \/ Length(p)
  <2>1. /\ pc'[p] \in {"leave", "rwreturn"} /\ UNCHANGED <<op, seg>>
        /\ kind = "rwarray" => pc'[p] = "rwreturn"
        /\ \A i \in Index : ret'[p] # <<"set", i>>
    <3>1. PICK r : Return(p, r) /\ \A i \in Index : r # <<"set", i>>
      BY <1>5 DEF Overflow, Length
    <3> QED BY <1>5, <1>d, <3>1 DEF Overflow, Length, In, Go, Last, Return, Quiet, IsArray
  <2>2. ArrayAt(p)'
    BY <2>1, <1>k DEF ArrayAt, InCell, Making, Past, HalfSet
  <2> QED BY <2>2, <1>s, ArrayReads
<1>6. CASE RWIndex(p)
  <2>1. /\ pc'[p] = "rwwait" /\ pc[p] = "length" /\ UNCHANGED <<op, seg, ret>> /\ op[p].arg < m_pHead(p).size
        /\ m_pHead(p)' = m_pHead(p) /\ op[p].call # "length" /\ kind = "rwarray"
    BY <1>6, <1>d, <1>s DEF RWIndex, Go, Quiet, m_pHead
  <2>2. op[p].call \in CellCalls
    BY <2>1, <1>k DEF Control, Calls, ArrayCalls, CellCalls
  <2>3. \A i \in Index : ret[p] # <<"set", i>>
    BY <1>k, <2>1 DEF ArrayAt, HasSet, HalfSet
  <2>4. ArrayAt(p)'
    BY <2>1, <2>2, <2>3, <1>k DEF ArrayAt, InCell, Making, Past, HalfSet
  <2> QED BY <2>4, <1>s, ArrayReads
<1>7. CASE GetUnset(p) \/ GetData(p)
  <2>g. /\ op[p].call = "get" /\ UNCHANGED <<seg, shm>> /\ op'[p].call = "get" /\ op'[p].arg = op[p].arg
    BY <1>7, <1>d, <1>s DEF GetUnset, GetData, In, Go, Quiet
  <2>h. /\ pc[p] \in {Begin, "gethalf"} /\ pc'[p] \in {"gethalf", Leave}
        /\ pc[p] = "gethalf" \/ Inside(p)
    BY <1>7, <1>d DEF GetUnset, GetData, In, Go
  <2>i. pc'[p] = "gethalf" => op'[p].v = Cell(p).data[1] /\ Cell(p).flag = 1
    BY <1>7, <1>d DEF GetUnset, GetData, In, Go, Leave
  <2>1. /\ op[p].call = "get" /\ UNCHANGED seg /\ op'[p].call = "get" /\ op'[p].arg = op[p].arg
        /\ pc[p] \in {Begin, "gethalf"} /\ pc'[p] \in {"gethalf", Leave}
        /\ m_pHead(p)' = m_pHead(p)
    BY <2>g, <2>h DEF m_pHead
  <2>2. \A i \in Index : ret'[p] # <<"set", i>>
    <3>1. \A i \in Index : ret[p] # <<"set", i>>
      BY <1>k, <2>1 DEF ArrayAt, HasSet
    <3>2. UNCHANGED ret \/ \E r : Return(p, r) /\ \A i \in Index : r # <<"set", i>>
      BY <1>7 DEF GetUnset, GetData
    <3> QED BY <3>1, <3>2, <1>d DEF Return
  <2>3. InCell(p) /\ op[p].arg < m_pHead(p).size
    <3>1. InCell(p)
      BY <2>1 DEF InCell, Begin, CellCalls, IsArray
    <3>2. CASE pc[p] = "gethalf" \/ kind = "rwarray"
      <4>1. pc[p] \in Past
        BY <2>1, <3>2 DEF Past, Begin
      <4> QED BY <3>1, <4>1, <1>k DEF ArrayAt
    <3>3. CASE kind = "array" /\ Inside(p)
      BY <3>1, <3>3 DEF Inside
    <3> QED BY <2>h, <3>2, <3>3 DEF IsArray
  <2>4. Cell(p)' = Cell(p) /\ MyLock(p)' = MyLock(p) /\ m_pHead(p)' = m_pHead(p)
    BY <2>1, <1>s DEF Cell, m_Nodes, MyLock, m_pHead
  <2>5. ArrayAt(p)'
    <3>1. op[p].arg \in Index /\ (kind = "rwarray" => shm[seg[p]].locks[MyLock(p)] = p)
      BY <1>k, <2>1, <2>3 DEF ArrayAt, CellCalls
    <3>2. (kind = "rwarray" => shm[seg[p]].locks[MyLock(p)] = p)'
      BY <3>1, <2>1, <2>4, <1>s, <1>k
    <3>3. /\ pc'[p] \notin Making \cup HalfSet
          /\ op'[p].call \in CellCalls /\ op'[p].arg \in Index /\ op'[p].arg < m_pHead(p)'.size
      BY <2>1, <2>3, <2>4, <3>1 DEF Leave, Making, HalfSet, CellCalls, IsArray
    <3> QED BY <2>1, <2>i, <2>2, <2>4, <3>2, <3>3 DEF ArrayAt, HalfSet, Making
  <2> QED BY <2>5, <1>s, ArrayReads
<1> QED BY <1>1, <1>2, <1>3, <1>4, <1>5, <1>6, <1>7, <1>s DEF Reads

(* The stores of Init, to an array that has no length.                     *)
LEMMA InitAlone ==
  ASSUME Guarded, NEW p \in Proc, NEW q \in Proc, InLock(p), InLock(q),
         op[p].call = "init", op[q].call = "init"
  PROVE  p = q
<1>1. Place(p) = "in" /\ Place(q) = "in"
  BY Places DEF PlaceIs, InLock
<1>2. p \in Sem!Inside /\ q \in Sem!Inside
  BY <1>1 DEF Sem!Inside
<1> QED BY <1>2 DEF Guarded, Sem!LockInv, Sem!OneInside

LEMMA ArrayInit ==
  ASSUME Guarded, SegInv, ArrayInv, IsArray, NEW p \in Proc, pc[p] \in Making,
         Len(shm') = Len(shm), \A s \in 1 .. Len(shm) : s # seg[p] => shm'[s] = shm[s]
  PROVE  /\ seg[p] \in 1 .. Len(shm) /\ m_pHead(p).size = 0 /\ op[p].call = "init"
         /\ \A q \in Proc \ {p} : seg[q] \in 1 .. Len(shm) => Undisturbed(q)
<1>1. seg[p] \in 1 .. Len(shm) /\ m_pHead(p).size = 0 /\ op[p].call = "init" /\ InLock(p)
  BY DEF SegInv, Uses, Shape, HeadPcs, Making, ArrayInv, ArrayAt, InLock, Between
<1>2. ASSUME NEW q \in Proc \ {p}, seg[q] \in 1 .. Len(shm) PROVE Undisturbed(q)
  <2>1. ArrayAt(q) /\ Uses(q)
    BY DEF ArrayInv, SegInv
  <2>2. CASE seg[q] # seg[p]
    BY <1>2, <2>1, <2>2 DEF Undisturbed, ArrayAt
  <2>3. CASE seg[q] = seg[p]
    <3>1. m_pHead(q).size = 0
      BY <1>1, <2>3 DEF m_pHead
    <3>2. pc[q] \notin Making
      <4>1. pc[q] \in Making => op[q].call = "init" /\ InLock(q)
        BY <2>1 DEF Uses, Making, HeadPcs, InLock, Between
      <4> QED BY <4>1, <1>1, InitAlone
    <3>3. pc[q] \notin Past /\ ~(op[q].arg < m_pHead(q).size)
      BY <2>1, <3>1 DEF ArrayAt, Uses
    <3>4. kind = "rwarray" => ~InCell(q)
      BY <3>3 DEF InCell, Past, HalfSet
    <3> QED BY <3>1, <3>2, <3>3, <3>4 DEF Undisturbed
  <2> QED BY <2>2, <2>3
<1> QED BY <1>1, <1>2

LEMMA ArrayHeadInv ==
  ASSUME Guarded, SegInv, SegInv', ArrayInv, Rooms, IsArray, NEW p \in Proc,
         ArrayHead(p) \/ RWHead(p) \/ RWLocks(p)
  PROVE  /\ ArrayInv' /\ Still(p) /\ pc[p] \in Making
         /\ UNCHANGED <<setup, seg, op, ret>> /\ Len(shm') = Len(shm)
         /\ \A s \in 1 .. Len(shm) : s # seg[p] => shm'[s] = shm[s]
         /\ shm'[seg[p]].nodes = shm[seg[p]].nodes
         /\ shm'[seg[p]].head.size \in {0, op[p].arg}
<1>d. DOMAIN pc = Proc /\ DOMAIN op = Proc
  BY DEF Guarded, ControlInv, Domains
<1>1. /\ Still(p) /\ UNCHANGED <<setup, seg, op, ret>> /\ pc[p] \in Making /\ Quiet
      /\ pc'[p] \in {"numbered", "locked", "leave"}
  BY <1>d DEF ArrayHead, RWHead, RWLocks, InitStore, In, Go, Quiet, Still, Making
<1>u. Uses(p) /\ ArrayAt(p) /\ kind' = kind /\ seg[p] \in 1 .. Len(shm)
  BY <1>1 DEF SegInv, ArrayInv, Uses, HeadPcs, Making, kind, Shape
<1>2. /\ Len(shm') = Len(shm)
      /\ \A s \in 1 .. Len(shm) : s # seg[p] => shm'[s] = shm[s]
      /\ shm'[seg[p]].nodes = shm[seg[p]].nodes
      /\ \/ RWLocks(p) /\ shm'[seg[p]].head = shm[seg[p]].head
         \/ ArrayHead(p) /\ shm'[seg[p]].head.size = op[p].arg
         \/ /\ RWHead(p) /\ pc[p] = "made" /\ pc'[p] = "numbered"
            /\ shm'[seg[p]].head.locknum = LockNum
            /\ shm'[seg[p]].head.size = shm[seg[p]].head.size
         \/ /\ RWHead(p) /\ pc[p] = "locked" /\ pc'[p] = "leave"
            /\ shm'[seg[p]].head.locknum = shm[seg[p]].head.locknum
            /\ shm'[seg[p]].head.size = op[p].arg
  <2>h. DOMAIN shm[seg[p]].head = IF kind = "array" THEN {"size"} ELSE {"locknum", "size"}
    <3>1. DOMAIN shm[seg[p]].head = Fields[kind]
      BY <1>u DEF SegInv, Shape, SegShape
    <3>2. CASE kind = "array"
      BY <3>1, <3>2 DEF Fields
    <3>3. CASE kind = "rwarray"
      BY <3>1, <3>3 DEF Fields
    <3> QED BY <3>2, <3>3 DEF IsArray
  <2>1. CASE RWLocks(p)
    <3> DEFINE g == [l \in DOMAIN shm[seg[p]].locks |-> "free"]
    <3>1. DOMAIN g = DOMAIN shm[seg[p]].locks /\ shm' = [shm EXCEPT ![seg[p]].locks = g]
      BY <2>1, <1>u DEF RWLocks, SegInv, Shape, SegShape
    <3> HIDE DEF g
    <3> QED BY <2>1, <3>1, <1>1, <1>u, LockStores DEF SegInv
  <2>2. CASE ArrayHead(p)
    <3>1. Store(p, "size", op[p].arg) /\ kind = "array"
      BY <2>2 DEF ArrayHead, InitStore
    <3> QED BY <2>2, <3>1, <2>h, <1>1, <1>u, HeadStores DEF SegInv
  <2>3. CASE RWHead(p)
    <3>k. kind = "rwarray"
      BY <2>3 DEF RWHead
    <3>1. CASE pc[p] = "made"
      <4>1. Store(p, "locknum", LockNum) /\ pc'[p] = "numbered"
        BY <2>3, <3>1, <1>d DEF RWHead, InitStore, In, Go
      <4> QED BY <2>3, <3>1, <3>k, <4>1, <2>h, <1>1, <1>u, HeadStores DEF SegInv
    <3>2. CASE pc[p] # "made"
      <4>1. Store(p, "size", op[p].arg) /\ pc[p] = "locked" /\ pc'[p] = "leave"
        BY <2>3, <3>2, <1>d DEF RWHead, InitStore, In, Go
      <4> QED BY <2>3, <3>k, <4>1, <2>h, <1>1, <1>u, HeadStores DEF SegInv
    <3> QED BY <3>1, <3>2
  <2> QED BY <2>1, <2>2, <2>3
<1>3. /\ m_pHead(p).size = 0 /\ op[p].call = "init"
      /\ \A q \in Proc \ {p} : seg[q] \in 1 .. Len(shm) => Undisturbed(q)
  BY <1>1, <1>2, ArrayInit
<1>4. ArraySeg(seg[p])'
  <2> DEFINE s == seg[p]
  <2>1. PICK t : t = s
    OBVIOUS
  <2>2. t \in 1 .. Len(shm) /\ ArraySeg(t) /\ Room(t)' = Room(t) /\ t = seg'[p]
    BY <2>1, <1>u, <1>1 DEF ArrayInv, Rooms
  <2>3. op[p].arg \in 0 .. Room(t) /\ Room(t) \in Nat
    <3>1. op[p].arg <= Room(seg[p]) /\ op[p].arg \in Nat
      BY <1>u, <1>1 DEF Uses, HeadPcs, Making
    <3>2. Room(t) \in 1 .. SizeMax
      BY <2>2 DEF SegInv, Shape, SegShape
    <3> QED BY <3>1, <3>2, <2>1
  <2>4. shm[t].head.size = 0 /\ shm'[t].nodes = shm[t].nodes
    BY <2>1, <1>2, <1>3 DEF m_pHead
  <2>5. shm'[t].head.size \in 0 .. Room(t)
    BY <1>2, <2>1, <2>3, <2>4
  <2>6. kind = "rwarray" /\ shm'[t].head.size # 0 => shm'[t].head.locknum = LockNum
    <3>1. pc[p] = "locked" => shm[t].head.locknum = LockNum
      BY <2>1, <1>u DEF ArrayAt, m_pHead
    <3>2. ArrayHead(p) => kind = "array"
      BY DEF ArrayHead
    <3> QED BY <1>2, <2>1, <2>4, <3>1, <3>2
  <2>7. ArraySeg(t)'
    BY <2>2, <2>4, <2>5, <2>6, <1>u DEF ArraySeg
  <2> QED BY <2>2, <2>7
<1>5. ArrayAt(p)'
  <2>0. m_pHead(p)' = shm'[seg[p]].head
    BY <1>1 DEF m_pHead
  <2>1. pc'[p] \in Making => m_pHead(p)'.size = 0
    <3>1. ArrayHead(p) => pc'[p] = "leave"
      BY <1>d DEF ArrayHead, InitStore, In, Go
    <3> QED BY <1>2, <1>3, <2>0, <3>1 DEF m_pHead, Making
  <2>2. pc'[p] \in {"numbered", "locked"} => kind = "rwarray" /\ m_pHead(p)'.locknum = LockNum
    <3>1. ArrayHead(p) => pc'[p] = "leave"
      BY <1>d DEF ArrayHead, InitStore, In, Go
    <3>2. RWLocks(p) \/ RWHead(p) => kind = "rwarray"
      BY DEF RWLocks, RWHead
    <3>3. RWLocks(p) => m_pHead(p).locknum = LockNum
      BY <1>u, <1>d DEF RWLocks, In, Go, ArrayAt
    <3> QED BY <1>2, <1>3, <2>0, <3>1, <3>2, <3>3 DEF m_pHead
  <2>3. ret'[p] = <<>> /\ op'[p].call = "init" /\ pc'[p] \notin Past
    BY <1>1, <1>3, <1>u DEF Uses, Past, HalfSet
  <2> QED BY <2>1, <2>2, <2>3, <1>u DEF ArrayAt, InCell, CellCalls, Past, HalfSet
<1>6. \A s \in 1 .. Len(shm') :
           \/ s \in 1 .. Len(shm) /\ shm'[s].head = shm[s].head /\ shm'[s].nodes = shm[s].nodes
           \/ ArraySeg(s)'
  <2> SUFFICES ASSUME NEW s \in 1 .. Len(shm'), s = seg[p] PROVE ArraySeg(s)'
    BY <1>2
  <2>1. s = seg'[p]
    BY <1>1
  <2> QED BY <1>4, <2>1
<1>7. ArrayInv'
  BY <1>1, <1>3, <1>5, <1>6, ArrayKept
<1> QED BY <1>1, <1>2, <1>3, <1>7 DEF m_pHead

(* The read-write locks, which are nobody's place but the holder's.        *)
LEMMA ArrayLockInv ==
  ASSUME Guarded, Guarded', SegInv, SegInv', ArrayInv, Rooms, IsArray, NEW p \in Proc,
         RWLock(p) \/ (RWReturn(p) /\ pc[p] = "rwleave")
  PROVE  /\ ArrayInv' /\ Still(p) /\ UNCHANGED <<setup, seg>> /\ Len(shm') = Len(shm)
         /\ \A s \in 1 .. Len(shm) : shm'[s].head = shm[s].head /\ shm'[s].nodes = shm[s].nodes
<1>d. DOMAIN pc = Proc /\ DOMAIN op = Proc /\ DOMAIN ret = Proc
  BY DEF Guarded, ControlInv, Domains, SegInv
<1>1. /\ Still(p) /\ UNCHANGED <<setup, seg>> /\ Quiet /\ kind' = kind
      /\ pc[p] \in {"rwwait", "rwleave"}
  BY <1>d DEF RWLock, RWReturn, Go, Quiet, Still, kind, Return
<1>u. Uses(p) /\ ArrayAt(p) /\ Control(p) /\ Uses(p)'
  BY DEF SegInv, ArrayInv, Guarded, ControlInv
<1>2. /\ kind = "rwarray" /\ seg[p] \in 1 .. Len(shm) /\ op[p].call \in CellCalls
      /\ op[p].arg < m_pHead(p).size
  BY <1>u, <1>1 DEF Uses, ArrayAt, Control, CellCalls, SegInv, Shape, Past
<1> DEFINE m == MyLock(p)
<1>3. PICK x : /\ SetLock(p, x)
                 /\ \/ RWLock(p) /\ x = p /\ shm[seg[p]].locks[m] = "free"
                    \/ RWReturn(p) /\ pc[p] = "rwleave" /\ shm[seg[p]].locks[m] = p
  <2>1. pc[p] = "rwleave" => shm[seg[p]].locks[m] = p
    BY <1>u, <1>2 DEF ArrayAt, InCell
  <2>2. RWReturn(p) /\ pc[p] = "rwleave" => SetLock(p, "free")
    BY DEF RWReturn, Go
  <2> QED BY <2>1, <2>2 DEF RWLock
<1> HIDE DEF m
<1>4. m \in DOMAIN shm[seg[p]].locks
  <2>1. m_pHead(p).locknum = LockNum
    BY <1>2, <1>u DEF ArrayInv, ArraySeg, m_pHead, Uses
  <2>2. m \in 0 .. LockNum - 1
    <3>1. op[p].arg \in Nat
      BY <1>u DEF Uses
    <3> QED BY <2>1, <3>1, SegmentAssumption DEF m, MyLock
  <2> QED BY <1>2, <2>2 DEF SegInv, Shape, SegShape
<1> DEFINE g == [shm[seg[p]].locks EXCEPT ![m] = x]
<1>5. DOMAIN g = DOMAIN shm[seg[p]].locks /\ shm' = [shm EXCEPT ![seg[p]].locks = g]
  BY <1>2, <1>3 DEF SetLock, SegInv, Shape, SegShape, m
<1>6. g[m] = x /\ \A l \in DOMAIN shm[seg[p]].locks \ {m} : g[l] = shm[seg[p]].locks[l]
  BY <1>4
<1> HIDE DEF g
<1>7. /\ Len(shm') = Len(shm)
      /\ \A s \in 1 .. Len(shm) : s # seg[p] => shm'[s] = shm[s]
      /\ shm'[seg[p]].head = shm[seg[p]].head /\ shm'[seg[p]].nodes = shm[seg[p]].nodes
      /\ shm'[seg[p]].locks = g
  BY <1>1, <1>2, <1>5, LockStores DEF SegInv
<1>8. \A s \in 1 .. Len(shm) : shm'[s].head = shm[s].head /\ shm'[s].nodes = shm[s].nodes
  BY <1>7
<1>9. ASSUME NEW q \in Proc \ {p}, seg[q] \in 1 .. Len(shm) PROVE Undisturbed(q)
  <2>1. ASSUME kind = "rwarray", InCell(q) PROVE shm'[seg[q]].locks[MyLock(q)] = q
    <3>1. shm[seg[q]].locks[MyLock(q)] = q
      BY <2>1 DEF ArrayInv, ArrayAt
    <3>2. CASE seg[q] = seg[p]
      <4>1. MyLock(q) # m
        BY <3>1, <3>2, <1>3, LockAssumption
      <4>2. MyLock(q) \in DOMAIN shm[seg[p]].locks
        <5>1. op[q].arg < m_pHead(q).size /\ op[q].arg \in Nat
          BY <2>1 DEF ArrayInv, ArrayAt, InCell, Past, HalfSet, SegInv, Uses
        <5>2. m_pHead(q).locknum = LockNum
          BY <2>1, <5>1, <1>9 DEF ArrayInv, ArraySeg, m_pHead
        <5>3. MyLock(q) \in 0 .. LockNum - 1
          BY <5>1, <5>2, SegmentAssumption DEF MyLock
        <5> QED BY <1>2, <5>3 DEF SegInv, Shape, SegShape
      <4> QED BY <1>6, <1>7, <3>1, <3>2, <4>1, <4>2
    <3>3. CASE seg[q] # seg[p]
      BY <1>7, <1>9, <3>1, <3>3
    <3> QED BY <3>2, <3>3
  <2> QED BY <1>8, <1>9, <2>1 DEF Undisturbed
<1>10. ArrayAt(p)'
  <2>1. CASE RWLock(p)
    <3>1. /\ pc'[p] = "rwbegin" /\ UNCHANGED <<op, ret>> /\ pc[p] = "rwwait" /\ x = p
      BY <2>1, <1>d, <1>3, <1>1 DEF RWLock, Go, RWReturn
    <3>2. m_pHead(p)' = m_pHead(p) /\ MyLock(p)' = m
      BY <3>1, <1>1, <1>7 DEF m_pHead, MyLock, m
    <3>3. \A i \in Index : ret[p] # <<"set", i>>
      BY <1>u, <3>1 DEF ArrayAt, HasSet, HalfSet
    <3>4. (shm[seg[p]].locks[MyLock(p)] = p)'
      BY <1>1, <1>6, <1>7, <3>1, <3>2
    <3>5. op[p].arg \in Index
      BY <1>u, <1>2 DEF ArrayAt
    <3> QED BY <3>1, <3>2, <3>3, <3>4, <3>5, <1>2 DEF ArrayAt, Making, HalfSet
  <2>2. CASE RWReturn(p)
    <3>1. op'[p].call = "none" /\ pc'[p] = "out"
      BY <2>2, <1>d, Records DEF RWReturn, NoCall, Go
    <3> QED BY <3>1, ArrayIdle DEF Making, Past, HalfSet
  <2> QED BY <2>1, <2>2
<1>11. ArrayInv'
  BY <1>1, <1>7, <1>8, <1>9, <1>10, ArrayKept
<1> QED BY <1>1, <1>7, <1>8, <1>11

(* A new segment, and a death.                                             *)
LEMMA ArrayMadeInv ==
  ASSUME Guarded, SegInv, SegInv', ArrayInv, Rooms, IsArray, NEW p \in Proc,
         InitCreate(p) \/ InitLost(p)
  PROVE  /\ ArrayInv' /\ Still(p) /\ UNCHANGED <<setup, op, ret>> /\ ret[p] = <<>>
         /\ op[p].call = "init" /\ pc'[p] \in {"made", "leave"}
         /\ Len(shm') = Len(shm) + 1
         /\ \A s \in 1 .. Len(shm) : shm'[s] = shm[s]
         /\ \A s : s = Len(shm') =>
              /\ shm'[s].head.size = 0
              /\ \A i \in 0 .. Room(s)' - 1 : shm'[s].nodes[i] = [flag |-> 0, data |-> <<"zero", "zero">>]
<1>d. DOMAIN pc = Proc /\ DOMAIN op = Proc /\ DOMAIN seg = Proc
  BY DEF Guarded, ControlInv, Domains, SegInv
<1>1. /\ Still(p) /\ UNCHANGED <<setup, op, ret>> /\ op[p].call = "init"
      /\ shm' = Append(shm, Zeroed(op[p].arg)) /\ pc'[p] \in {"made", "leave"}
      /\ pc'[p] = "made" => seg'[p] = Len(shm')
  BY <1>d DEF InitCreate, InitLost, Creates, In, Go, Still
<1>2. op[p].arg \in 1 .. SizeMax /\ ret[p] = <<>> /\ Len(shm) \in Nat /\ kind' = kind
  BY <1>1 DEF SegInv, Uses, Shape, kind
<1>3. /\ Len(shm') = Len(shm) + 1
      /\ \A s \in 1 .. Len(shm) : shm'[s] = shm[s]
      /\ \A s : s = Len(shm') => shm'[s] = Zeroed(op[p].arg) /\ Room(s)' = op[p].arg
  BY <1>1, <1>2, SegMade DEF SegInv
<1>4. /\ Zeroed(op[p].arg).head.size = 0
      /\ \A i \in 0 .. op[p].arg - 1 :
           Zeroed(op[p].arg).nodes[i] = [flag |-> 0, data |-> <<"zero", "zero">>]
  <2>1. CASE kind = "array"
    BY <2>1 DEF Zeroed, Fields, ZeroNode
  <2>2. CASE kind = "rwarray"
    BY <2>2 DEF Zeroed, Fields, ZeroNode
  <2> QED BY <2>1, <2>2 DEF IsArray
<1>5. ASSUME NEW s, s = Len(shm') PROVE ArraySeg(s)'
  <2>1. /\ shm'[s].head.size = 0 /\ Room(s)' \in Nat
        /\ \A i \in 0 .. Room(s)' - 1 : shm'[s].nodes[i] = [flag |-> 0, data |-> <<"zero", "zero">>]
    BY <1>2, <1>3, <1>4, <1>5
  <2> QED BY <2>1, <1>2 DEF ArraySeg, Half
<1>6. ArrayAt(p)'
  <2>1. pc'[p] = "made" => m_pHead(p)'.size = 0
    BY <1>1, <1>3, <1>4 DEF m_pHead
  <2> QED BY <2>1, <1>1, <1>2 DEF ArrayAt, InCell, CellCalls, Making, Past, HalfSet
<1>7. ASSUME NEW q \in Proc \ {p}, seg[q] \in 1 .. Len(shm) PROVE Undisturbed(q)
  BY <1>3, <1>7 DEF Undisturbed, ArrayInv, ArrayAt
<1>8. ArrayInv'
  <2>1. \A s \in 1 .. Len(shm') :
           \/ s \in 1 .. Len(shm) /\ shm'[s].head = shm[s].head /\ shm'[s].nodes = shm[s].nodes
           \/ ArraySeg(s)'
    <3> SUFFICES ASSUME NEW s \in 1 .. Len(shm'), s \notin 1 .. Len(shm) PROVE ArraySeg(s)'
      BY <1>3
    <3>1. s = Len(shm')
      BY <1>2, <1>3
    <3> QED BY <3>1, <1>5
  <2> QED BY <1>1, <1>6, <1>7, <2>1, ArrayKept
<1> QED BY <1>1, <1>2, <1>3, <1>4, <1>8

LEMMA ArrayExitInv ==
  ASSUME Guarded, SegInv, SegInv', ArrayInv, Rooms, IsArray, NEW p \in Proc, Exit(p)
  PROVE  /\ ArrayInv' /\ Still(p) /\ UNCHANGED setup /\ Len(shm') = Len(shm)
         /\ \A s \in 1 .. Len(shm) : shm'[s].head = shm[s].head /\ shm'[s].nodes = shm[s].nodes
         /\ pc'[p] = "new" /\ ret'[p] = <<>> /\ seg'[p] = 0
<1>d. DOMAIN pc = Proc /\ DOMAIN op = Proc /\ DOMAIN seg = Proc /\ DOMAIN ret = Proc
  BY DEF Guarded, ControlInv, Domains, SegInv
<1>1. /\ Still(p) /\ UNCHANGED setup /\ pc'[p] = "new" /\ ret'[p] = <<>> /\ seg'[p] = 0
      /\ op'[p].call = "none"
  BY <1>d, Records DEF Exit, Return, Still, NoCall
<1>2. /\ Len(shm') = Len(shm)
      /\ \A s \in 1 .. Len(shm) :
              /\ shm'[s].head = shm[s].head /\ shm'[s].nodes = shm[s].nodes
              /\ shm'[s].locks = [l \in DOMAIN shm[s].locks |->
                                    IF shm[s].locks[l] = p THEN "dead" ELSE shm[s].locks[l]]
  BY ExitStores DEF SegInv
<1>3. ASSUME NEW q \in Proc \ {p}, seg[q] \in 1 .. Len(shm) PROVE Undisturbed(q)
  <2>1. ASSUME kind = "rwarray", InCell(q) PROVE shm'[seg[q]].locks[MyLock(q)] = q
    <3>1. shm[seg[q]].locks[MyLock(q)] = q
      BY <2>1 DEF ArrayInv, ArrayAt
    <3>2. MyLock(q) \in DOMAIN shm[seg[q]].locks
      <4>1. op[q].arg < m_pHead(q).size /\ op[q].arg \in Nat
        BY <2>1 DEF ArrayInv, ArrayAt, InCell, Past, HalfSet, SegInv, Uses
      <4>2. m_pHead(q).locknum = LockNum
        BY <2>1, <4>1, <1>3 DEF ArrayInv, ArraySeg, m_pHead
      <4>3. MyLock(q) \in 0 .. LockNum - 1
        BY <4>1, <4>2, SegmentAssumption DEF MyLock
      <4> QED BY <1>3, <4>3 DEF SegInv, Shape, SegShape
    <3> QED BY <1>2, <1>3, <3>1, <3>2
  <2> QED BY <1>2, <1>3, <2>1 DEF Undisturbed
<1>4. ArrayAt(p)'
  BY <1>1, ArrayIdle DEF Making, Past, HalfSet
<1>5. ArrayInv'
  <2>1. \A s \in 1 .. Len(shm') :
          s \in 1 .. Len(shm) /\ shm'[s].head = shm[s].head /\ shm'[s].nodes = shm[s].nodes
    BY <1>2
  <2> QED BY <1>1, <1>3, <1>4, <2>1, ArrayKept
<1> QED BY <1>1, <1>2, <1>5

(* The stores to a cell, by one who is in it.                              *)
CellStored(p) ==
  LET c == Cell(p)
      d == shm'[seg[p]].nodes[op[p].arg]
  IN  \/ /\ pc[p] = Begin /\ pc'[p] = "flagged" /\ op[p].call = "set"
         /\ d.flag = 1 /\ d.data = c.data /\ Return(p, <<"set", op[p].arg>>)
      \/ /\ pc[p] = "flagged" /\ pc'[p] = "half" /\ op[p].call = "set" /\ UNCHANGED ret
         /\ d.flag = c.flag /\ d.data = <<op[p].v, c.data[2]>>
      \/ /\ pc[p] = "half" /\ pc'[p] = Leave /\ op[p].call = "set" /\ UNCHANGED ret
         /\ d.flag = c.flag /\ d.data = <<c.data[1], op[p].v>>
      \/ /\ pc[p] = Begin /\ pc'[p] = Leave /\ op[p].call = "delete"
         /\ d.flag = 0 /\ d.data = c.data /\ Return(p, <<"deleted", op[p].arg>>)

LEMMA ArrayCellStores ==
  ASSUME Guarded, SegInv, ArrayInv, Rooms, IsArray, NEW p \in Proc,
         SetFlag(p) \/ SetData(p) \/ Delete(p)
  PROVE  /\ Still(p) /\ UNCHANGED <<setup, seg, op>>
         /\ InCell(p) /\ op[p].arg \in Index /\ op[p].arg < m_pHead(p).size
         /\ seg[p] \in 1 .. Len(shm) /\ Len(shm') = Len(shm)
         /\ op[p].arg \in 0 .. Room(seg[p]) - 1
         /\ \A s \in 1 .. Len(shm) : s # seg[p] => shm'[s] = shm[s]
         /\ shm'[seg[p]].head = shm[seg[p]].head /\ shm'[seg[p]].locks = shm[seg[p]].locks
         /\ \A i \in 0 .. Room(seg[p]) - 1 :
              i # op[p].arg => shm'[seg[p]].nodes[i] = shm[seg[p]].nodes[i]
         /\ CellStored(p)
         /\ shm'[seg[p]].nodes[op[p].arg] \in [flag : {0, 1}, data : Half \X Half]
<1>d. DOMAIN pc = Proc /\ DOMAIN op = Proc /\ DOMAIN seg = Proc /\ DOMAIN ret = Proc
  BY DEF Guarded, ControlInv, Domains, SegInv
<1>1. Still(p) /\ UNCHANGED <<setup, seg, op>> /\ op[p].call \in CellCalls /\ Quiet
  BY <1>d DEF SetFlag, SetData, Delete, In, Go, Quiet, Still, CellCalls, Return
<1>u. Uses(p) /\ ArrayAt(p) /\ Control(p)
  BY DEF SegInv, ArrayInv, Guarded, ControlInv
<1>2. seg[p] \in 1 .. Len(shm) /\ op[p].arg \in Index /\ op[p].arg \in Nat
  BY <1>1, <1>u DEF Uses, CellCalls, SegInv, Shape, ArrayAt
<1>3. pc[p] \in {Begin} \cup HalfSet /\ (pc[p] = Begin => Inside(p))
  BY <1>d DEF SetFlag, SetData, Delete, In, Go, HalfSet, Begin
<1>4. InCell(p)
  BY <1>1, <1>3 DEF InCell, Begin, HalfSet, IsArray
<1>5. op[p].arg < m_pHead(p).size
  <2>1. CASE pc[p] \in HalfSet \/ kind = "rwarray"
    <3>1. pc[p] \in Past
      BY <1>3, <2>1 DEF Past, Begin
    <3> QED BY <3>1, <1>u DEF ArrayAt
  <2>2. CASE kind = "array" /\ Inside(p)
    BY <2>2 DEF Inside
  <2> QED BY <1>3, <2>1, <2>2 DEF IsArray
<1>6. op[p].arg \in 0 .. Room(seg[p]) - 1
  <2>1. m_pHead(p).size \in 0 .. Room(seg[p]) /\ Room(seg[p]) \in 1 .. SizeMax
    BY <1>2 DEF ArrayInv, ArraySeg, m_pHead, SegInv, Shape, SegShape
  <2> QED BY <2>1, <1>2, <1>5
<1>7. Cell(p) \in [flag : {0, 1}, data : Half \X Half]
  BY <1>2, <1>6 DEF ArrayInv, ArraySeg, Cell, m_Nodes
<1>8. PICK x :
        /\ StoreNode(p, op[p].arg, x)
        /\ x \in [flag : {0, 1}, data : Half \X Half]
        /\ \/ /\ pc[p] = Begin /\ pc'[p] = "flagged" /\ op[p].call = "set"
              /\ x.flag = 1 /\ x.data = Cell(p).data /\ Return(p, <<"set", op[p].arg>>)
           \/ /\ pc[p] = "flagged" /\ pc'[p] = "half" /\ op[p].call = "set" /\ UNCHANGED ret
              /\ x.flag = Cell(p).flag /\ x.data = <<op[p].v, Cell(p).data[2]>>
           \/ /\ pc[p] = "half" /\ pc'[p] = Leave /\ op[p].call = "set" /\ UNCHANGED ret
              /\ x.flag = Cell(p).flag /\ x.data = <<Cell(p).data[1], op[p].v>>
           \/ /\ pc[p] = Begin /\ pc'[p] = Leave /\ op[p].call = "delete"
              /\ x.flag = 0 /\ x.data = Cell(p).data /\ Return(p, <<"deleted", op[p].arg>>)
  <2>v. op[p].call = "set" => op[p].v \in Half
    BY <1>u DEF Uses, Half
  <2>1. CASE SetFlag(p)
    <3> DEFINE x == [Cell(p) EXCEPT !.flag = 1]
    <3>1. StoreNode(p, op[p].arg, x) /\ Return(p, <<"set", op[p].arg>>)
          /\ pc[p] = Begin /\ pc'[p] = "flagged" /\ op[p].call = "set"
      BY <2>1, <1>d DEF SetFlag, In, Go
    <3>2. x.flag = 1 /\ x.data = Cell(p).data /\ x \in [flag : {0, 1}, data : Half \X Half]
      BY <1>7
    <3> HIDE DEF x
    <3> QED BY <3>1, <3>2
  <2>2. CASE SetData(p) /\ pc[p] = "flagged"
    <3> DEFINE x == [Cell(p) EXCEPT !.data[1] = op[p].v]
    <3>1. StoreNode(p, op[p].arg, x) /\ UNCHANGED ret
          /\ pc[p] = "flagged" /\ pc'[p] = "half" /\ op[p].call = "set"
      BY <2>2, <1>d DEF SetData, In, Go
    <3>2. x.flag = Cell(p).flag /\ x.data = <<op[p].v, Cell(p).data[2]>>
          /\ x \in [flag : {0, 1}, data : Half \X Half]
      BY <1>7, <2>v, <3>1
    <3> HIDE DEF x
    <3> QED BY <3>1, <3>2
  <2>3. CASE SetData(p) /\ pc[p] # "flagged"
    <3> DEFINE x == [Cell(p) EXCEPT !.data[2] = op[p].v]
    <3>1. StoreNode(p, op[p].arg, x) /\ UNCHANGED ret
          /\ pc[p] = "half" /\ pc'[p] = Leave /\ op[p].call = "set"
      BY <2>3, <1>d DEF SetData, In, Go
    <3>2. x.flag = Cell(p).flag /\ x.data = <<Cell(p).data[1], op[p].v>>
          /\ x \in [flag : {0, 1}, data : Half \X Half]
      BY <1>7, <2>v, <3>1
    <3> HIDE DEF x
    <3> QED BY <3>1, <3>2
  <2>4. CASE Delete(p)
    <3> DEFINE x == [Cell(p) EXCEPT !.flag = 0]
    <3>1. StoreNode(p, op[p].arg, x) /\ Return(p, <<"deleted", op[p].arg>>)
          /\ pc[p] = Begin /\ pc'[p] = Leave /\ op[p].call = "delete"
      BY <2>4, <1>d DEF Delete, In, Go
    <3>2. x.flag = 0 /\ x.data = Cell(p).data /\ x \in [flag : {0, 1}, data : Half \X Half]
      BY <1>7
    <3> HIDE DEF x
    <3> QED BY <3>1, <3>2
  <2> QED BY <2>1, <2>2, <2>3, <2>4
<1>9. /\ Len(shm') = Len(shm)
      /\ \A s \in 1 .. Len(shm) : s # seg[p] => shm'[s] = shm[s]
      /\ shm'[seg[p]].head = shm[seg[p]].head /\ shm'[seg[p]].locks = shm[seg[p]].locks
      /\ \A i \in DOMAIN shm[seg[p]].nodes :
           shm'[seg[p]].nodes[i] = IF i = op[p].arg THEN x ELSE shm[seg[p]].nodes[i]
  BY <1>1, <1>2, <1>8, NodeStores DEF SegInv
<1>10. DOMAIN shm[seg[p]].nodes = 0 .. Room(seg[p]) - 1
  BY <1>2 DEF SegInv, Shape, SegShape
<1>11. shm'[seg[p]].nodes[op[p].arg] = x
  BY <1>6, <1>9, <1>10
<1>12. CellStored(p)
  BY <1>8, <1>11 DEF CellStored
<1> QED BY <1>1, <1>2, <1>4, <1>5, <1>6, <1>8, <1>9, <1>10, <1>11, <1>12

LEMMA ArrayCellInv ==
  ASSUME Guarded, Guarded', SegInv, SegInv', ArrayInv, Rooms, IsArray, NEW p \in Proc,
         SetFlag(p) \/ SetData(p) \/ Delete(p)
  PROVE  ArrayInv'
<1> DEFINE s == seg[p]
<1> DEFINE i == op[p].arg
<1>1. /\ Still(p) /\ UNCHANGED <<setup, seg, op>>
      /\ InCell(p) /\ i \in Index /\ i < m_pHead(p).size
      /\ s \in 1 .. Len(shm) /\ Len(shm') = Len(shm) /\ i \in 0 .. Room(s) - 1
      /\ \A t \in 1 .. Len(shm) : t # s => shm'[t] = shm[t]
      /\ shm'[s].head = shm[s].head /\ shm'[s].locks = shm[s].locks
      /\ \A j \in 0 .. Room(s) - 1 : j # i => shm'[s].nodes[j] = shm[s].nodes[j]
      /\ CellStored(p) /\ shm'[s].nodes[i] \in [flag : {0, 1}, data : Half \X Half]
  BY ArrayCellStores
<1>d. DOMAIN ret = Proc /\ kind' = kind
  BY <1>1 DEF SegInv, kind
<1>u. Uses(p) /\ ArrayAt(p) /\ Control(p)
  BY DEF SegInv, ArrayInv, Guarded, ControlInv
<1>2. ASSUME NEW q \in Proc \ {p}, seg[q] \in 1 .. Len(shm) PROVE Undisturbed(q)
  <2>1. shm'[seg[q]].head = shm[seg[q]].head /\ shm'[seg[q]].locks = shm[seg[q]].locks
    BY <1>1, <1>2
  <2>2. kind = "rwarray" /\ InCell(q) => shm[seg[q]].locks[MyLock(q)] = q
    BY DEF ArrayInv, ArrayAt
  <2>3. ASSUME InCell(q), op[q].arg < m_pHead(q).size
        PROVE  shm'[seg[q]].nodes[op[q].arg] = shm[seg[q]].nodes[op[q].arg]
    <3>1. seg[q] # s \/ op[q].arg # i
      BY <1>1, <2>3, ArrayAlone
    <3>2. op[q].arg \in 0 .. Room(seg[q]) - 1
      <4>1. m_pHead(q).size \in 0 .. Room(seg[q]) /\ Room(seg[q]) \in 1 .. SizeMax
        BY <1>2 DEF ArrayInv, ArraySeg, m_pHead, SegInv, Shape, SegShape
      <4>2. op[q].arg \in Nat
        BY DEF SegInv, Uses
      <4> QED BY <2>3, <4>1, <4>2
    <3> QED BY <1>1, <1>2, <3>1, <3>2
  <2> QED BY <2>1, <2>2, <2>3 DEF Undisturbed
<1>3. ASSUME NEW t \in 1 .. Len(shm'), t = s PROVE ArraySeg(t)'
  <2>1. t \in 1 .. Len(shm) /\ ArraySeg(t) /\ Room(t)' = Room(t)
    BY <1>1, <1>3 DEF ArrayInv, Rooms
  <2>2. \A j \in 0 .. Room(t) - 1 : shm'[t].nodes[j] \in [flag : {0, 1}, data : Half \X Half]
    BY <1>1, <1>3, <2>1 DEF ArraySeg
  <2> QED BY <1>1, <1>3, <1>d, <2>1, <2>2 DEF ArraySeg
<1>4. \A t \in 1 .. Len(shm') :
           \/ t \in 1 .. Len(shm) /\ shm'[t].head = shm[t].head /\ shm'[t].nodes = shm[t].nodes
           \/ ArraySeg(t)'
  BY <1>1, <1>3
<1>5. ArrayAt(p)'
  <2> DEFINE d == shm'[s].nodes[i]
  <2>1. /\ m_pHead(p)' = m_pHead(p) /\ MyLock(p)' = MyLock(p) /\ Cell(p)' = d
        /\ op'[p] = op[p] /\ shm'[seg'[p]].locks = shm[s].locks
    BY <1>1 DEF m_pHead, MyLock, Cell, m_Nodes
  <2>2. kind = "rwarray" => shm[s].locks[MyLock(p)] = p
    BY <1>1, <1>u DEF ArrayAt
  <2>3. op[p].call \in CellCalls
    BY <1>1 DEF InCell
  <2>c. CellStored(p)
    BY <1>1
  <2>a. Cell(p) \in [flag : {0, 1}, data : Half \X Half]
    BY <1>1 DEF ArrayInv, ArraySeg, Cell, m_Nodes
  <2>h. pc[p] \in HalfSet => Cell(p).flag = 1 /\ ret[p] = <<"set", i>>
    BY <1>1, <1>u DEF ArrayAt, HasSet
  <2>l. Leave \in {"leave", "rwleave"}
    BY DEF Leave
  <2>e. /\ pc'[p] \in {"flagged", "half", Leave} /\ (pc'[p] = "half" => d.data[1] = op[p].v)
        /\ \/ op[p].call = "set" /\ d.flag = 1 /\ ret'[p] = <<"set", i>>
           \/ pc'[p] = Leave /\ ret'[p] = <<"deleted", i>>
    <3>0. Begin \in {"begin", "rwbegin"}
      BY DEF Begin
    <3>1. CASE pc[p] = "flagged"
      <4>1. /\ pc'[p] = "half" /\ op[p].call = "set" /\ UNCHANGED ret
            /\ d.flag = Cell(p).flag /\ d.data = <<op[p].v, Cell(p).data[2]>>
        BY <3>0, <3>1, <2>c DEF CellStored
      <4> HIDE DEF d
      <4> QED BY <3>1, <4>1, <2>h DEF HalfSet
    <3>3. CASE pc[p] = "half"
      <4>1. /\ pc'[p] = Leave /\ op[p].call = "set" /\ UNCHANGED ret /\ d.flag = Cell(p).flag
        BY <3>0, <3>3, <2>c DEF CellStored
      <4> HIDE DEF d
      <4> QED BY <3>3, <4>1, <2>h, <2>l DEF HalfSet
    <3>2. CASE pc[p] = Begin
      BY <3>2, <2>c, <2>l, <1>d DEF CellStored, Return, Begin
    <3> QED BY <3>1, <3>2, <3>3, <2>c DEF CellStored
  <2>4. /\ pc'[p] \in HalfSet \cup {Leave}
        /\ pc'[p] \in HalfSet => ret'[p] = <<"set", i>>
        /\ pc'[p] = "half" => d.data[1] = op[p].v
    BY <2>e, <2>l DEF HalfSet
  <2>5. ASSUME NEW j \in Index, ret'[p] = <<"set", j>>
        PROVE  j = i /\ op[p].call = "set" /\ d.flag = 1
    BY <2>5, <2>e
  <2>6. pc'[p] \notin Making /\ pc'[p] # "gethalf" /\ pc'[p] \in HalfSet \cup {"leave", "rwleave"}
    BY <2>4 DEF Making, HalfSet, Leave
  <2>7. \A j \in Index : ret'[p] = <<"set", j>> => HasSet(p)' /\ j = op'[p].arg
    BY <2>1, <2>5, <2>6, <1>1 DEF HasSet
  <2> QED BY <1>1, <1>d, <2>1, <2>2, <2>3, <2>4, <2>6, <2>7 DEF ArrayAt, Making
<1> QED BY <1>1, <1>2, <1>4, <1>5, ArrayKept

(* The array of segment 1, as the refinement has it.                       *)
ALength == Nodes(kind, 1)
ACells == Cells(1)
AMemory == Kept(1)
AUsers == Results(kind, 1)

ArrayView ==
  Guarded /\ SegInv /\ ArrayInv /\ IsArray =>
    /\ DOMAIN ACells = Index /\ DOMAIN AMemory = Index
    /\ Len(shm) = 0 =>
         ALength = 0 /\ \A i \in Index : ACells[i] = <<>> /\ AMemory[i] = <<"zero", "zero">>
    /\ Len(shm) # 0 =>
         /\ ALength = shm[1].head.size
         /\ \A i \in Index :
              /\ i \notin 0 .. Room(1) - 1 => ACells[i] = <<>> /\ AMemory[i] = <<"zero", "zero">>
              /\ i \in 0 .. Room(1) - 1 =>
                   /\ AMemory[i] = shm[1].nodes[i].data
                   /\ shm[1].nodes[i].flag # 1 => ACells[i] = <<>>
                   /\ shm[1].nodes[i].flag = 1 =>
                        /\ Setting(1, i) = {} => ACells[i] = shm[1].nodes[i].data
                        /\ \A p \in Setting(1, i) : ACells[i] = <<op[p].v, op[p].v>>

LEMMA ArrayViews == ArrayView
<1> SUFFICES ASSUME Guarded, SegInv, ArrayInv, IsArray PROVE ArrayView
  BY DEF ArrayView
<1>1. DOMAIN ACells = Index /\ DOMAIN AMemory = Index
  BY DEF ACells, AMemory, Cells, Kept
<1>2. ASSUME Len(shm) = 0
      PROVE  ALength = 0 /\ \A i \in Index : ACells[i] = <<>> /\ AMemory[i] = <<"zero", "zero">>
  BY <1>2 DEF ALength, ACells, AMemory, Nodes, Cells, Kept, SegInv, Shape
<1>3. ASSUME Len(shm) # 0 PROVE 1 \in 1 .. Len(shm) /\ Room(1) \in 1 .. SizeMax /\ ~(1 > Len(shm))
  BY <1>3 DEF SegInv, Shape, SegShape
<1>4. ASSUME Len(shm) # 0 PROVE ALength = shm[1].head.size
  BY <1>3, <1>4 DEF ALength, Nodes, SegInv, Shape
<1>5. ASSUME Len(shm) # 0, NEW i \in Index
      PROVE  /\ i \notin 0 .. Room(1) - 1 => ACells[i] = <<>> /\ AMemory[i] = <<"zero", "zero">>
             /\ i \in 0 .. Room(1) - 1 =>
                   /\ AMemory[i] = shm[1].nodes[i].data
                   /\ shm[1].nodes[i].flag # 1 => ACells[i] = <<>>
                   /\ shm[1].nodes[i].flag = 1 =>
                        /\ Setting(1, i) = {} => ACells[i] = shm[1].nodes[i].data
                        /\ \A p \in Setting(1, i) : ACells[i] = <<op[p].v, op[p].v>>
  <2>1. i \in Nat /\ (i < Room(1) <=> i \in 0 .. Room(1) - 1) /\ (i >= Room(1) <=> i \notin 0 .. Room(1) - 1)
    BY <1>3, <1>5, IndexAssumption
  <2>2. AMemory[i] = IF i < Room(1) THEN shm[1].nodes[i].data ELSE <<"zero", "zero">>
    BY <1>3, <1>5 DEF AMemory, Kept
  <2>3. ACells[i] = IF i >= Room(1) \/ shm[1].nodes[i].flag # 1 THEN <<>>
                    ELSE IF Setting(1, i) = {} THEN shm[1].nodes[i].data
                    ELSE <<op[CHOOSE p \in Setting(1, i) : TRUE].v, op[CHOOSE p \in Setting(1, i) : TRUE].v>>
    BY <1>3, <1>5 DEF ACells, Cells
  <2>4. ASSUME NEW p \in Setting(1, i), NEW q \in Setting(1, i) PROVE p = q
    <3>1. ASSUME NEW r \in Setting(1, i)
          PROVE  r \in Proc /\ InCell(r) /\ seg[r] = 1 /\ op[r].arg = i
      <4>1. r \in Proc /\ seg[r] = 1 /\ pc[r] \in HalfSet /\ op[r].arg = i
        BY <3>1 DEF Setting, HalfSet
      <4>2. op[r].call \in CellCalls
        BY <4>1 DEF ArrayInv, ArrayAt, Past
      <4> QED BY <4>1, <4>2 DEF InCell, HalfSet
    <3> QED BY <3>1, ArrayAlone
  <2>5. ASSUME NEW p \in Setting(1, i) PROVE p = CHOOSE q \in Setting(1, i) : TRUE
    <3> DEFINE c == CHOOSE q \in Setting(1, i) : TRUE
    <3>1. c \in Setting(1, i)
      BY <2>5
    <3> HIDE DEF c
    <3>2. p = c
      BY <2>4, <3>1
    <3> QED BY <3>2 DEF c
  <2> HIDE DEF Setting
  <2>6. ASSUME NEW p \in Setting(1, i), i < Room(1), shm[1].nodes[i].flag = 1
        PROVE  ACells[i] = <<op[p].v, op[p].v>>
    <3> DEFINE c == CHOOSE q \in Setting(1, i) : TRUE
    <3>1. ACells[i] = <<op[c].v, op[c].v>>
      BY <2>1, <2>3, <2>6
    <3>2. p = c
      BY <2>5
    <3> HIDE DEF c
    <3> QED BY <3>1, <3>2
  <2> QED BY <2>1, <2>2, <2>3, <2>6
<1> QED BY <1>1, <1>2, <1>4, <1>5 DEF ArrayView

LEMMA ArrayViewsNext == ArrayView'
BY ArrayViews, PTL

(* A cell that a step of p leaves as it is.                                *)
LEMMA CellSame ==
  ASSUME Guarded, SegInv, ArrayInv, Guarded', SegInv', ArrayInv', IsArray, Rooms, UNCHANGED setup,
         NEW p \in Proc, Still(p), NEW i \in Index,
         Len(shm) # 0 => /\ Len(shm') # 0
                         /\ i \in 0 .. Room(1) - 1 => shm'[1].nodes[i] = shm[1].nodes[i],
         Len(shm) = 0 /\ Len(shm') # 0 /\ i \in 0 .. Room(1)' - 1 =>
           shm'[1].nodes[i] = [flag |-> 0, data |-> <<"zero", "zero">>],
         p \in Setting(1, i) <=> p \in Setting(1, i)',
         p \in Setting(1, i) => op'[p].v = op[p].v
  PROVE  ACells'[i] = ACells[i] /\ AMemory'[i] = AMemory[i]
<1>1. IsArray' /\ ArrayView /\ ArrayView'
  BY ArrayViews, ArrayViewsNext DEF IsArray, kind
<1>2. \A q \in Proc : q \in Setting(1, i) <=> q \in Setting(1, i)'
  <2>1. \A q \in Proc \ {p} : q \in Setting(1, i) <=> q \in Setting(1, i)'
    BY DEF Still, Setting
  <2> QED BY <2>1
<1>3. Setting(1, i) \subseteq Proc /\ Setting(1, i)' \subseteq Proc
  BY DEF Setting
<1>4. CASE Len(shm) = 0 /\ Len(shm') = 0
  BY <1>1, <1>4 DEF ArrayView
<1>5. CASE Len(shm) = 0 /\ Len(shm') # 0
  <2>1. ACells[i] = <<>> /\ AMemory[i] = <<"zero", "zero">>
    BY <1>1, <1>5 DEF ArrayView
  <2>2. CASE i \notin 0 .. Room(1)' - 1
    BY <1>1, <1>5, <2>1, <2>2 DEF ArrayView
  <2>3. CASE i \in 0 .. Room(1)' - 1
    <3>1. AMemory'[i] = shm'[1].nodes[i].data /\ (shm'[1].nodes[i].flag # 1 => ACells'[i] = <<>>)
      BY <1>1, <1>5, <2>3 DEF ArrayView
    <3> QED BY <1>5, <2>1, <2>3, <3>1
  <2> QED BY <2>2, <2>3
<1>6. CASE Len(shm) # 0
  <2>1. Room(1)' = Room(1) /\ Len(shm') # 0
    BY <1>6 DEF Rooms, SegInv, Shape
  <2>2. CASE i \notin 0 .. Room(1) - 1
    BY <1>1, <1>6, <2>1, <2>2 DEF ArrayView
  <2>3. CASE i \in 0 .. Room(1) - 1
    <3>1. shm'[1].nodes[i] = shm[1].nodes[i]
      BY <1>6, <2>3
    <3>2. AMemory'[i] = AMemory[i]
      BY <1>1, <1>6, <2>1, <2>3, <3>1 DEF ArrayView
    <3>3. CASE shm[1].nodes[i].flag # 1
      BY <1>1, <1>6, <2>1, <2>3, <3>1, <3>2, <3>3 DEF ArrayView
    <3>4. CASE shm[1].nodes[i].flag = 1 /\ Setting(1, i) = {}
      <4>1. Setting(1, i)' = {}
        BY <1>2, <1>3, <3>4
      <4> QED BY <1>1, <1>6, <2>1, <2>3, <3>1, <3>2, <3>4, <4>1 DEF ArrayView
    <3>5. CASE shm[1].nodes[i].flag = 1 /\ Setting(1, i) # {}
      <4>1. PICK q \in Proc : q \in Setting(1, i) /\ q \in Setting(1, i)'
        BY <1>2, <1>3, <3>5
      <4>2. op'[q].v = op[q].v
        BY <4>1 DEF Still
      <4>3. ACells[i] = <<op[q].v, op[q].v>>
        BY <1>1, <1>6, <2>3, <3>5, <4>1 DEF ArrayView
      <4>4. ACells'[i] = <<op'[q].v, op'[q].v>>
        BY <1>1, <1>6, <2>1, <2>3, <3>1, <3>5, <4>1 DEF ArrayView
      <4> QED BY <3>2, <4>2, <4>3, <4>4
    <3> QED BY <3>3, <3>4, <3>5
  <2> QED BY <2>2, <2>3
<1> QED BY <1>4, <1>5, <1>6

(* The cell that p is in.                                                  *)
CellOf(p) ==
  LET i == op[p].arg
  IN  InCell(p) /\ seg[p] = 1 /\ i \in Index /\ i < m_pHead(p).size =>
        /\ Len(shm) # 0 /\ i \in 0 .. Room(1) - 1 /\ ALength = m_pHead(p).size
        /\ Cell(p) \in [flag : {0, 1}, data : Half \X Half]
        /\ AMemory[i] = Cell(p).data
        /\ pc[p] \in HalfSet => Cell(p).flag = 1 /\ ACells[i] = <<op[p].v, op[p].v>>
        /\ pc[p] \notin HalfSet => ACells[i] = IF Cell(p).flag = 1 THEN Cell(p).data ELSE <<>>

OwnCells == Guarded /\ SegInv /\ ArrayInv /\ IsArray => \A p \in Proc : CellOf(p)

LEMMA OwnCellsHold == OwnCells
<1> SUFFICES ASSUME Guarded, SegInv, ArrayInv, IsArray, NEW p \in Proc,
                    InCell(p), seg[p] = 1, op[p].arg \in Index, op[p].arg < m_pHead(p).size
             PROVE  CellOf(p)
  BY DEF OwnCells, CellOf
<1> DEFINE i == op[p].arg
<1>1. ArrayView /\ Uses(p) /\ ArrayAt(p)
  BY ArrayViews DEF SegInv, ArrayInv
<1>2. 1 \in 1 .. Len(shm) /\ Len(shm) # 0 /\ m_pHead(p) = shm[1].head /\ Cell(p) = shm[1].nodes[i]
  BY <1>1 DEF Uses, SegInv, Shape, m_pHead, Cell, m_Nodes
<1>3. ArraySeg(1) /\ Room(1) \in 1 .. SizeMax
  BY <1>2 DEF ArrayInv, SegInv, Shape, SegShape
<1>4. i \in 0 .. Room(1) - 1
  BY <1>1, <1>2, <1>3 DEF Uses, ArraySeg
<1>5. Cell(p) \in [flag : {0, 1}, data : Half \X Half]
  BY <1>2, <1>3, <1>4 DEF ArraySeg
<1>6. ALength = m_pHead(p).size /\ AMemory[i] = Cell(p).data
  BY <1>1, <1>2, <1>4 DEF ArrayView
<1>7. ASSUME pc[p] \in HalfSet PROVE Cell(p).flag = 1 /\ ACells[i] = <<op[p].v, op[p].v>>
  <2>1. Cell(p).flag = 1
    BY <1>1, <1>7 DEF ArrayAt, HasSet
  <2>2. p \in Setting(1, i)
    BY <1>7 DEF Setting, HalfSet
  <2> QED BY <1>1, <1>2, <1>4, <2>1, <2>2 DEF ArrayView
<1>8. ASSUME pc[p] \notin HalfSet
      PROVE  ACells[i] = IF Cell(p).flag = 1 THEN Cell(p).data ELSE <<>>
  <2>1. ASSUME NEW q \in Setting(1, i) PROVE FALSE
    <3>1. q \in Proc /\ seg[q] = 1 /\ pc[q] \in HalfSet /\ op[q].arg = i
      BY <2>1 DEF Setting, HalfSet
    <3>2. InCell(q)
      BY <3>1 DEF ArrayInv, ArrayAt, Past, InCell, HalfSet
    <3> QED BY <3>1, <3>2, <1>8, ArrayAlone
  <2>2. Setting(1, i) = {}
    BY <2>1
  <2> QED BY <1>1, <1>2, <1>4, <2>2 DEF ArrayView
<1> QED BY <1>2, <1>4, <1>5, <1>6, <1>7, <1>8 DEF CellOf

LEMMA OwnCellsNext == OwnCells'
BY OwnCellsHold, PTL

(* A step of CellArray on the array in segment 1.                          *)
ArrayTurn ==
  \/ UNCHANGED <<ALength, ACells, AMemory, AUsers>>
  \/ ALength = 0 /\ ALength' # 0 /\ UNCHANGED <<ACells, AMemory, AUsers>>
  \/ \E p \in Proc, i \in Index, h \in {1, 2} :
       /\ UNCHANGED <<ALength, ACells, AUsers>>
       /\ AUsers[p] = <<"set", i>> /\ ACells[i] # <<>>
       /\ AMemory' = [AMemory EXCEPT ![i][h] = ACells[i][h]]
  \/ /\ UNCHANGED <<ALength, AMemory>>
     /\ \E p \in Proc : \E r :
          /\ AUsers' = [AUsers EXCEPT ![p] = r]
          /\ \/ r = <<"is", ALength>> /\ UNCHANGED ACells
             \/ /\ r = <<>> /\ UNCHANGED ACells
                /\ \A i \in Index : AUsers[p] = <<"set", i>> => AMemory[i] = ACells[i]
             \/ \E i \in Index :
                  \/ i >= ALength /\ r = <<"overflow", i>> /\ UNCHANGED ACells
                  \/ /\ AUsers[p] = <<"set", i>> /\ r = <<>>
                     /\ ACells' = [ACells EXCEPT ![i] = AMemory[i]]
                  \/ /\ i < ALength
                     /\ \/ r = <<"deleted", i>> /\ ACells' = [ACells EXCEPT ![i] = <<>>]
                        \/ ACells[i] = <<>> /\ r = <<"unset", i>> /\ UNCHANGED ACells
                        \/ ACells[i] # <<>> /\ r = <<"value", i, ACells[i]>> /\ UNCHANGED ACells
                        \/ \E v \in Item : r = <<"set", i>> /\ ACells' = [ACells EXCEPT ![i] = <<v, v>>]

(* A step of p that leaves the cells as they are.                          *)
Midway(p) == seg[p] = 1 /\ pc[p] \in HalfSet

LEMMA ArrayStays ==
  ASSUME Guarded, SegInv, ArrayInv, Guarded', SegInv', ArrayInv', IsArray, Rooms, UNCHANGED setup,
         NEW p \in Proc, Still(p), Len(shm') = Len(shm), ~Midway(p), ~Midway(p)',
         1 \in 1 .. Len(shm) => shm'[1].head = shm[1].head /\ shm'[1].nodes = shm[1].nodes
  PROVE  UNCHANGED <<ALength, ACells, AMemory>>
<1>1. ArrayView /\ ArrayView' /\ IsArray'
  BY ArrayViews, ArrayViewsNext DEF IsArray, kind
<1>l. Len(shm) \in Nat /\ (Len(shm) # 0 => 1 \in 1 .. Len(shm))
  BY DEF SegInv, Shape
<1>2. ALength' = ALength
  BY <1>1, <1>l DEF ArrayView
<1>3. ASSUME NEW i \in Index PROVE ACells'[i] = ACells[i] /\ AMemory'[i] = AMemory[i]
  <2>1. p \notin Setting(1, i) /\ p \notin Setting(1, i)'
    BY DEF Midway, Setting, HalfSet
  <2> QED BY <1>l, <2>1, CellSame
<1>4. ACells' = ACells /\ AMemory' = AMemory
  <2>1. ACells = [i \in Index |-> ACells[i]] /\ ACells' = [i \in Index |-> ACells'[i]]
    BY DEF ACells, Cells
  <2>2. AMemory = [i \in Index |-> AMemory[i]] /\ AMemory' = [i \in Index |-> AMemory'[i]]
    BY DEF AMemory, Kept
  <2> QED BY <1>3, <2>1, <2>2
<1> QED BY <1>2, <1>4

LEMMA AUsersIs ==
  ASSUME SegInv, NEW p \in Proc
  PROVE  AUsers[p] = (IF seg[p] = 1 THEN ret[p] ELSE <<>>) /\ DOMAIN AUsers = Proc
BY DEF AUsers, Results

LEMMA AUsersSame ==
  ASSUME SegInv, UNCHANGED <<setup, ret>>, NEW p \in Proc, Still(p), UNCHANGED seg \/ ret[p] = <<>>
  PROVE  UNCHANGED AUsers
<1>1. kind' = kind
  BY DEF kind
<1>2. ASSUME NEW q \in Proc PROVE (IF seg'[q] = 1 THEN ret[q] ELSE <<>>) = IF seg[q] = 1 THEN ret[q] ELSE <<>>
  BY DEF Still
<1> QED BY <1>1, <1>2 DEF AUsers, Results

LEMMA AUsersReturn ==
  ASSUME SegInv, UNCHANGED <<setup, seg>>, NEW p \in Proc, NEW r, Return(p, r)
  PROVE  IF seg[p] = 1 THEN AUsers' = [AUsers EXCEPT ![p] = r] ELSE UNCHANGED AUsers
BY ResultsReturn DEF AUsers

(* What is left of a Set when it returns.                                  *)
LEMMA SetDone ==
  ASSUME Guarded, SegInv, ArrayInv, IsArray, NEW p \in Proc, ~Midway(p), NEW i \in Index,
         AUsers[p] = <<"set", i>>
  PROVE  AMemory[i] = ACells[i]
<1>1. seg[p] = 1 /\ ret[p] = <<"set", i>>
  BY AUsersIs
<1>2. HasSet(p) /\ i = op[p].arg /\ Control(p)
  BY <1>1 DEF ArrayInv, ArrayAt, Guarded, ControlInv
<1>3. InCell(p) /\ i < m_pHead(p).size /\ Cell(p).flag = 1
  BY <1>2 DEF HasSet, InCell, CellCalls, HalfSet, Control, IsArray
<1>4. CellOf(p)
  BY OwnCellsHold DEF OwnCells
<1> QED BY <1>1, <1>2, <1>3, <1>4 DEF CellOf, Midway

(* The steps that return a result, or nothing.                             *)
LEMMA ArrayAnswers ==
  ASSUME Guarded, SegInv, ArrayInv, Guarded', SegInv', ArrayInv', IsArray, Rooms,
         UNCHANGED <<setup, seg>>, NEW p \in Proc, Still(p), Len(shm') = Len(shm),
         ~Midway(p), ~Midway(p)', NEW r, Return(p, r),
         1 \in 1 .. Len(shm) => shm'[1].head = shm[1].head /\ shm'[1].nodes = shm[1].nodes,
         \/ r = <<>>
         \/ seg[p] = 1 /\ r = <<"is", m_pHead(p).size>>
         \/ /\ seg[p] = 1 /\ r = <<"overflow", op[p].arg>>
            /\ op[p].arg \in Index /\ op[p].arg >= m_pHead(p).size
         \/ /\ seg[p] = 1 /\ op[p].arg \in Index /\ op[p].arg < m_pHead(p).size
            /\ \/ ACells[op[p].arg] = <<>> /\ r = <<"unset", op[p].arg>>
               \/ ACells[op[p].arg] # <<>> /\ r = <<"value", op[p].arg, ACells[op[p].arg]>>
         \/ seg[p] # 1
  PROVE  ArrayTurn
<1>1. UNCHANGED <<ALength, ACells, AMemory>>
  BY ArrayStays
<1>2. CASE seg[p] # 1
  BY <1>1, <1>2, AUsersReturn DEF ArrayTurn
<1>3. CASE seg[p] = 1
  <2>1. AUsers' = [AUsers EXCEPT ![p] = r]
    BY <1>3, AUsersReturn
  <2>2. ALength = m_pHead(p).size
    <3>1. Len(shm) # 0
      BY <1>3 DEF SegInv, Uses, Shape
    <3>2. ArrayView
      BY ArrayViews
    <3> QED BY <1>3, <3>1, <3>2 DEF ArrayView, m_pHead
  <2>3. \A i \in Index : AUsers[p] = <<"set", i>> => AMemory[i] = ACells[i]
    BY SetDone
  <2>4. CASE r = <<>>
    BY <1>1, <2>1, <2>3, <2>4 DEF ArrayTurn
  <2>5. CASE r = <<"is", m_pHead(p).size>>
    BY <1>1, <2>1, <2>2, <2>5 DEF ArrayTurn
  <2>6. CASE r = <<"overflow", op[p].arg>> /\ op[p].arg \in Index /\ op[p].arg >= m_pHead(p).size
    BY <1>1, <2>1, <2>2, <2>6 DEF ArrayTurn
  <2>7. CASE /\ op[p].arg \in Index /\ op[p].arg < m_pHead(p).size
             /\ \/ ACells[op[p].arg] = <<>> /\ r = <<"unset", op[p].arg>>
                \/ ACells[op[p].arg] # <<>> /\ r = <<"value", op[p].arg, ACells[op[p].arg]>>
    <3>1. \E i \in Index : /\ i < ALength
                           /\ \/ ACells[i] = <<>> /\ r = <<"unset", i>>
                              \/ ACells[i] # <<>> /\ r = <<"value", i, ACells[i]>>
      BY <2>2, <2>7
    <3> QED BY <1>1, <2>1, <3>1, ZenonT(30) DEF ArrayTurn
  <2> QED BY <1>3, <2>4, <2>5, <2>6, <2>7
<1> QED BY <1>2, <1>3

LEMMA NotMidway ==
  ASSUME NEW p \in Proc
  PROVE  /\ pc[p] \notin HalfSet => ~Midway(p)
         /\ pc'[p] \notin HalfSet => ~Midway(p)'
BY DEF Midway

LEMMA ArrayReadTurn ==
  ASSUME Guarded, SegInv, ArrayInv, Guarded', SegInv', ArrayInv', IsArray, Rooms,
         NEW p \in Proc, Still(p), Reads(p)
  PROVE  ArrayTurn
<1>d. /\ DOMAIN pc = Proc /\ DOMAIN op = Proc /\ DOMAIN seg = Proc /\ DOMAIN ret = Proc
      /\ DOMAIN op[p] = {"call", "arg", "v"}
  BY DEF Guarded, ControlInv, Domains, SegInv
<1>u. Uses(p) /\ ArrayAt(p) /\ Control(p) /\ CellOf(p)
  BY OwnCellsHold DEF SegInv, ArrayInv, Guarded, ControlInv, OwnCells
<1>m. pc[p] \notin HalfSet /\ pc'[p] \notin HalfSet /\ ~Midway(p) /\ ~Midway(p)'
      /\ UNCHANGED <<setup, shm>>
  <2>1. pc[p] \notin HalfSet /\ pc'[p] \notin HalfSet /\ UNCHANGED <<setup, shm>>
    BY <1>d DEF Reads, SemGet, SemInit, Acquire, ArrayCall, InitAttach, InitRemove, InitFail, UnLock,
       ArrayFound, RWFound, Overflow, Length, RWIndex, GetUnset, GetData, RWReturn, InitCall,
       Enter, Quiet, In, Go, HalfSet, First, Last, Begin, Leave
  <2> QED BY <2>1, NotMidway
<1>1. CASE UNCHANGED ret /\ (UNCHANGED seg \/ ret[p] = <<>>)
  <2>1. UNCHANGED <<ALength, ACells, AMemory>>
    BY <1>m, ArrayStays
  <2> QED BY <1>1, <1>m, <2>1, AUsersSame DEF ArrayTurn
<1>2. CASE UnLock(p) \/ RWReturn(p)
  <2>1. Return(p, <<>>) /\ UNCHANGED seg
    BY <1>2 DEF UnLock, RWReturn, Quiet
  <2> QED BY <1>m, <2>1, ArrayAnswers
<1>s. op[p].call \in CellCalls => op[p].arg \in Index /\ op[p].arg \in Nat
  BY <1>u DEF ArrayAt, Uses
<1>3. CASE Overflow(p) \/ Length(p)
  <2>1. PICK r : /\ Return(p, r) /\ UNCHANGED seg
                 /\ \/ r = <<"is", m_pHead(p).size>>
                    \/ r = <<"overflow", op[p].arg>> /\ op[p].arg \in Index /\ op[p].arg >= m_pHead(p).size
    BY <1>3, <1>s DEF Overflow, Length, Quiet, CellCalls
  <2> QED BY <1>m, <2>1, ArrayAnswers
<1>4. CASE GetUnset(p) \/ (GetData(p) /\ ~UNCHANGED ret)
  <2>1. /\ op[p].call = "get" /\ UNCHANGED seg /\ pc[p] \in {Begin, "gethalf"}
        /\ pc[p] = Begin => Inside(p)
        /\ \/ Cell(p).flag # 1 /\ Return(p, <<"unset", op[p].arg>>)
           \/ /\ pc[p] = "gethalf"
              /\ Return(p, <<"value", op[p].arg, <<op[p].v, Cell(p).data[2]>> >>)
    BY <1>4, <1>d DEF GetUnset, GetData, In, Go, Quiet, Begin
  <2>2. InCell(p)
    BY <2>1 DEF InCell, Begin, CellCalls, IsArray
  <2>3. op[p].arg \in Index /\ op[p].arg < m_pHead(p).size
    <3>1. CASE pc[p] = "gethalf" \/ kind = "rwarray"
      <4>1. pc[p] \in Past
        BY <2>1, <3>1 DEF Past, Begin
      <4> QED BY <2>1, <4>1, <1>u, <1>s DEF ArrayAt, CellCalls
    <3>2. CASE kind = "array" /\ pc[p] = Begin
      BY <2>1, <3>2, <1>s DEF Inside, CellCalls
    <3> QED BY <2>1, <3>1, <3>2 DEF IsArray
  <2>4. CASE seg[p] # 1
    <3>1. PICK r : Return(p, r)
      BY <2>1
    <3> QED BY <1>m, <2>1, <2>4, <3>1, ArrayAnswers
  <2>5. CASE seg[p] = 1
    <3>1. /\ Cell(p) \in [flag : {0, 1}, data : Half \X Half]
          /\ ACells[op[p].arg] = IF Cell(p).flag = 1 THEN Cell(p).data ELSE <<>>
      BY <1>m, <1>u, <2>2, <2>3, <2>5 DEF CellOf
    <3>2. CASE Cell(p).flag # 1 /\ Return(p, <<"unset", op[p].arg>>)
      <4>1. ACells[op[p].arg] = <<>>
        BY <3>1, <3>2
      <4> QED BY <1>m, <2>1, <2>3, <2>5, <3>2, <4>1, ArrayAnswers
    <3>3. CASE /\ pc[p] = "gethalf"
               /\ Return(p, <<"value", op[p].arg, <<op[p].v, Cell(p).data[2]>> >>)
      <4>1. Cell(p).flag = 1 /\ Cell(p).data[1] = op[p].v
        BY <3>3, <1>u DEF ArrayAt
      <4>2. Cell(p).data = <<op[p].v, Cell(p).data[2]>> /\ Cell(p).data # <<>>
        BY <3>1, <4>1
      <4>3. ACells[op[p].arg] # <<>> /\ Return(p, <<"value", op[p].arg, ACells[op[p].arg]>>)
        BY <3>1, <3>3, <4>1, <4>2
      <4> QED BY <1>m, <2>1, <2>3, <2>5, <4>3, ArrayAnswers
    <3> QED BY <2>1, <3>2, <3>3
  <2> QED BY <2>4, <2>5
<1>5. ASSUME \/ SemGet(p) \/ SemInit(p) \/ Acquire(p) \/ ArrayCall(p) \/ InitAttach(p) \/ InitRemove(p)
             \/ InitFail(p) \/ ArrayFound(p) \/ RWFound(p) \/ RWIndex(p)
             \/ \E n \in setup.sizes : InitCall(p, n)
      PROVE  UNCHANGED ret /\ (UNCHANGED seg \/ ret[p] = <<>>)
  BY <1>5, <1>u DEF SemGet, SemInit, Acquire, ArrayCall, InitAttach, InitRemove, InitFail,
     ArrayFound, RWFound, RWIndex, InitCall, Enter, Quiet, In, Uses
<1>6. GetData(p) => UNCHANGED seg
  BY DEF GetData, Quiet
<1> QED BY <1>1, <1>2, <1>3, <1>4, <1>5, <1>6 DEF Reads

LEMMA ArrayLockTurn ==
  ASSUME Guarded, SegInv, ArrayInv, Guarded', SegInv', ArrayInv', IsArray, Rooms,
         NEW p \in Proc, RWLock(p) \/ (RWReturn(p) /\ pc[p] = "rwleave")
  PROVE  ArrayTurn
<1>d. DOMAIN pc = Proc
  BY DEF Guarded, ControlInv, Domains
<1>1. /\ Still(p) /\ UNCHANGED <<setup, seg>> /\ Len(shm') = Len(shm)
      /\ \A s \in 1 .. Len(shm) : shm'[s].head = shm[s].head /\ shm'[s].nodes = shm[s].nodes
  BY ArrayLockInv
<1>2. ~Midway(p) /\ ~Midway(p)' /\ (UNCHANGED ret \/ Return(p, <<>>))
  BY <1>d DEF RWLock, RWReturn, Go, Midway, HalfSet
<1>3. CASE UNCHANGED ret
  <2>1. UNCHANGED <<ALength, ACells, AMemory>>
    BY <1>1, <1>2, ArrayStays
  <2> QED BY <1>1, <1>3, <2>1, AUsersSame DEF ArrayTurn
<1>4. CASE Return(p, <<>>)
  BY <1>1, <1>2, <1>4, ArrayAnswers
<1> QED BY <1>2, <1>3, <1>4

LEMMA ArrayHeadTurn ==
  ASSUME Guarded, SegInv, ArrayInv, Guarded', SegInv', ArrayInv', IsArray, Rooms,
         NEW p \in Proc, ArrayHead(p) \/ RWHead(p) \/ RWLocks(p)
  PROVE  ArrayTurn
<1>d. DOMAIN pc = Proc
  BY DEF Guarded, ControlInv, Domains
<1>1. /\ Still(p) /\ pc[p] \in Making
      /\ UNCHANGED <<setup, seg, op, ret>> /\ Len(shm') = Len(shm)
      /\ \A s \in 1 .. Len(shm) : s # seg[p] => shm'[s] = shm[s]
      /\ shm'[seg[p]].nodes = shm[seg[p]].nodes
      /\ shm'[seg[p]].head.size \in {0, op[p].arg}
  BY ArrayHeadInv
<1>2. pc'[p] \notin HalfSet /\ pc[p] \notin HalfSet
  BY <1>d, <1>1 DEF ArrayHead, RWHead, RWLocks, InitStore, In, Go, HalfSet, Making
<1>3. ArrayView /\ ArrayView' /\ IsArray'
  BY <1>1, ArrayViews, ArrayViewsNext DEF IsArray, kind
<1>4. Len(shm) \in Nat /\ seg[p] \in 1 .. Len(shm) /\ m_pHead(p).size = 0
  BY <1>1 DEF SegInv, Shape, Uses, HeadPcs, Making, ArrayInv, ArrayAt
<1>5. ASSUME NEW i \in Index PROVE ACells'[i] = ACells[i] /\ AMemory'[i] = AMemory[i]
  <2>1. p \notin Setting(1, i) /\ p \notin Setting(1, i)'
    BY <1>2 DEF Setting, HalfSet
  <2>2. shm'[1].nodes = shm[1].nodes
    BY <1>1, <1>4
  <2> QED BY <1>1, <1>4, <2>1, <2>2, CellSame
<1>6. ACells' = ACells /\ AMemory' = AMemory
  <2>1. ACells = [i \in Index |-> ACells[i]] /\ ACells' = [i \in Index |-> ACells'[i]]
    BY DEF ACells, Cells
  <2>2. AMemory = [i \in Index |-> AMemory[i]] /\ AMemory' = [i \in Index |-> AMemory'[i]]
    BY DEF AMemory, Kept
  <2> QED BY <1>5, <2>1, <2>2
<1>7. AUsers' = AUsers
  BY <1>1, AUsersSame
<1>8. ALength' = ALength \/ (ALength = 0 /\ ALength' # 0)
  <2>1. Len(shm) # 0 /\ Len(shm') # 0
    BY <1>1, <1>4
  <2>2. ALength = shm[1].head.size /\ ALength' = shm'[1].head.size
    BY <1>3, <2>1 DEF ArrayView
  <2>3. CASE seg[p] = 1
    BY <1>4, <2>2, <2>3 DEF m_pHead
  <2>4. CASE seg[p] # 1
    BY <1>1, <1>4, <2>1, <2>2, <2>4
  <2> QED BY <2>3, <2>4
<1> QED BY <1>6, <1>7, <1>8 DEF ArrayTurn

LEMMA ArrayMadeTurn ==
  ASSUME Guarded, SegInv, ArrayInv, Guarded', SegInv', ArrayInv', IsArray, Rooms,
         NEW p \in Proc, InitCreate(p) \/ InitLost(p)
  PROVE  ArrayTurn
<1>1. /\ Still(p) /\ UNCHANGED <<setup, op, ret>> /\ ret[p] = <<>>
      /\ op[p].call = "init" /\ pc'[p] \in {"made", "leave"}
      /\ Len(shm') = Len(shm) + 1
      /\ \A s \in 1 .. Len(shm) : shm'[s] = shm[s]
      /\ \A s : s = Len(shm') =>
              /\ shm'[s].head.size = 0
              /\ \A i \in 0 .. Room(s)' - 1 : shm'[s].nodes[i] = [flag |-> 0, data |-> <<"zero", "zero">>]
  BY ArrayMadeInv
<1>2. pc'[p] \notin HalfSet /\ pc[p] \notin HalfSet
  BY <1>1 DEF InitCreate, InitLost, Creates, In, Go, HalfSet
<1>3. ArrayView /\ ArrayView' /\ IsArray'
  BY <1>1, ArrayViews, ArrayViewsNext DEF IsArray, kind
<1>4. Len(shm) \in Nat
  BY DEF SegInv, Shape
<1>5. ASSUME NEW i \in Index PROVE ACells'[i] = ACells[i] /\ AMemory'[i] = AMemory[i]
  <2>1. p \notin Setting(1, i) /\ p \notin Setting(1, i)'
    BY <1>2 DEF Setting, HalfSet
  <2>2. Len(shm) # 0 => Len(shm') # 0 /\ shm'[1].nodes = shm[1].nodes
    BY <1>1, <1>4
  <2>3. Len(shm) = 0 =>
          \A j \in 0 .. Room(1)' - 1 : shm'[1].nodes[j] = [flag |-> 0, data |-> <<"zero", "zero">>]
    BY <1>1, <1>4
  <2> QED BY <1>1, <2>1, <2>2, <2>3, CellSame
<1>6. ACells' = ACells /\ AMemory' = AMemory
  <2>1. ACells = [i \in Index |-> ACells[i]] /\ ACells' = [i \in Index |-> ACells'[i]]
    BY DEF ACells, Cells
  <2>2. AMemory = [i \in Index |-> AMemory[i]] /\ AMemory' = [i \in Index |-> AMemory'[i]]
    BY DEF AMemory, Kept
  <2> QED BY <1>5, <2>1, <2>2
<1>7. AUsers' = AUsers
  BY <1>1, AUsersSame
<1>8. ALength' = ALength
  <2>1. Len(shm') # 0
    BY <1>1, <1>4
  <2>2. CASE Len(shm) = 0
    BY <1>1, <1>3, <2>1, <2>2 DEF ArrayView
  <2>3. CASE Len(shm) # 0
    <3>1. shm'[1] = shm[1]
      BY <1>1, <1>4, <2>3
    <3> QED BY <1>3, <2>1, <2>3, <3>1 DEF ArrayView
  <2> QED BY <2>2, <2>3
<1> QED BY <1>6, <1>7, <1>8 DEF ArrayTurn

(* A store to a cell.                                                      *)
LEMMA ArrayCellTurn ==
  ASSUME Guarded, SegInv, ArrayInv, Guarded', SegInv', ArrayInv', IsArray, Rooms,
         NEW p \in Proc, SetFlag(p) \/ SetData(p) \/ Delete(p)
  PROVE  ArrayTurn
<1> DEFINE i == op[p].arg
<1> DEFINE d == shm'[seg[p]].nodes[i]
<1>1. /\ Still(p) /\ UNCHANGED <<setup, seg, op>>
      /\ InCell(p) /\ i \in Index /\ i < m_pHead(p).size
      /\ seg[p] \in 1 .. Len(shm) /\ Len(shm') = Len(shm)
      /\ \A s \in 1 .. Len(shm) : s # seg[p] => shm'[s] = shm[s]
      /\ shm'[seg[p]].head = shm[seg[p]].head
      /\ \A j \in 0 .. Room(seg[p]) - 1 : j # i => shm'[seg[p]].nodes[j] = shm[seg[p]].nodes[j]
      /\ CellStored(p)
  BY ArrayCellStores
<1>d. DOMAIN ret = Proc /\ kind' = kind /\ IsArray' /\ ArrayView /\ ArrayView'
  BY <1>1, ArrayViews, ArrayViewsNext DEF SegInv, IsArray, kind
<1>l. Len(shm) \in Nat /\ Len(shm) # 0 /\ Len(shm') # 0 /\ 1 \in 1 .. Len(shm)
  BY <1>1 DEF SegInv, Shape
<1>r. (\E r : Return(p, r)) \/ UNCHANGED ret
  BY <1>1 DEF CellStored
<1>2. ALength' = ALength
  <2>1. shm'[1].head = shm[1].head
    BY <1>1, <1>l
  <2> QED BY <1>d, <1>l, <2>1 DEF ArrayView
<1>c. /\ ACells = [j \in Index |-> ACells[j]] /\ ACells' = [j \in Index |-> ACells'[j]]
      /\ AMemory = [j \in Index |-> AMemory[j]] /\ AMemory' = [j \in Index |-> AMemory'[j]]
  <2>1. ACells = [j \in Index |-> ACells[j]] /\ ACells' = [j \in Index |-> ACells'[j]]
    BY DEF ACells, Cells
  <2>2. AMemory = [j \in Index |-> AMemory[j]] /\ AMemory' = [j \in Index |-> AMemory'[j]]
    BY DEF AMemory, Kept
  <2> QED BY <2>1, <2>2
<1>3. CASE seg[p] # 1
  <2>1. ASSUME NEW j \in Index PROVE ACells'[j] = ACells[j] /\ AMemory'[j] = AMemory[j]
    <3>1. p \notin Setting(1, j) /\ p \notin Setting(1, j)'
      BY <1>1, <1>3 DEF Setting
    <3>2. shm'[1] = shm[1]
      BY <1>1, <1>3, <1>l
    <3> QED BY <1>1, <1>l, <3>1, <3>2, CellSame
  <2>2. ACells' = ACells /\ AMemory' = AMemory
    BY <1>c, <2>1
  <2>3. AUsers' = AUsers
    BY <1>1, <1>r, <1>3, AUsersReturn, AUsersSame
  <2> QED BY <1>2, <2>2, <2>3 DEF ArrayTurn
<1>4. CASE seg[p] = 1
  <2>1. ASSUME NEW j \in Index, j # i PROVE ACells'[j] = ACells[j] /\ AMemory'[j] = AMemory[j]
    <3>1. p \notin Setting(1, j) /\ p \notin Setting(1, j)'
      BY <1>1, <2>1 DEF Setting
    <3> QED BY <1>1, <1>4, <1>l, <2>1, <3>1, CellSame
  <2>h. /\ m_pHead(p)' = m_pHead(p) /\ Cell(p)' = d /\ op'[p] = op[p] /\ seg'[p] = 1
    BY <1>1, <1>4 DEF m_pHead, Cell, m_Nodes
  <2>p. Leave \in {"leave", "rwleave"} /\ Begin \in {"begin", "rwbegin"} /\ (kind = "array" => Leave = "leave")
        /\ (kind # "array" => Leave = "rwleave")
    BY DEF Leave, Begin
  <2>i. InCell(p)'
    <3>1. pc'[p] \in HalfSet \cup {Leave}
      BY <1>1 DEF CellStored, HalfSet
    <3> QED BY <1>1, <1>d, <2>h, <2>p, <3>1 DEF InCell, HalfSet
  <2>o. CellOf(p) /\ CellOf(p)'
    BY <1>d, OwnCellsHold, OwnCellsNext DEF OwnCells
  <2>2. /\ ALength = m_pHead(p).size /\ Cell(p) \in [flag : {0, 1}, data : Half \X Half]
        /\ AMemory[i] = Cell(p).data
        /\ pc[p] \in HalfSet => Cell(p).flag = 1 /\ ACells[i] = <<op[p].v, op[p].v>>
        /\ pc[p] \notin HalfSet => ACells[i] = IF Cell(p).flag = 1 THEN Cell(p).data ELSE <<>>
    BY <1>1, <1>4, <2>o DEF CellOf
  <2>3. /\ AMemory'[i] = d.data
        /\ pc'[p] \in HalfSet => ACells'[i] = <<op[p].v, op[p].v>>
        /\ pc'[p] \notin HalfSet => ACells'[i] = IF d.flag = 1 THEN d.data ELSE <<>>
    BY <1>1, <2>h, <2>i, <2>o DEF CellOf
  <2>a. ArrayAt(p) /\ Uses(p)
    BY DEF ArrayInv, SegInv
  <2>e. ASSUME NEW h \in {1, 2}, NEW x, Cell(p).data \in Half \X Half,
               AMemory'[i] = (IF h = 1 THEN <<x, Cell(p).data[2]>> ELSE <<Cell(p).data[1], x>>)
        PROVE  AMemory' = [AMemory EXCEPT ![i][h] = x]
    <3>1. [Cell(p).data EXCEPT ![h] = x] = AMemory'[i]
      BY <2>e
    <3>2. AMemory' = [j \in Index |-> IF j = i THEN [AMemory[i] EXCEPT ![h] = x] ELSE AMemory[j]]
      <4>1. \A j \in Index : AMemory'[j] = IF j = i THEN [AMemory[i] EXCEPT ![h] = x] ELSE AMemory[j]
        BY <2>1, <2>2, <3>1
      <4> QED BY <1>c, <4>1
    <3> QED BY <1>c, <3>2
  <2>f. ASSUME NEW x, ACells'[i] = x PROVE ACells' = [ACells EXCEPT ![i] = x]
    <3>1. \A j \in Index : ACells'[j] = IF j = i THEN x ELSE ACells[j]
      BY <2>1, <2>f
    <3> QED BY <1>c, <3>1
  <2>u. ASSUME NEW r, Return(p, r) PROVE AUsers' = [AUsers EXCEPT ![p] = r]
    BY <1>1, <1>4, <2>u, AUsersReturn
  <2>w. UNCHANGED ret => AUsers' = AUsers
    BY <1>1, AUsersSame
  <2>n. <<op[p].v, op[p].v>> # <<>>
    OBVIOUS
  <2>s. ASSUME pc[p] \in HalfSet PROVE AUsers[p] = <<"set", i>>
    BY <2>a, <2>s, <1>4, AUsersIs DEF ArrayAt
  <2>4. CASE /\ pc[p] = Begin /\ pc'[p] = "flagged" /\ op[p].call = "set"
             /\ d.flag = 1 /\ d.data = Cell(p).data /\ Return(p, <<"set", i>>)
    <3>1. ACells' = [ACells EXCEPT ![i] = <<op[p].v, op[p].v>>]
      BY <2>3, <2>4, <2>f DEF HalfSet
    <3>2. AMemory' = AMemory
      <4>1. \A j \in Index : AMemory'[j] = AMemory[j]
        BY <2>1, <2>2, <2>3, <2>4
      <4> QED BY <1>c, <4>1
    <3>3. op[p].v \in Item /\ AUsers' = [AUsers EXCEPT ![p] = <<"set", i>>]
      BY <2>4, <2>a, <2>u DEF Uses
    <3>4. i < ALength
      BY <1>1, <2>2
    <3> HIDE DEF i
    <3> QED BY <1>1, <1>2, <3>1, <3>2, <3>3, <3>4 DEF ArrayTurn
  <2>5. CASE /\ pc[p] = "flagged" /\ pc'[p] = "half" /\ op[p].call = "set" /\ UNCHANGED ret
             /\ d.flag = Cell(p).flag /\ d.data = <<op[p].v, Cell(p).data[2]>>
    <3>1. ACells[i] = <<op[p].v, op[p].v>> /\ ACells'[i] = ACells[i] /\ AUsers[p] = <<"set", i>>
      BY <2>2, <2>3, <2>5, <2>s DEF HalfSet
    <3>2. ACells' = ACells
      <4>1. \A j \in Index : ACells'[j] = ACells[j]
        BY <2>1, <3>1
      <4> QED BY <1>c, <4>1
    <3>3. AMemory' = [AMemory EXCEPT ![i][1] = op[p].v]
      BY <2>2, <2>3, <2>5, <2>e
    <3>4. ACells[i][1] = op[p].v /\ ACells[i] # <<>>
      BY <3>1, <2>n
    <3> HIDE DEF i
    <3> QED BY <1>1, <1>2, <2>5, <2>w, <3>1, <3>2, <3>3, <3>4 DEF ArrayTurn
  <2>6. CASE /\ pc[p] = "half" /\ pc'[p] = Leave /\ op[p].call = "set" /\ UNCHANGED ret
             /\ d.flag = Cell(p).flag /\ d.data = <<Cell(p).data[1], op[p].v>>
    <3>1. ACells[i] = <<op[p].v, op[p].v>> /\ d.flag = 1 /\ AUsers[p] = <<"set", i>>
      BY <2>2, <2>6, <2>s DEF HalfSet
    <3>0. ACells'[i] = ACells[i]
      <4>1. d.data = <<op[p].v, op[p].v>>
        BY <2>6, <2>a DEF ArrayAt
      <4>2. pc'[p] \notin HalfSet
        BY <2>6, <2>p DEF HalfSet
      <4> HIDE DEF d
      <4> QED BY <2>3, <3>1, <4>1, <4>2
    <3>2. ACells' = ACells
      <4>1. \A j \in Index : ACells'[j] = ACells[j]
        BY <2>1, <3>0
      <4> QED BY <1>c, <4>1
    <3>3. AMemory' = [AMemory EXCEPT ![i][2] = op[p].v]
      <4>1. AMemory'[i] = <<Cell(p).data[1], op[p].v>>
        BY <2>3, <2>6
      <4>2. Cell(p).data \in Half \X Half
        BY <2>2
      <4> HIDE DEF i
      <4> QED BY <4>1, <4>2, <2>e
    <3>4. ACells[i][2] = op[p].v /\ ACells[i] # <<>>
      BY <3>1, <2>n
    <3> HIDE DEF i
    <3> QED BY <1>1, <1>2, <2>6, <2>w, <3>1, <3>2, <3>3, <3>4 DEF ArrayTurn
  <2>7. CASE /\ pc[p] = Begin /\ pc'[p] = Leave /\ op[p].call = "delete"
             /\ d.flag = 0 /\ d.data = Cell(p).data /\ Return(p, <<"deleted", i>>)
    <3>1. ACells' = [ACells EXCEPT ![i] = <<>>]
      <4>1. pc'[p] \notin HalfSet
        BY <2>7, <2>p DEF HalfSet
      <4>2. ACells'[i] = <<>>
        BY <2>3, <2>7, <4>1
      <4> QED BY <4>2, <2>f
    <3>2. AMemory' = AMemory
      <4>1. \A j \in Index : AMemory'[j] = AMemory[j]
        BY <2>1, <2>2, <2>3, <2>7
      <4> QED BY <1>c, <4>1
    <3>3. AUsers' = [AUsers EXCEPT ![p] = <<"deleted", i>>]
      BY <2>7, <2>u
    <3>4. i < ALength
      BY <1>1, <2>2
    <3> HIDE DEF i
    <3> QED BY <1>1, <1>2, <3>1, <3>2, <3>3, <3>4 DEF ArrayTurn
  <2> QED BY <1>1, <2>4, <2>5, <2>6, <2>7 DEF CellStored
<1> QED BY <1>3, <1>4

(* A death, which leaves no more than the cell half set.                   *)
LEMMA ArrayExitTurn ==
  ASSUME Guarded, SegInv, ArrayInv, Guarded', SegInv', ArrayInv', IsArray, Rooms,
         NEW p \in Proc, Exit(p)
  PROVE  ArrayTurn
<1>1. /\ Still(p) /\ UNCHANGED setup /\ Len(shm') = Len(shm)
      /\ \A s \in 1 .. Len(shm) : shm'[s].head = shm[s].head /\ shm'[s].nodes = shm[s].nodes
      /\ pc'[p] = "new" /\ ret'[p] = <<>> /\ seg'[p] = 0
  BY ArrayExitInv
<1>d. IsArray' /\ kind' = kind /\ ArrayView /\ ArrayView' /\ DOMAIN ret' = Proc /\ DOMAIN seg' = Proc
  BY <1>1, ArrayViews, ArrayViewsNext DEF SegInv, IsArray, kind
<1>2. AUsers' = [AUsers EXCEPT ![p] = <<>>]
  <2>1. ASSUME NEW q \in Proc
        PROVE  (IF seg'[q] = 1 THEN ret'[q] ELSE <<>>)
                 = IF q = p THEN <<>> ELSE IF seg[q] = 1 THEN ret[q] ELSE <<>>
    BY <1>1 DEF Still
  <2> QED BY <1>d, <2>1 DEF AUsers, Results
<1>3. CASE ~Midway(p)
  <2>1. UNCHANGED <<ALength, ACells, AMemory>>
    BY <1>1, <1>3, ArrayStays DEF Midway
  <2>2. \A i \in Index : AUsers[p] = <<"set", i>> => AMemory[i] = ACells[i]
    BY <1>3, SetDone
  <2> QED BY <1>2, <2>1, <2>2 DEF ArrayTurn
<1>4. CASE Midway(p)
  <2>i. PICK i : i = op[p].arg
    OBVIOUS
  <2>u. Uses(p) /\ ArrayAt(p) /\ CellOf(p)
    BY OwnCellsHold DEF SegInv, ArrayInv, OwnCells
  <2>1. /\ InCell(p) /\ seg[p] = 1 /\ i \in Index /\ i < m_pHead(p).size /\ pc[p] \in HalfSet
        /\ ret[p] = <<"set", i>>
    BY <1>4, <2>i, <2>u DEF Midway, ArrayAt, Past, HalfSet, InCell
  <2>2. AUsers[p] = <<"set", i>>
    BY <2>1, AUsersIs
  <2>3. /\ Len(shm) # 0 /\ i \in 0 .. Room(1) - 1 /\ AMemory[i] = Cell(p).data /\ Cell(p).flag = 1
        /\ Cell(p) = shm[1].nodes[i]
    BY <2>i, <2>1, <2>u DEF CellOf, Cell, m_Nodes
  <2>l. 1 \in 1 .. Len(shm) /\ shm'[1].head = shm[1].head /\ shm'[1].nodes = shm[1].nodes
        /\ Room(1)' = Room(1) /\ Len(shm') # 0
    BY <1>1, <2>3 DEF SegInv, Shape, Rooms
  <2>4. ALength' = ALength
    BY <1>d, <2>3, <2>l DEF ArrayView
  <2>5. ASSUME NEW j \in Index, j # i PROVE ACells'[j] = ACells[j] /\ AMemory'[j] = AMemory[j]
    <3>1. p \notin Setting(1, j) /\ p \notin Setting(1, j)'
      BY <1>1, <2>i, <2>5 DEF Setting
    <3> QED BY <1>1, <2>l, <2>3, <3>1, CellSame
  <2>6. Setting(1, i)' = {}
    <3>1. ASSUME NEW q \in Proc, q \in Setting(1, i)' PROVE FALSE
      <4>1. q # p /\ seg[q] = 1 /\ pc[q] \in HalfSet /\ op[q].arg = i
        <5>1. seg'[q] = 1 /\ pc'[q] \in HalfSet /\ op'[q].arg = i
          BY <3>1 DEF Setting, HalfSet
        <5> QED BY <1>1, <5>1 DEF Still
      <4>2. InCell(q)
        BY <4>1 DEF ArrayInv, ArrayAt, Past, InCell, HalfSet
      <4> QED BY <2>i, <2>1, <4>1, <4>2, ArrayAlone
    <3> QED BY <3>1 DEF Setting
  <2>7. ACells'[i] = AMemory[i] /\ AMemory'[i] = AMemory[i]
    <3>1. ACells'[i] = shm'[1].nodes[i].data /\ AMemory'[i] = shm'[1].nodes[i].data
      BY <1>d, <2>1, <2>l, <2>3, <2>6 DEF ArrayView
    <3> QED BY <2>3, <2>l, <3>1
  <2>c. /\ ACells = [j \in Index |-> ACells[j]] /\ ACells' = [j \in Index |-> ACells'[j]]
        /\ AMemory = [j \in Index |-> AMemory[j]] /\ AMemory' = [j \in Index |-> AMemory'[j]]
    <3>1. ACells = [j \in Index |-> ACells[j]] /\ ACells' = [j \in Index |-> ACells'[j]]
      BY DEF ACells, Cells
    <3>2. AMemory = [j \in Index |-> AMemory[j]] /\ AMemory' = [j \in Index |-> AMemory'[j]]
      BY DEF AMemory, Kept
    <3> QED BY <3>1, <3>2
  <2>8. ACells' = [ACells EXCEPT ![i] = AMemory[i]] /\ AMemory' = AMemory
    <3>1. \A j \in Index : /\ ACells'[j] = IF j = i THEN AMemory[i] ELSE ACells[j]
                           /\ AMemory'[j] = AMemory[j]
      BY <2>5, <2>7
    <3> QED BY <2>c, <3>1
  <2> QED BY <1>2, <2>1, <2>2, <2>4, <2>8 DEF ArrayTurn
<1> QED BY <1>3, <1>4

AGoal == ArrayInv' /\ ArrayTurn

LEMMA ArrayUnmoved ==
  ASSUME UNCHANGED vars
  PROVE  UNCHANGED <<ALength, ACells, AMemory, AUsers>>
<1>1. UNCHANGED <<setup, shm, seg, pc, op, ret>> /\ kind' = kind
  BY DEF vars, kind
<1>2. UNCHANGED <<ALength, AUsers>>
  BY <1>1 DEF ALength, AUsers, Nodes, Results
<1>3. UNCHANGED AMemory
  BY <1>1 DEF AMemory, Kept, Room
<1>4. UNCHANGED ACells
  <2>1. ASSUME NEW i PROVE Setting(1, i)' = Setting(1, i)
    BY <1>1 DEF Setting
  <2>2. Room(1)' = Room(1)
    BY <1>1 DEF Room
  <2>3. ASSUME NEW i \in Index PROVE ACells'[i] = ACells[i]
    <3> DEFINE c == CHOOSE p \in Setting(1, i) : TRUE
    <3>1. c' = c
      BY <2>1
    <3>2. ACells[i] = IF 1 > Len(shm) \/ i >= Room(1) \/ shm[1].nodes[i].flag # 1 THEN <<>>
                      ELSE IF Setting(1, i) = {} THEN shm[1].nodes[i].data
                      ELSE <<op[c].v, op[c].v>>
      BY DEF ACells, Cells
    <3>3. ACells'[i] = IF 1 > Len(shm') \/ i >= Room(1)' \/ shm'[1].nodes[i].flag # 1 THEN <<>>
                       ELSE IF Setting(1, i)' = {} THEN shm'[1].nodes[i].data
                       ELSE <<op'[c'].v, op'[c'].v>>
      BY DEF ACells, Cells
    <3> HIDE DEF c
    <3> QED BY <1>1, <2>1, <2>2, <3>1, <3>2, <3>3
  <2>4. ACells = [j \in Index |-> ACells[j]] /\ ACells' = [j \in Index |-> ACells'[j]]
    BY DEF ACells, Cells
  <2> QED BY <2>3, <2>4
<1> QED BY <1>2, <1>3, <1>4

LEMMA ArraySteps ==
  ASSUME Guarded, Guarded', SegInv, SegInv', ArrayInv, IsArray, Rooms, [Next]_vars, kept'
  PROVE  AGoal
<1>1. CASE UNCHANGED vars
  <2>1. ArrayInv'
    <3>1. UNCHANGED <<shm, seg, pc, op, ret>> /\ kind' = kind
      BY <1>1 DEF vars, kind
    <3>2. ASSUME NEW s \in 1 .. Len(shm') PROVE ArraySeg(s)'
      <4>1. ArraySeg(s)
        BY <3>1, <3>2 DEF ArrayInv
      <4> QED BY <3>1, <4>1 DEF ArraySeg, Room
    <3>3. ASSUME NEW p \in Proc PROVE ArrayAt(p)'
      <4>1. ArrayAt(p)
        BY DEF ArrayInv
      <4>2. /\ m_pHead(p)' = m_pHead(p) /\ Cell(p)' = Cell(p) /\ MyLock(p)' = MyLock(p)
            /\ (InCell(p)' <=> InCell(p)) /\ (HasSet(p)' <=> HasSet(p))
        BY <3>1 DEF m_pHead, m_Nodes, Cell, MyLock, InCell, HasSet
      <4> QED BY <3>1, <4>1, <4>2 DEF ArrayAt
    <3> QED BY <3>1, <3>2, <3>3 DEF ArrayInv
  <2>2. UNCHANGED <<ALength, ACells, AMemory, AUsers>>
    BY <1>1, ArrayUnmoved
  <2> QED BY <2>1, <2>2 DEF AGoal, ArrayTurn
<1>2. ASSUME NEW p \in Proc, Reads(p) PROVE AGoal
  BY <1>2, ArrayReadsInv, ArrayReadTurn DEF AGoal
<1>3. ASSUME NEW p \in Proc, RWLock(p) \/ (RWReturn(p) /\ pc[p] = "rwleave") PROVE AGoal
  BY <1>3, ArrayLockInv, ArrayLockTurn DEF AGoal
<1>4. ASSUME NEW p \in Proc, ArrayHead(p) \/ RWHead(p) \/ RWLocks(p) PROVE AGoal
  BY <1>4, ArrayHeadInv, ArrayHeadTurn DEF AGoal
<1>5. ASSUME NEW p \in Proc, InitCreate(p) \/ InitLost(p) PROVE AGoal
  BY <1>5, ArrayMadeInv, ArrayMadeTurn DEF AGoal
<1>6. ASSUME NEW p \in Proc, SetFlag(p) \/ SetData(p) \/ Delete(p) PROVE AGoal
  BY <1>6, ArrayCellInv, ArrayCellTurn DEF AGoal
<1>7. ASSUME NEW p \in Proc, Exit(p) PROVE AGoal
  BY <1>7, ArrayExitInv, ArrayExitTurn DEF AGoal
<1>8. ASSUME NEW p \in Proc, RWReturn(p) PROVE (RWReturn(p) /\ pc[p] = "rwleave") \/ Reads(p)
  BY <1>8 DEF RWReturn, Go, Reads
<1> QED
  BY <1>1, <1>2, <1>3, <1>4, <1>5, <1>6, <1>7, <1>8, ArrayNext
     DEF Guarded, Reads, InitStep, ArrayStep

(* Segments of another class hold no array.                                *)
LEMMA NoArray ==
  ASSUME ~IsArray, UNCHANGED setup
  PROVE  ArrayInv' /\ ~IsArray'
BY DEF ArrayInv, IsArray, kind

ArrayMove == IF IsArray THEN IsArray' /\ ArrayTurn ELSE ~IsArray'

LEMMA ArrayAlways ==
  Spec => [][kept' => ArrayMove]_vars
<1> DEFINE Inv == ControlInv /\ (kept => Guarded /\ SegInv /\ ArrayInv)
<1>1. Init => Inv
  <2>1. Init => Guarded /\ SegInv
    BY InitLock, SegStart DEF Guarded
  <2>2. Init => ArrayInv
    BY DEF Init, ArrayInv, ArrayAt, InCell, Making, Past, HalfSet, CellCalls, NoCall, Asked
  <2> QED BY <2>1, <2>2 DEF Guarded
<1>2. Inv /\ [Next]_vars => Inv' /\ (kept' => ArrayMove)
  <2> SUFFICES ASSUME Inv, [Next]_vars PROVE Inv' /\ (kept' => ArrayMove)
    OBVIOUS
  <2>0. ControlInv'
    BY ControlStep
  <2>1. ASSUME kept' PROVE Guarded' /\ SegInv' /\ ArrayInv' /\ ArrayMove
    <3>0. Guarded /\ SegInv /\ ArrayInv
      BY <2>1, KeptBefore
    <3>1. Guarded' /\ SegInv' /\ Rooms /\ UNCHANGED setup
      BY <2>1, <3>0, GuardedStep, SegStep, Fixed DEF Guarded
    <3>2. CASE IsArray
      <4>1. AGoal /\ IsArray'
        BY <2>1, <3>0, <3>1, <3>2, ArraySteps DEF IsArray, kind
      <4> QED BY <3>1, <3>2, <4>1 DEF AGoal, ArrayMove
    <3>3. CASE ~IsArray
      BY <3>1, <3>3, NoArray DEF ArrayMove
    <3> QED BY <3>2, <3>3
  <2> QED BY <2>0, <2>1
<1> QED BY <1>1, <1>2, PTL DEF Spec

(* As long as the lock's rules are kept, each cell of an array is set, read*)
(* and deleted as a whole, with the semaphore as the lock of all cells and *)
(* with the read-write locks in the segment, and also when processes die   *)
(* in the middle of calls: only a death inside a Set leaves the one cell   *)
(* it was at half set.                                                     *)
THEOREM ArrayWhole == Spec => Whole
<1>1. Init => Array!Init
  BY DEF Init, Array!Init, Nodes, Cells, Kept, Results, IsArray, kind
<1>2. ASSUME IsArray, IsArray', ArrayTurn PROVE [Array!Next]_(Array!vars)
  BY <1>2 DEF ArrayTurn, ALength, ACells, AMemory, AUsers, Array!Next, Array!vars, Array!Make,
     Array!Overflow, Array!Set, Array!Write, Array!Get, Array!Delete, Array!Ask, Array!Done,
     Array!DieInSet, Array!Return
<1>3. ASSUME ~IsArray, ~IsArray' PROVE UNCHANGED Array!vars
  BY <1>3 DEF Array!vars
<1>4. [kept' => ArrayMove]_vars => [kept' => [Array!Next]_(Array!vars)]_vars
  BY <1>2, <1>3 DEF ArrayMove
<1> QED
  BY <1>1, <1>4, ArrayAlways, PTL DEF Spec, Whole
=============================================================================
