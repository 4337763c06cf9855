------------------------------ MODULE ShmStores ------------------------------
(***************************************************************************)
(* The four classes on a shared-memory segment, each used by several       *)
(* processes, and what they promise: each behaviour is one of the class    *)
(* that setup names.                                                        *)
(***************************************************************************)
EXTENDS ShmQueue, ShmStack, ShmArray

Work(p) == InitStep(p) \/ QueueStep(p) \/ StackStep(p) \/ ArrayStep(p)

Next == \E p \in Proc :
  \/ SemGet(p) \/ SemInit(p) \/ Acquire(p) \/ Interrupted(p) \/ RWLock(p) \/ Work(p)
  \/ QueueCall(p) \/ StackCall(p) \/ ArrayCall(p) \/ Die(p)
  \/ \E n \in setup.sizes : InitCall(p, n)

Spec == Init /\ [][Next]_vars

(* A process inside the lock goes on; the kernel serves the semaphore's    *)
(* waiters in turn, and a read-write lock that is free again and again is  *)
(* not withheld from one process for ever.  A process waits for one of the *)
(* two at a time.                                                          *)
FairSpec == Spec /\ \A p \in Proc :
  WF_vars(Work(p)) /\ SF_vars(Acquire(p) \/ RWLock(p))

-----------------------------------------------------------------------------
(* The classes use their semaphore as SemLock has it, the calls of sem_init*)
(* under a holder and the interrupted waits included, so that what SemLock *)
(* says of both kinds of behaviours holds for them.                        *)
LockSpec == Lock!Spec

(* The results of the users of segment s, and its size in nodes.           *)
Results(k, s) == [p \in Proc |-> IF kind = k /\ seg[p] = s THEN ret[p] ELSE <<>>]
Nodes(k, s)   == IF kind = k /\ s \in DOMAIN shm THEN shm[s].head.size ELSE 0

Fifo == INSTANCE FifoQueue
  WITH cap <- IF Nodes("queue", 1) = 0 THEN 0 ELSE Nodes("queue", 1) - 1,
       queue <- IF kind = "queue" THEN Queue(1) ELSE <<>>,
       ret <- Results("queue", 1)

(* As long as the lock's two rules have been kept (no sem_init under a     *)
(* holder, no waiter interrupted by a signal), the processes that use a    *)
(* queue see one FIFO queue of one element less than its nodes: each call  *)
(* takes effect at one store, also when processes die in the middle of     *)
(* others.                                                                 *)
Linearizable == Fifo!Init /\ [][kept' => [Fifo!Next]_(Fifo!vars)]_vars

StackIn(s) == IF kind = "stack" THEN Stack(s) ELSE <<>>
Lifo1 == INSTANCE LifoStack
  WITH cap <- Nodes("stack", 1), stack <- StackIn(1), ret <- Results("stack", 1)
Lifo2 == INSTANCE LifoStack
  WITH cap <- Nodes("stack", 2), stack <- StackIn(2), ret <- Results("stack", 2)

(* The same for a stack, of which no node stays unused, under the same     *)
(* rules.  When its segment is replaced by a larger one, its users go on   *)
(* with it, and the newcomers have a stack of their own.                   *)
IsStack ==
  /\ Lifo1!Init /\ [][kept' => [Lifo1!Next]_(Lifo1!vars)]_vars
  /\ Lifo2!Init /\ [][kept' => [Lifo2!Next]_(Lifo2!vars)]_vars

IsArray == kind \in {"array", "rwarray"}
Array == INSTANCE CellArray
  WITH length <- IF IsArray THEN Nodes(kind, 1) ELSE 0,
       cells <- IF IsArray THEN Cells(1) ELSE [i \in Index |-> <<>>],
       memory <- IF IsArray THEN Kept(1) ELSE [i \in Index |-> <<"zero", "zero">>],
       ret <- IF IsArray THEN Results(kind, 1) ELSE [p \in Proc |-> <<>>]

(* Under the same rules, the cells of an array are read and set as a whole,*)
(* with one lock for all and with one lock for some of them, and a death   *)
(* inside a Set leaves no more than the cell it was at half set.           *)
Whole == Array!Init /\ [][kept' => [Array!Next]_(Array!vars)]_vars

(* Every call returns or its process dies, whoever else dies in the        *)
(* semaphore's lock or enters it without having it; only who dies inside a *)
(* read-write lock keeps it.                                               *)
CallsReturn ==
  \A p \in Proc :
    pc[p] \in {"wait", "rwwait"} ~>
      \/ pc[p] \in {"out", "new"}
      \/ pc[p] = "rwwait" /\ shm[seg[p]].locks[MyLock(p)] = "dead"
=============================================================================
