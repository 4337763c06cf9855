------------------------------ MODULE ShmSegment -----------------------------
(***************************************************************************)
(* What CShmQueue, CShmStack, CShmArray and CShmRWArray (system/shm_*.h)   *)
(* have in common: a header and nodes in a shared-memory segment, made or  *)
(* attached by Init while it holds the semaphore of SemLock.  A process    *)
(* can die between any two stores, so every store to the segment is a      *)
(* step.  CSVShm::force_open_and_attach replaces a segment that is too     *)
(* small by a larger one; who has attached the old one goes on using it.   *)
(***************************************************************************)
EXTENDS Integers, FiniteSets, Sequences

CONSTANTS
  Proc,       \* the processes
  Item,       \* what is stored
  Setups,     \* the classes looked at, each with the items that are stored and
              \* the sizes, counted in nodes, that Init is called with
  LockNum,    \* rwlock_num, the same for all processes
  Faults,     \* a process may die or be interrupted by a signal, and its
              \* shmget and shmat may fail
  SizeMax,    \* the largest size_t
  MaxSegs     \* bound: how many segments are created

ASSUME SegmentAssumption ==
  /\ Setups \subseteq [kind : {"queue", "stack", "array", "rwarray"},
                      items : SUBSET Item, sizes : SUBSET (1 .. SizeMax)]
  /\ LockNum \in Nat \ {0}
  /\ SizeMax \in Nat
  /\ Faults \in BOOLEAN
  /\ MaxSegs \in Nat

VARIABLES
  setup,  \* the setup that is looked at; it does not change
  semval, semadj, kept,   \* the semaphore and its rules (see SemLock)
  key,    \* the segment the IPC key names; 0: none
  shm,    \* header, nodes and read-write locks of the segments, in the order
          \* of their creation
  seg,    \* seg[p]: the segment p has attached; 0: none
  pc,     \* pc[p]: where p is in a call
  op,     \* op[p]: p's call, its argument and its local variable
  ret     \* ret[p]: the result of p's call, until the call returns it

vars == <<setup, semval, semadj, kept, key, shm, seg, pc, op, ret>>
lockVars == <<semval, semadj>>

kind == setup.kind

(* The process' place in the use of the semaphore.                         *)
Place(p) ==
  IF pc[p] \in {"new", "set", "out"} THEN pc[p]
  ELSE IF pc[p] = "wait" THEN "want"
  ELSE IF pc[p] = "ready" \/ (kind = "rwarray" /\ op[p].call # "init") THEN "out"
  ELSE "in"

Lock == INSTANCE SemLock
          WITH at <- [p \in Proc |-> Place(p)]

-----------------------------------------------------------------------------
(* A new segment is all zero.                                              *)
Fields ==
  [queue |-> {"front", "rear", "size"}, stack |-> {"size", "cur"},
   array |-> {"size"}, rwarray |-> {"locknum", "size"}]

ZeroNode ==
  IF kind \in {"array", "rwarray"} THEN [flag |-> 0, data |-> <<"zero", "zero">>] ELSE "zero"

Zeroed(n) ==
  [head  |-> [f \in Fields[kind] |-> 0],
   nodes |-> [i \in 0 .. n - 1 |-> ZeroNode],
   locks |-> [l \in 0 .. LockNum - 1 |-> "zero"]]

(* How many nodes fit in segment s.                                        *)
Room(s) == Cardinality(DOMAIN shm[s].nodes)

(* A call with a size or an index, or with an item.                        *)
Asked(c, n) == [call |-> c, arg |-> n, v |-> "none"]
Given(c, n, x) == [call |-> c, arg |-> n, v |-> x]
NoCall == Asked("none", 0)

Init ==
  /\ setup \in Setups
  /\ semval = 0 /\ semadj = [p \in Proc |-> 0] /\ kept = TRUE
  /\ key = 0
  /\ shm = <<>>
  /\ seg = [p \in Proc |-> 0]
  /\ pc = [p \in Proc |-> "new"]
  /\ op = [p \in Proc |-> NoCall]
  /\ ret = [p \in Proc |-> <<>>]

Go(p, from, to) == pc[p] = from /\ pc' = [pc EXCEPT ![p] = to]
Return(p, r) == ret' = [ret EXCEPT ![p] = r]

(* p is inside the call c, at the step named by from.                      *)
In(p, c, from, to) == op[p].call = c /\ Go(p, from, to)

(* The header and the nodes of p's segment, and stores to them.            *)
m_pHead(p) == shm[seg[p]].head
m_Nodes(p) == shm[seg[p]].nodes
Store(p, f, x) == shm' = [shm EXCEPT ![seg[p]].head[f] = x]
StoreNode(p, i, x) == shm' = [shm EXCEPT ![seg[p]].nodes[i] = x]

Quiet == UNCHANGED <<setup, semval, semadj, kept, key, seg>>

-----------------------------------------------------------------------------
(* Init: sem_init, then, under the lock, the segment and its header.       *)
SemGet(p) ==
  /\ Go(p, "new", "set") \/ (seg[p] = 0 /\ Go(p, "out", "set"))
  /\ Quiet /\ UNCHANGED <<shm, op, ret>>

(* Other processes may hold the lock: the code does not ask.               *)
SemInit(p) ==
  /\ Go(p, "set", "ready")
  /\ Lock!SetVal
  /\ kept' = (kept /\ Lock!Inside = {})
  /\ UNCHANGED <<setup, key, shm, seg, op, ret>>

(* The process begins a call.                                              *)
Enter(p, from, to, call) ==
  /\ Go(p, from, to)
  /\ op' = [op EXCEPT ![p] = call]
  /\ Quiet /\ UNCHANGED <<shm, ret>>

InitCall(p, n) == Enter(p, "ready", "wait", Asked("init", n))

Acquire(p) ==
  /\ Go(p, "wait", "begin")
  /\ Lock!SemDown(p)
  /\ UNCHANGED <<setup, kept, key, shm, seg, op, ret>>

(* A signal ends semop, and CLockGuard goes on without the lock.           *)
Interrupted(p) ==
  /\ Faults
  /\ semval = 0
  /\ Go(p, "wait", "begin")
  /\ kept' = FALSE
  /\ UNCHANGED <<setup, semval, semadj, key, shm, seg, op, ret>>

(* force_open_and_attach: create the segment if the key names none; attach *)
(* it if it is large enough; otherwise remove it and create a larger one.  *)
Creates(p, to) ==
  /\ In(p, "init", "begin", to) \/ In(p, "init", "create", to)
  /\ key = 0 /\ Len(shm) < MaxSegs
  /\ shm' = Append(shm, Zeroed(op[p].arg))
  /\ key' = Len(shm')

InitCreate(p) ==
  /\ Creates(p, "made")
  /\ seg' = [seg EXCEPT ![p] = key']
  /\ UNCHANGED <<setup, semval, semadj, kept, op, ret>>

InitAttach(p) ==
  /\ In(p, "init", "begin", "found")
  /\ key # 0 /\ Room(key) >= op[p].arg
  /\ seg' = [seg EXCEPT ![p] = key]
  /\ UNCHANGED <<setup, semval, semadj, kept, key, shm, op, ret>>

InitRemove(p) ==
  /\ In(p, "init", "begin", "create")
  /\ key # 0 /\ Room(key) < op[p].arg
  /\ key' = 0
  /\ UNCHANGED <<setup, semval, semadj, kept, shm, seg, op, ret>>

(* A call fails, or another process has created the segment.               *)
InitFail(p) ==
  /\ \/ Faults /\ In(p, "init", "begin", "leave")
     \/ (Faults \/ key # 0) /\ In(p, "init", "create", "leave")
  /\ Quiet /\ UNCHANGED <<shm, op, ret>>

(* The segment is created and cannot be attached: nobody stores its header.*)
InitLost(p) ==
  /\ Faults
  /\ Creates(p, "leave")
  /\ UNCHANGED <<setup, semval, semadj, kept, seg, op, ret>>

(* A step of Init that stores x to a field of the header.                  *)
InitStore(p, from, to, f, x) ==
  /\ In(p, "init", from, to)
  /\ Store(p, f, x)
  /\ Quiet /\ UNCHANGED <<op, ret>>

(* A process dies: it loses its attachment, and the kernel undoes what it  *)
(* did to the semaphore, but not to the read-write locks.                  *)
Exit(p) ==
  /\ pc' = [pc EXCEPT ![p] = "new"]
  /\ seg' = [seg EXCEPT ![p] = 0]
  /\ op' = [op EXCEPT ![p] = NoCall]
  /\ Return(p, <<>>)
  /\ Lock!SemUndo(p)
  /\ shm' = [s \in DOMAIN shm |->
               [shm[s] EXCEPT !.locks = [l \in DOMAIN @ |-> IF @[l] = p THEN "dead" ELSE @[l]]]]
  /\ UNCHANGED <<setup, kept, key>>

Die(p) == Faults /\ Exit(p)

(* CLockGuard's destructor.                                                *)
UnLock_Not(p) ==   \* mutant: a return without UnLock()
  /\ Go(p, "leave", "out")
  /\ op' = [op EXCEPT ![p] = NoCall]
  /\ Return(p, <<>>)
  /\ Quiet /\ UNCHANGED shm
UnLock(p) ==
  /\ Go(p, "leave", "out")
  /\ op' = [op EXCEPT ![p] = NoCall]
  /\ Return(p, <<>>)
  /\ Lock!SemUp(p)
  /\ UNCHANGED <<setup, kept, key, shm, seg>>

(* The calls under the lock of a process that has initialised its object.  *)
Ready(p, k) == kind = k /\ seg[p] # 0

(* The steps of a process that every class has.                            *)
InitStep(p) ==
  \/ InitCreate(p) \/ InitAttach(p) \/ InitRemove(p) \/ InitFail(p)
  \/ InitLost(p) \/ UnLock(p)
=============================================================================
