------------------------------ MODULE ShmQueue -------------------------------
(***************************************************************************)
(* CShmQueue (system/shm_queue.h): a ring of nodes in a segment.           *)
(***************************************************************************)
EXTENDS ShmSegment

Next1(p, i) == (i + 1) % m_pHead(p).size

(* The three stores to the header of a created segment, and the assertion. *)
QueueHead(p) ==
  /\ kind = "queue"
  /\ \/ InitStore(p, "made", "rear", "front", 0)
     \/ InitStore(p, "rear", "size", "rear", 0)
     \/ InitStore(p, "size", "found", "size", op[p].arg)

QueueCheck(p) ==
  /\ kind = "queue" /\ In(p, "init", "found", "leave")
  /\ m_pHead(p).size # 0
  /\ Quiet /\ UNCHANGED <<shm, op, ret>>

(* assert(m_pHead->m_nSize != 0) fails.                                    *)
QueueAbort(p) ==
  /\ kind = "queue" /\ pc[p] = "found"
  /\ m_pHead(p).size = 0
  /\ Exit(p)

QueueCall(p) ==
  /\ Ready(p, "queue")
  /\ \/ \E v \in setup.items : Enter(p, "out", "wait", Given("enqueue", 0, v))
     \/ \E c \in {"dequeue", "clean", "ask"} : Enter(p, "out", "wait", Asked(c, 0))

IsFull_NoWrap(p) == m_pHead(p).front = m_pHead(p).rear + 1   \* mutant
IsFull(p)  == m_pHead(p).front = Next1(p, m_pHead(p).rear)
IsEmpty(p) == m_pHead(p).front = m_pHead(p).rear
Size(p)    == (m_pHead(p).rear + m_pHead(p).size - m_pHead(p).front) % m_pHead(p).size

PushFull(p) ==
  /\ In(p, "enqueue", "begin", "leave")
  /\ IsFull(p)
  /\ Return(p, <<"full">>)
  /\ Quiet /\ UNCHANGED <<shm, op>>

PushNode(p) ==
  /\ In(p, "enqueue", "begin", "pushed")
  /\ ~IsFull(p)
  /\ StoreNode(p, m_pHead(p).rear, op[p].v)
  /\ Quiet /\ UNCHANGED <<op, ret>>

PushRear(p) ==
  /\ In(p, "enqueue", "pushed", "leave")
  /\ Store(p, "rear", Next1(p, m_pHead(p).rear))
  /\ Return(p, <<"pushed">>)
  /\ Quiet /\ UNCHANGED op

PopEmpty(p) ==
  /\ In(p, "dequeue", "begin", "leave")
  /\ IsEmpty(p)
  /\ Return(p, <<"empty">>)
  /\ Quiet /\ UNCHANGED <<shm, op>>

PopNode(p) ==
  /\ In(p, "dequeue", "begin", "popped")
  /\ ~IsEmpty(p)
  /\ op' = [op EXCEPT ![p].v = m_Nodes(p)[m_pHead(p).front]]
  /\ Quiet /\ UNCHANGED <<shm, ret>>

PopFront(p) ==
  /\ In(p, "dequeue", "popped", "leave")
  /\ Store(p, "front", Next1(p, m_pHead(p).front))
  /\ Return(p, <<"popped", op[p].v>>)
  /\ Quiet /\ UNCHANGED op

CleanFront(p) ==
  /\ In(p, "clean", "begin", "cleaned")
  /\ Store(p, "front", 0)
  /\ Return(p, <<"cleaned">>)
  /\ Quiet /\ UNCHANGED op

CleanRear(p) ==
  /\ In(p, "clean", "cleaned", "leave")
  /\ Store(p, "rear", 0)
  /\ Quiet /\ UNCHANGED <<op, ret>>

(* Size(), Length(), Full() and Empty(), which read the header.            *)
Ask(p) ==
  /\ In(p, "ask", "begin", "leave")
  /\ Return(p, <<"is", Size(p), IsFull(p), IsEmpty(p)>>)
  /\ Quiet /\ UNCHANGED <<shm, op>>

QueueStep(p) ==
  \/ QueueHead(p) \/ QueueCheck(p) \/ QueueAbort(p)
  \/ PushFull(p) \/ PushNode(p) \/ PushRear(p)
  \/ PopEmpty(p) \/ PopNode(p) \/ PopFront(p)
  \/ CleanFront(p) \/ CleanRear(p) \/ Ask(p)

-----------------------------------------------------------------------------
(* What Init asserts: a segment that exists has its header.                *)
HeaderThere ==
  \A p \in Proc : kind = "queue" /\ pc[p] = "found" => m_pHead(p).size # 0

(* The elements of the queue in segment s, the oldest first.  A Clean      *)
(* takes effect with its first store.                                      *)
Queue(s) ==
  IF s > Len(shm) \/ shm[s].head.size = 0
     \/ \E p \in Proc : seg[p] = s /\ pc[p] = "cleaned"
    THEN <<>>
    ELSE LET h == shm[s].head
         IN  [i \in 1 .. (h.rear + h.size - h.front) % h.size |->
                shm[s].nodes[(h.front + i - 1) % h.size]]
=============================================================================
