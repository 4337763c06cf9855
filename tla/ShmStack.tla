------------------------------ MODULE ShmStack -------------------------------
(***************************************************************************)
(* CShmStack (system/shm_stack.h).  Init asserts nothing: a process can    *)
(* use a stack whose maker died before it stored m_TotalItemNum (size).    *)
(* The number of items is a size_t.  Two processes that are both inside a  *)
(* lock whose rules are broken can move it past 0 or the size.             *)
(***************************************************************************)
EXTENDS ShmSegment

StackHead(p) ==
  /\ kind = "stack"
  /\ \/ InitStore(p, "made", "total", "size", op[p].arg)
     \/ InitStore(p, "total", "leave", "cur", 0)

StackFound(p) ==
  /\ kind = "stack" /\ In(p, "init", "found", "leave")
  /\ Quiet /\ UNCHANGED <<shm, op, ret>>

StackCall(p) ==
  /\ Ready(p, "stack")
  /\ \/ \E v \in setup.items : Enter(p, "out", "wait", Given("push", 0, v))
     \/ \E c \in {"pop", "size"} : Enter(p, "out", "wait", Asked(c, 0))

Up(n)   == IF n = SizeMax THEN 0 ELSE n + 1
Down(n) == IF n = 0 THEN SizeMax ELSE n - 1

NoRoom_OneLess(p) == m_pHead(p).cur + 1 >= m_pHead(p).size   \* mutant
NoRoom(p) == m_pHead(p).cur >= m_pHead(p).size

StackFull(p) ==
  /\ In(p, "push", "begin", "leave")
  /\ NoRoom(p)
  /\ Return(p, <<"full">>)
  /\ Quiet /\ UNCHANGED <<shm, op>>

StackNode(p) ==
  /\ In(p, "push", "begin", "stored")
  /\ ~NoRoom(p)
  /\ StoreNode(p, m_pHead(p).cur, op[p].v)
  /\ Quiet /\ UNCHANGED <<op, ret>>

StackPushed(p) ==
  /\ In(p, "push", "stored", "leave")
  /\ Store(p, "cur", Up(m_pHead(p).cur))
  /\ Return(p, <<"pushed">>)
  /\ Quiet /\ UNCHANGED op

StackEmpty(p) ==
  /\ In(p, "pop", "begin", "leave")
  /\ m_pHead(p).cur = 0
  /\ Return(p, <<"empty">>)
  /\ Quiet /\ UNCHANGED <<shm, op>>

(* The last item; outside the segment there is anything.                   *)
TopItems(p) ==
  IF m_pHead(p).cur <= Room(seg[p]) THEN {m_Nodes(p)[m_pHead(p).cur - 1]} ELSE Item

StackTop(p) ==
  /\ In(p, "pop", "begin", "read")
  /\ m_pHead(p).cur # 0
  /\ \E x \in TopItems(p) : op' = [op EXCEPT ![p].v = x]
  /\ Quiet /\ UNCHANGED <<shm, ret>>

StackPopped(p) ==
  /\ In(p, "pop", "read", "leave")
  /\ Store(p, "cur", Down(m_pHead(p).cur))
  /\ Return(p, <<"popped", op[p].v>>)
  /\ Quiet /\ UNCHANGED op

(* Size() and Empty().                                                     *)
StackSize(p) ==
  /\ In(p, "size", "begin", "leave")
  /\ Return(p, <<"is", m_pHead(p).cur>>)
  /\ Quiet /\ UNCHANGED <<shm, op>>

StackStep(p) ==
  \/ StackHead(p) \/ StackFound(p)
  \/ StackFull(p) \/ StackNode(p) \/ StackPushed(p)
  \/ StackEmpty(p) \/ StackTop(p) \/ StackPopped(p) \/ StackSize(p)

-----------------------------------------------------------------------------
(* The elements of the stack in segment s, the newest last.                *)
Stack(s) ==
  IF s > Len(shm) THEN <<>>
  ELSE [i \in 1 .. shm[s].head.cur |-> shm[s].nodes[i - 1]]
=============================================================================
