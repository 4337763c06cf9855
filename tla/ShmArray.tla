------------------------------ MODULE ShmArray -------------------------------
(***************************************************************************)
(* CShmArray and CShmRWArray (system/shm_array.h): cells with a flag and   *)
(* data.  The first has one lock, the semaphore; the second takes one of   *)
(* LockNum read-write locks in the segment, always as a writer, and reads  *)
(* the length without a lock.  The data are more than one word: they are   *)
(* read and stored in two halves.                                          *)
(***************************************************************************)
EXTENDS ShmSegment

CONSTANT Index   \* the indices that are asked for

ASSUME IndexAssumption == Index \subseteq Nat

(* A read-write lock is zero, free, a process' or a dead one's.            *)
ASSUME LockAssumption == Proc \cap {"zero", "free", "dead"} = {}

(* CShmArray's Init.                                                       *)
ArrayHead(p) == kind = "array" /\ InitStore(p, "made", "leave", "size", op[p].arg)

ArrayFound(p) ==
  /\ kind = "array" /\ In(p, "init", "found", "leave")
  /\ Quiet /\ UNCHANGED <<shm, op, ret>>

(* CShmRWArray's Init: a segment with another number of locks, or with     *)
(* none since its maker has died, is treated as a new one.                 *)
RWFound(p) ==
  /\ kind = "rwarray"
  /\ \/ In(p, "init", "found", "leave") /\ m_pHead(p).locknum = LockNum
     \/ In(p, "init", "found", "made") /\ m_pHead(p).locknum # LockNum
  /\ Quiet /\ UNCHANGED <<shm, op, ret>>

RWLocks(p) ==
  /\ kind = "rwarray" /\ In(p, "init", "numbered", "locked")
  /\ shm' = [shm EXCEPT ![seg[p]].locks = [l \in DOMAIN @ |-> "free"]]
  /\ Quiet /\ UNCHANGED <<op, ret>>

RWHead(p) ==
  /\ kind = "rwarray"
  /\ \/ InitStore(p, "made", "numbered", "locknum", LockNum)
     \/ InitStore(p, "locked", "leave", "size", op[p].arg)

-----------------------------------------------------------------------------
(* The calls: under the semaphore, or with the length read first.          *)
ArrayCall(p) ==
  LET to == IF kind = "array" THEN "wait" ELSE "length"
  IN  /\ Ready(p, "array") \/ Ready(p, "rwarray")
      /\ \/ Enter(p, "out", to, Asked("length", 0))
         \/ \E i \in Index :
              \/ \E c \in {"get", "delete"} : Enter(p, "out", to, Asked(c, i))
              \/ \E x \in setup.items : Enter(p, "out", to, Given("set", i, x))

Begin == IF kind = "array" THEN "begin" ELSE "rwbegin"
Leave == IF kind = "array" THEN "leave" ELSE "rwleave"

(* The test of the index, the first thing after the lock or before it.     *)
First == IF kind = "array" THEN "begin" ELSE "length"
Last  == IF kind = "array" THEN "leave" ELSE "rwreturn"

Overflow(p) ==
  /\ op[p].call \in {"set", "get", "delete"} /\ Go(p, First, Last)
  /\ op[p].arg >= m_pHead(p).size
  /\ Return(p, <<"overflow", op[p].arg>>)
  /\ Quiet /\ UNCHANGED <<shm, op>>

Length(p) ==
  /\ In(p, "length", First, Last)
  /\ kind \in {"array", "rwarray"}
  /\ Return(p, <<"is", m_pHead(p).size>>)
  /\ Quiet /\ UNCHANGED <<shm, op>>

(* The read-write lock of the index.                                       *)
RWIndex(p) ==
  /\ kind = "rwarray" /\ op[p].call # "length" /\ Go(p, "length", "rwwait")
  /\ op[p].arg < m_pHead(p).size
  /\ Quiet /\ UNCHANGED <<shm, op, ret>>

MyLock(p) == op[p].arg % m_pHead(p).locknum
SetLock(p, x) == shm' = [shm EXCEPT ![seg[p]].locks[MyLock(p)] = x]

RWLock_Read(p) ==   \* mutant: a reader's lock, which lets others in
  /\ Go(p, "rwwait", "rwbegin")
  /\ Quiet /\ UNCHANGED <<shm, op, ret>>
RWLock(p) ==
  /\ Go(p, "rwwait", "rwbegin")
  /\ shm[seg[p]].locks[MyLock(p)] = "free"
  /\ SetLock(p, p)
  /\ Quiet /\ UNCHANGED <<op, ret>>

(* The call returns, and leaves the lock if it has it.                     *)
RWReturn(p) ==
  /\ \/ Go(p, "rwleave", "out") /\ SetLock(p, "free")
     \/ Go(p, "rwreturn", "out") /\ UNCHANGED shm
  /\ op' = [op EXCEPT ![p] = NoCall]
  /\ Return(p, <<>>)
  /\ Quiet

-----------------------------------------------------------------------------
Cell(p) == m_Nodes(p)[op[p].arg]
Inside(p) == kind = "array" => op[p].arg < m_pHead(p).size

SetFlag(p) ==
  /\ In(p, "set", Begin, "flagged") /\ Inside(p)
  /\ StoreNode(p, op[p].arg, [Cell(p) EXCEPT !.flag = 1])
  /\ Return(p, <<"set", op[p].arg>>)
  /\ Quiet /\ UNCHANGED op

SetData(p) ==
  /\ \/ /\ In(p, "set", "flagged", "half")
        /\ StoreNode(p, op[p].arg, [Cell(p) EXCEPT !.data[1] = op[p].v])
     \/ /\ In(p, "set", "half", Leave)
        /\ StoreNode(p, op[p].arg, [Cell(p) EXCEPT !.data[2] = op[p].v])
  /\ Quiet /\ UNCHANGED <<op, ret>>

GetUnset(p) ==
  /\ In(p, "get", Begin, Leave) /\ Inside(p)
  /\ Cell(p).flag # 1
  /\ Return(p, <<"unset", op[p].arg>>)
  /\ Quiet /\ UNCHANGED <<shm, op>>

GetData(p) ==
  /\ \/ /\ In(p, "get", Begin, "gethalf") /\ Inside(p) /\ Cell(p).flag = 1
        /\ op' = [op EXCEPT ![p].v = Cell(p).data[1]]
        /\ UNCHANGED ret
     \/ /\ In(p, "get", "gethalf", Leave)
        /\ Return(p, <<"value", op[p].arg, <<op[p].v, Cell(p).data[2]>> >>)
        /\ UNCHANGED op
  /\ Quiet /\ UNCHANGED shm

Delete(p) ==
  /\ In(p, "delete", Begin, Leave) /\ Inside(p)
  /\ StoreNode(p, op[p].arg, [Cell(p) EXCEPT !.flag = 0])
  /\ Return(p, <<"deleted", op[p].arg>>)
  /\ Quiet /\ UNCHANGED op

ArrayStep(p) ==
  \/ ArrayHead(p) \/ ArrayFound(p) \/ RWFound(p) \/ RWLocks(p) \/ RWHead(p)
  \/ Overflow(p) \/ Length(p) \/ RWIndex(p) \/ RWReturn(p)
  \/ SetFlag(p) \/ SetData(p) \/ GetUnset(p) \/ GetData(p) \/ Delete(p)

-----------------------------------------------------------------------------
(* What is in the memory of the cells of segment s, and the cells: a Set   *)
(* takes effect with its first store.                                      *)
Kept(s) ==
  IF s > Len(shm) THEN [i \in Index |-> <<"zero", "zero">>]
  ELSE [i \in Index |-> IF i < Room(s) THEN shm[s].nodes[i].data ELSE <<"zero", "zero">>]

Setting(s, i) ==
  {p \in Proc : seg[p] = s /\ pc[p] \in {"flagged", "half"} /\ op[p].arg = i}

Cells(s) ==
  [i \in Index |->
     IF s > Len(shm) \/ i >= Room(s) \/ shm[s].nodes[i].flag # 1 THEN <<>>
     ELSE IF Setting(s, i) = {} THEN shm[s].nodes[i].data
     ELSE LET v == op[CHOOSE p \in Setting(s, i) : TRUE].v IN <<v, v>>]
=============================================================================
