-------------------------- MODULE ChunkAllocProofs --------------------------
(***************************************************************************)
(* The safety properties of ChunkAlloc, and that it implements ChunkPool,  *)
(* for every pool, every chunk size and any number of crashes.             *)
(***************************************************************************)
EXTENDS ChunkAlloc, FiniteSetTheorems, FunctionTheorems, WellFoundedInduction, TLAPS

(***************************************************************************)
(* What a store of one next handle does to the lists of LinkedLists.       *)
(***************************************************************************)
(* The list at INVALID is empty. *)
LEMMA ReachInvalid ==
  ASSUME NEW N, NEW next
  PROVE  Reach(N, next, INVALID) = {}
BY {} \in SUBSET N DEF Reach, Closed

(* A list has its head. *)
LEMMA ReachHead ==
  ASSUME NEW N, NEW next, NEW h \in N, h # INVALID
  PROVE  h \in Reach(N, next, h)
BY DEF Reach

(* A list is contained in every closed set that has its head. *)
LEMMA ReachLeast ==
  ASSUME NEW N, NEW next, NEW h, NEW S \in SUBSET N,
         Closed(next, S), h \in S \cup {INVALID}
  PROVE  Reach(N, next, h) \subseteq S
BY DEF Reach

(* A list is closed. *)
LEMMA ReachClosed ==
  ASSUME NEW N, NEW next \in [N -> N \cup {INVALID}], NEW h
  PROVE  Closed(next, Reach(N, next, h))
BY DEF Reach, Closed

(* A list is its head followed by the list at the head's successor. *)
LEMMA ReachUnfold ==
  ASSUME NEW N, INVALID \notin N, NEW next \in [N -> N \cup {INVALID}], NEW h \in N
  PROVE  Reach(N, next, h) = {h} \cup Reach(N, next, next[h])
<1> DEFINE S == {h} \cup Reach(N, next, next[h])
<1>1. S \in SUBSET N
  BY DEF Reach
<1>2. next[h] \in N => next[h] \in Reach(N, next, next[h])
  BY ReachHead
<1>3. Closed(next, S)
  BY <1>2, ReachClosed DEF Closed
<1>4. Reach(N, next, h) \subseteq S
  BY <1>1, <1>3, ReachLeast
<1>5. h \in Reach(N, next, h)
  BY ReachHead
<1>6. next[h] \in Reach(N, next, h) \cup {INVALID}
  BY <1>5, ReachClosed DEF Closed
<1>7. Reach(N, next, next[h]) \subseteq Reach(N, next, h)
  <2>1. Reach(N, next, h) \in SUBSET N
    BY DEF Reach
  <2> QED BY <2>1, <1>6, ReachClosed, ReachLeast
<1> QED BY <1>4, <1>5, <1>7

(* The list at any node of a list is a part of that list. *)
LEMMA ReachSub ==
  ASSUME NEW N, NEW next \in [N -> N \cup {INVALID}], NEW h,
         NEW c \in Reach(N, next, h)
  PROVE  /\ Reach(N, next, c) \subseteq Reach(N, next, h)
         /\ Reach(N, next, next[c]) \subseteq Reach(N, next, h)
<1>1. Reach(N, next, h) \in SUBSET N
  BY DEF Reach
<1>2. next[c] \in Reach(N, next, h) \cup {INVALID}
  BY ReachClosed DEF Closed
<1> QED BY <1>1, <1>2, ReachClosed, ReachLeast

(* Stores to nodes that are not on a list leave the list as it is. *)
LEMMA ReachFrame ==
  ASSUME NEW N, NEW h \in N \cup {INVALID},
         NEW next \in [N -> N \cup {INVALID}],
         NEW next2 \in [N -> N \cup {INVALID}],
         \A c \in Reach(N, next, h) : next2[c] = next[c]
  PROVE  Reach(N, next2, h) = Reach(N, next, h)
<1> DEFINE R  == Reach(N, next, h)
           R2 == Reach(N, next2, h)
<1>1. R \in SUBSET N /\ R2 \in SUBSET N
  BY DEF Reach
<1>2. h \in R \cup {INVALID} /\ h \in R2 \cup {INVALID}
  BY ReachHead
<1>3. Closed(next, R) /\ Closed(next2, R2)
  BY ReachClosed
<1>4. Closed(next2, R)
  BY <1>3 DEF Closed
<1>5. R2 \subseteq R
  BY <1>1, <1>2, <1>4, ReachLeast
<1>6. Closed(next, R2)
  BY <1>3, <1>5 DEF Closed
<1>7. R \subseteq R2
  BY <1>1, <1>2, <1>6, ReachLeast
<1> QED BY <1>5, <1>7

(* ... and without a cycle if it had none. *)
LEMMA AcyclicFrame ==
  ASSUME NEW N, NEW h \in N \cup {INVALID},
         NEW next \in [N -> N \cup {INVALID}],
         NEW next2 \in [N -> N \cup {INVALID}],
         \A c \in Reach(N, next, h) : next2[c] = next[c],
         Acyclic(N, next, h)
  PROVE  Acyclic(N, next2, h)
<1>1. Reach(N, next2, h) = Reach(N, next, h)
  BY ReachFrame
<1>2. SUFFICES ASSUME NEW c \in Reach(N, next, h)
               PROVE  c \notin Reach(N, next2, next2[c])
  BY <1>1 DEF Acyclic
<1>3. next2[c] = next[c] /\ c \in N
  BY DEF Reach
<1>4. Reach(N, next, next[c]) \subseteq Reach(N, next, h)
  BY ReachSub
<1>5. next[c] \in N \cup {INVALID}
  BY <1>3
<1>6. Reach(N, next2, next[c]) = Reach(N, next, next[c])
  BY <1>4, <1>5, ReachFrame
<1> QED BY <1>3, <1>6 DEF Acyclic

(* Taking the head off a list that ends leaves a list that ends and does   *)
(* not have that head.                                                     *)
LEMMA AcyclicTail ==
  ASSUME NEW N, INVALID \notin N, NEW next \in [N -> N \cup {INVALID}],
         NEW h \in N, Acyclic(N, next, h)
  PROVE  h \notin Reach(N, next, next[h]) /\ Acyclic(N, next, next[h])
<1>1. h \in Reach(N, next, h)
  BY ReachHead
<1>2. Reach(N, next, next[h]) \subseteq Reach(N, next, h)
  BY <1>1, ReachSub
<1> QED BY <1>1, <1>2 DEF Acyclic

(* Linking a node that is not on a list before it makes a longer list that *)
(* ends.                                                                   *)
LEMMA AcyclicCons ==
  ASSUME NEW N, INVALID \notin N, NEW h \in N \cup {INVALID}, NEW d \in N,
         NEW next \in [N -> N \cup {INVALID}],
         NEW next2 \in [N -> N \cup {INVALID}],
         \A c \in N : c # d => next2[c] = next[c],
         next2[d] = h,
         d \notin Reach(N, next, h), Acyclic(N, next, h)
  PROVE  /\ Reach(N, next2, h) = Reach(N, next, h)
         /\ Reach(N, next2, d) = {d} \cup Reach(N, next, h)
         /\ Acyclic(N, next2, h)
         /\ Acyclic(N, next2, d)
<1>1. \A c \in Reach(N, next, h) : next2[c] = next[c]
  BY DEF Reach
<1>2. Reach(N, next2, h) = Reach(N, next, h) /\ Acyclic(N, next2, h)
  BY <1>1, ReachFrame, AcyclicFrame
<1>3. Reach(N, next2, d) = {d} \cup Reach(N, next2, h)
  BY ReachUnfold
<1>4. ASSUME NEW c \in Reach(N, next2, d)
      PROVE  c \notin Reach(N, next2, next2[c])
  <2>1. CASE c = d
    BY <2>1, <1>2
  <2>2. CASE c # d
    BY <2>2, <1>2, <1>3, <1>4 DEF Acyclic
  <2> QED BY <2>1, <2>2
<1> QED BY <1>2, <1>3, <1>4 DEF Acyclic

-----------------------------------------------------------------------------
(* The pool. *)

LEMMA ChunkFacts == INVALID \notin Chunk /\ Handle = Chunk \cup {INVALID}
BY PoolAssumption DEF Chunk, Handle, INVALID

(* A record takes at least one chunk. *)
LEMMA ChunkNum ==
  ASSUME NEW len \in Lens
  PROVE  get_chunk_num(len) \in Nat /\ get_chunk_num(len) > 0
<1>1. len \in Nat /\ len > 0 /\ ChunkSize \in Nat /\ ChunkSize > 0
  BY PoolAssumption
<1>2. len = ChunkSize * (len \div ChunkSize) + (len % ChunkSize)
  BY <1>1
<1>3. len \div ChunkSize \in Nat /\ len % ChunkSize \in Nat
  BY <1>1
<1>4. len % ChunkSize = 0 => len \div ChunkSize > 0
  BY <1>1, <1>2, <1>3
<1> QED BY <1>3, <1>4 DEF get_chunk_num

LEMMA ListSubset == \A h : List(h) \subseteq Chunk
BY DEF List, Reach

LEMMA FiniteLists == \A h : IsFiniteSet(List(h)) /\ Cardinality(List(h)) \in Nat
<1>1. IsFiniteSet(Chunk)
  BY FS_Interval, PoolAssumption DEF Chunk
<1> QED BY <1>1, ListSubset, FS_Subset, FS_CardinalityType

(* The list at INVALID is empty, a list has its head. *)
LEMMA ListHead ==
  ASSUME TypeOK
  PROVE  /\ List(INVALID) = {}
         /\ \A h \in Chunk : h \in List(h) /\ List(h) = {h} \cup List(next_[h])
BY ChunkFacts, ReachInvalid, ReachHead, ReachUnfold DEF List, TypeOK

-----------------------------------------------------------------------------
(* Types, and which call is at which place. *)

LEMMA InitType == Init => TypeOK /\ CallInv
<1> SUFFICES ASSUME Init PROVE TypeOK /\ CallInv
  OBVIOUS
<1>1. Idle \in OpType
  BY ChunkFacts DEF Idle, OpType, PC
<1>2. /\ free_list_ \in Handle /\ next_ \in [Chunk -> Handle] /\ free_total_ \in Int
      /\ crashes \in 0 .. MaxCrashes
  BY PoolAssumption DEF Init, Handle, Chunk, INVALID
<1>3. data_ \in [Chunk -> [0 .. ChunkSize - 1 -> (Records \X Nat) \cup {Blank}]]
  BY DEF Init
<1>4. DOMAIN held = {} /\ op = Idle /\ verified \in BOOLEAN /\ stale = FALSE
  BY DEF Init
<1>5. TypeOK
  BY <1>1, <1>2, <1>3, <1>4 DEF TypeOK
<1> QED BY <1>4, <1>5 DEF CallInv, Idle

(* What a node's entry in held may become.                                 *)
LEMMA EntryType ==
  ASSUME TypeOK, NEW n \in DOMAIN held,
         NEW g \in Handle, NEW len \in Lens, NEW r \in Records \cup {Blank},
         \/ held' = [held EXCEPT ![n].rec = r]
         \/ held' = [held EXCEPT ![n].len = len]
         \/ held' = [held EXCEPT ![n].len = len, ![n].rec = r]
         \/ held' = [held EXCEPT ![n].head = g, ![n].rec = r]
  PROVE  /\ DOMAIN held' = DOMAIN held
         /\ \A m \in DOMAIN held' :
               held'[m] \in [head : Handle, len : Lens, rec : Records \cup {Blank}]
         /\ \A m \in DOMAIN held' : m # n => held'[m] = held[m]
BY DEF TypeOK

LEMMA CallsType ==
  ASSUME TypeOK, CallInv, NEW len \in Lens, NEW r \in Records, NEW n \in Nodes,
         \/ n \notin DOMAIN held /\ InsertCall(n, len, r)
         \/ n \in DOMAIN held /\ (OverwriteCall(n, len, r) \/ UpdateCall(n, len, r))
  PROVE  TypeOK' /\ CallInv'
<1> USE PoolAssumption, ChunkFacts
<1>0. get_chunk_num(len) \in Nat /\ len \in Nat
  BY ChunkNum
<1>1. CASE n \notin DOMAIN held /\ InsertCall(n, len, r)
  <2>1. /\ op' = [pc |-> "pop", call |-> "insert", owner |-> n, num |-> get_chunk_num(len),
                  i |-> 0, head |-> INVALID, node |-> INVALID, after |-> INVALID,
                  len |-> len, rec |-> r, remain |-> 0]
        /\ UNCHANGED <<free_list_, free_total_, next_, data_, held, verified, stale, crashes>>
    BY <1>1 DEF InsertCall, Call, Idle
  <2>2. op' \in OpType
    BY <1>0, <2>1 DEF OpType, PC
  <2> QED BY <1>1, <2>1, <2>2 DEF TypeOK, CallInv, Whole
<1>2. CASE n \in DOMAIN held /\ OverwriteCall(n, len, r)
  <2>0. held[n].head \in Handle /\ Blank \in Records \cup {Blank}
    BY <1>2 DEF TypeOK
  <2>1. /\ op' = [pc |-> "split", call |-> "overwrite", owner |-> n,
                  num |-> get_chunk_num(len), i |-> 0, head |-> held[n].head,
                  node |-> held[n].head, after |-> INVALID, len |-> len, rec |-> r,
                  remain |-> len]
        /\ held' = [held EXCEPT ![n].rec = Blank]
        /\ UNCHANGED <<free_list_, free_total_, next_, data_, verified, stale, crashes>>
        /\ get_chunk_num(len) = get_chunk_num(held[n].len)
    BY <1>2 DEF OverwriteCall, Call, Idle
  <2>2. op' \in OpType
    BY <1>0, <2>0, <2>1 DEF OpType, PC
  <2>3. /\ DOMAIN held' = DOMAIN held
        /\ \A m \in DOMAIN held' :
              held'[m] \in [head : Handle, len : Lens, rec : Records \cup {Blank}]
    BY <1>2, <2>0, <2>1, EntryType
  <2>4. held'[n].rec = Blank /\ held'[n].len = held[n].len /\ held'[n].head = held[n].head
    BY <1>2, <2>1 DEF TypeOK
  <2>5. TypeOK'
    BY <2>1, <2>2, <2>3 DEF TypeOK
  <2>6. CallInv'
    BY <1>0, <1>2, <2>1, <2>3, <2>4 DEF CallInv, Whole
  <2> QED BY <2>5, <2>6
<1>3. CASE n \in DOMAIN held /\ UpdateCall(n, len, r)
  <2>0. held[n].head \in Handle /\ Blank \in Records \cup {Blank}
    BY <1>3 DEF TypeOK
  <2>1. /\ op' = [pc |-> "free", call |-> "update", owner |-> n,
                  num |-> get_chunk_num(len), i |-> 0, head |-> INVALID,
                  node |-> held[n].head, after |-> INVALID, len |-> len, rec |-> r,
                  remain |-> 0]
        /\ held' = [held EXCEPT ![n].rec = Blank]
        /\ UNCHANGED <<free_list_, free_total_, next_, data_, verified, stale, crashes>>
    BY <1>3 DEF UpdateCall, UpdateTurn, Call, Idle
  <2>2. op' \in OpType
    BY <1>0, <2>0, <2>1 DEF OpType, PC
  <2>3. /\ DOMAIN held' = DOMAIN held
        /\ \A m \in DOMAIN held' :
              held'[m] \in [head : Handle, len : Lens, rec : Records \cup {Blank}]
    BY <1>3, <2>0, <2>1, EntryType
  <2>4. held'[n].rec = Blank
    BY <1>3, <2>1 DEF TypeOK
  <2>5. TypeOK'
    BY <2>1, <2>2, <2>3 DEF TypeOK
  <2>6. CallInv'
    BY <1>0, <1>3, <2>1, <2>3, <2>4 DEF CallInv, Whole
  <2> QED BY <2>5, <2>6
<1> QED BY <1>1, <1>2, <1>3

LEMMA DeleteType ==
  ASSUME TypeOK, CallInv, NEW n \in DOMAIN held, DeleteCall(n)
  PROVE  TypeOK' /\ CallInv'
<1>1. /\ op' = [pc |-> "free", call |-> "delete", owner |-> INVALID, num |-> 0,
                i |-> 0, head |-> INVALID, node |-> held[n].head, after |-> INVALID,
                len |-> 0, rec |-> Blank, remain |-> 0]
      /\ UNCHANGED <<free_list_, free_total_, next_, data_, verified, stale, crashes>>
  BY DEF DeleteCall, Idle
<1>2. op' \in OpType
  BY <1>1, ChunkFacts DEF OpType, PC, TypeOK
<1>3. DOMAIN held' \subseteq DOMAIN held /\ \A m \in DOMAIN held' : held'[m] = held[m]
  BY DEF DeleteCall
<1>4. TypeOK'
  BY <1>1, <1>2, <1>3 DEF TypeOK
<1> QED BY <1>1, <1>4 DEF CallInv

(* Steps inside a call that leave held as it is. *)
LEMMA InnerType ==
  ASSUME TypeOK, CallInv,
         \/ MallocPop \/ MallocLink \/ MallocReturn \/ SplitCopy
         \/ FreeLink \/ FreeInsert \/ FreeCount \/ UpdateMalloc
  PROVE  TypeOK' /\ CallInv'
<1> USE PoolAssumption, ChunkFacts
<1>0. op \in OpType /\ UNCHANGED <<held, verified, stale, crashes>>
  BY DEF TypeOK, MallocPop, MallocLink, LinkTo, MallocReturn, SplitCopy, Copy, FreeLink,
         FreeInsert, FreeCount, UpdateMalloc
<1>1. SUFFICES /\ free_list_' \in Handle /\ free_total_' \in Int /\ next_' \in [Chunk -> Handle]
               /\ data_' \in [Chunk -> [0 .. ChunkSize - 1 -> (Records \X Nat) \cup {Blank}]]
               /\ op' \in OpType /\ CallInv'
  BY <1>0 DEF TypeOK
<1>2. CASE MallocPop
  <2>1. op' = [op EXCEPT !.pc = "link", !.node = free_list_] /\ op.pc = "pop"
    BY <1>2 DEF MallocPop
  <2>2. op' \in OpType
    BY <1>0, <2>1 DEF OpType, PC, TypeOK
  <2>3. CallInv'
    BY <1>0, <2>1 DEF CallInv, OpType, Whole
  <2> QED BY <1>2, <2>2, <2>3 DEF MallocPop, TypeOK
<1>3. CASE MallocLink
  <2>1. op' = [op EXCEPT !.pc = "pop", !.i = @ + 1, !.head = op.node] /\ op.pc = "link"
    BY <1>3 DEF MallocLink, LinkTo
  <2>2. op' \in OpType
    <3>1. op.i + 1 \in Nat /\ op.node \in Handle
      BY <1>0 DEF OpType
    <3> QED BY <1>0, <2>1, <3>1 DEF OpType, PC
  <2>3. CallInv'
    BY <1>0, <2>1 DEF CallInv, OpType, Whole
  <2>4. next_' \in [Chunk -> Handle]
    BY <1>0, <1>3 DEF MallocLink, LinkTo, TypeOK, OpType
  <2> QED BY <1>3, <2>2, <2>3, <2>4 DEF MallocLink, LinkTo, TypeOK
<1>4. CASE MallocReturn
  <2>1. op' = [op EXCEPT !.pc = "split", !.node = op.head, !.remain = op.len] /\ op.pc = "pop"
    BY <1>4 DEF MallocReturn
  <2>2. op' \in OpType
    BY <1>0, <2>1 DEF OpType, PC
  <2>3. CallInv'
    BY <1>0, <2>1 DEF CallInv, OpType, Whole
  <2>4. free_total_' \in Int
    BY <1>0, <1>4 DEF MallocReturn, TypeOK, OpType
  <2> QED BY <1>4, <2>2, <2>3, <2>4 DEF MallocReturn, TypeOK
<1>5. CASE SplitCopy
  <2>1. /\ op.node \in Chunk /\ op.remain \in Nat /\ op.len \in Nat /\ op.rec \in Records
        /\ op.pc = "split" /\ op.remain <= op.len
    BY <1>0, <1>5 DEF SplitCopy, Copy, OpType, CallInv
  <2>2. PICK after \in Handle, left \in Nat : Copy(after, left) /\ left <= op.remain
    <3>1. CASE op.remain < ChunkSize
      BY <1>5, <2>1, <3>1 DEF SplitCopy
    <3>2. CASE ~(op.remain < ChunkSize)
      <4>1. /\ next_[op.node] \in Handle /\ op.remain - ChunkSize \in Nat
            /\ op.remain - ChunkSize <= op.remain
        BY <2>1, <3>2 DEF TypeOK
      <4> QED BY <1>5, <3>2, <4>1 DEF SplitCopy
    <3> QED BY <3>1, <3>2
  <2>3. op' = [op EXCEPT !.node = after, !.remain = left]
    BY <2>2 DEF Copy
  <2>4. op' \in OpType
    BY <1>0, <2>3 DEF OpType
  <2>5. CallInv'
    <3>1. left <= op.len
      BY <2>1, <2>2
    <3>2. /\ op'.pc = op.pc /\ op'.call = op.call /\ op'.owner = op.owner /\ op'.num = op.num
          /\ op'.len = op.len /\ op'.rec = op.rec /\ op'.head = op.head /\ op'.remain = left
      BY <1>0, <2>3 DEF OpType
    <3> QED BY <1>0, <2>1, <3>1, <3>2 DEF CallInv, Whole
  <2>6. ASSUME NEW i \in 0 .. ChunkSize - 1, i < op.remain
        PROVE  Byte(op.rec, op.len - op.remain + i) \in (Records \X Nat) \cup {Blank}
    BY <2>1, <2>6 DEF Byte
  <2> QED BY <2>1, <2>2, <2>4, <2>5, <2>6 DEF Copy, TypeOK
<1>6. CASE FreeLink
  <2>1. /\ op' = [op EXCEPT !.pc = "insert", !.after = next_[op.node]] /\ op.pc = "free"
        /\ op.node \in Chunk
    BY <1>0, <1>6 DEF FreeLink, OpType
  <2>2. op' \in OpType
    BY <1>0, <2>1 DEF OpType, PC, TypeOK
  <2>3. CallInv'
    BY <1>0, <2>1 DEF CallInv, OpType, Whole
  <2>4. next_' \in [Chunk -> Handle]
    BY <1>6, <2>1 DEF FreeLink, TypeOK
  <2> QED BY <1>6, <2>2, <2>3, <2>4 DEF FreeLink, TypeOK
<1>7. CASE FreeInsert
  <2>1. op' = [op EXCEPT !.pc = "count"] /\ op.pc = "insert"
    BY <1>7 DEF FreeInsert
  <2>2. op' \in OpType
    BY <1>0, <2>1 DEF OpType, PC
  <2>3. CallInv'
    BY <1>0, <2>1 DEF CallInv, OpType, Whole
  <2> QED BY <1>0, <1>7, <2>2, <2>3 DEF FreeInsert, TypeOK, OpType
<1>8. CASE FreeCount
  <2>1. op' = [op EXCEPT !.pc = "free", !.node = op.after, !.after = INVALID] /\ op.pc = "count"
    BY <1>8 DEF FreeCount
  <2>2. op' \in OpType
    BY <1>0, <2>1 DEF OpType, PC
  <2>3. CallInv'
    BY <1>0, <2>1 DEF CallInv, OpType, Whole
  <2> QED BY <1>8, <2>2, <2>3 DEF FreeCount, TypeOK
<1>9. CASE UpdateMalloc
  <2>1. PICK q \in {"split", "pop"} : op' = [op EXCEPT !.pc = q] /\ op.pc = "malloc"
    BY <1>9 DEF UpdateMalloc
  <2>2. op' \in OpType
    BY <1>0, <2>1 DEF OpType, PC
  <2>3. CallInv'
    <3>1. /\ op'.pc = q /\ op'.call = op.call /\ op'.owner = op.owner /\ op'.num = op.num
          /\ op'.len = op.len /\ op'.rec = op.rec /\ op'.head = op.head
          /\ op'.remain = op.remain
      BY <1>0, <2>1 DEF OpType
    <3>2. op.call = "update" /\ op.remain = 0 /\ op.len \in Nat
      BY <1>0, <2>1 DEF CallInv, OpType
    <3> QED BY <1>0, <3>1, <3>2 DEF CallInv, Whole
  <2> QED BY <1>9, <2>2, <2>3 DEF UpdateMalloc, TypeOK
<1> QED BY <1>2, <1>3, <1>4, <1>5, <1>6, <1>7, <1>8, <1>9

(* A call's last steps, and deaths. *)
LEMMA StoredType ==
  ASSUME TypeOK, CallInv,
         \/ InsertStored \/ OverwriteStored \/ UpdateLength \/ UpdateHandle
  PROVE  TypeOK' /\ CallInv'
<1> USE PoolAssumption, ChunkFacts
<1>0. /\ op \in OpType /\ Idle \in OpType
      /\ UNCHANGED <<free_list_, free_total_, next_, data_, verified, stale, crashes>>
  BY DEF TypeOK, InsertStored, OverwriteStored, UpdateLength, UpdateHandle, Idle, OpType, PC
<1>1. SUFFICES /\ DOMAIN held' \subseteq Nodes
               /\ \A n \in DOMAIN held' :
                     held'[n] \in [head : Handle, len : Lens, rec : Records \cup {Blank}]
               /\ op' \in OpType /\ CallInv'
  BY <1>0 DEF TypeOK
<1>2. /\ op.head \in Handle /\ op.len \in Lens /\ op.rec \in Records \cup {Blank}
      /\ op.call # "insert" => op.owner \in DOMAIN held \ Whole
      /\ op.call = "insert" => op.owner \in Nodes
  BY <1>0 DEF CallInv, OpType, InsertStored, OverwriteStored, UpdateLength, UpdateHandle
<1>3. CASE InsertStored
  <2>1. op' = Idle /\ op.call = "insert"
    BY <1>3 DEF InsertStored
  <2>2. [head |-> op.head, len |-> op.len, rec |-> op.rec]
          \in [head : Handle, len : Lens, rec : Records \cup {Blank}]
    BY <1>2
  <2>3. CallInv'
    BY <1>0, <2>1 DEF CallInv, Idle
  <2> QED BY <1>0, <1>2, <1>3, <2>1, <2>2, <2>3 DEF InsertStored, TypeOK
<1>4. CASE OverwriteStored
  <2>1. op' = Idle /\ op.call = "overwrite"
    BY <1>4 DEF OverwriteStored
  <2>2. /\ DOMAIN held' = DOMAIN held
        /\ \A m \in DOMAIN held' :
              held'[m] \in [head : Handle, len : Lens, rec : Records \cup {Blank}]
    BY <1>2, <1>4, <2>1, EntryType DEF OverwriteStored
  <2>3. CallInv'
    BY <1>0, <2>1 DEF CallInv, Idle
  <2> QED BY <1>0, <2>1, <2>2, <2>3 DEF TypeOK
<1>5. CASE UpdateLength
  <2>1. op' = [op EXCEPT !.pc = "handle"] /\ op.call = "update"
    BY <1>5 DEF UpdateLength
  <2>2. /\ DOMAIN held' = DOMAIN held
        /\ \A m \in DOMAIN held' :
              held'[m] \in [head : Handle, len : Lens, rec : Records \cup {Blank}]
    BY <1>2, <1>5, <2>1, EntryType DEF UpdateLength
  <2>3. op' \in OpType
    BY <1>0, <2>1 DEF OpType, PC
  <2>4. held'[op.owner].rec = held[op.owner].rec
    BY <1>2, <1>5, <2>1 DEF UpdateLength, TypeOK
  <2>5. CallInv'
    BY <1>0, <1>2, <2>1, <2>2, <2>4 DEF CallInv, OpType, Whole
  <2> QED BY <2>2, <2>3, <2>5 DEF TypeOK
<1>6. CASE UpdateHandle
  <2>1. op' = Idle /\ op.call = "update"
    BY <1>6 DEF UpdateHandle, CallInv
  <2>2. /\ DOMAIN held' = DOMAIN held
        /\ \A m \in DOMAIN held' :
              held'[m] \in [head : Handle, len : Lens, rec : Records \cup {Blank}]
    BY <1>2, <1>6, <2>1, EntryType DEF UpdateHandle
  <2>3. CallInv'
    BY <1>0, <2>1 DEF CallInv, Idle
  <2> QED BY <1>0, <2>1, <2>2, <2>3 DEF TypeOK
<1> QED BY <1>3, <1>4, <1>5, <1>6

(* A death; MallocNull only follows one.  In NeverNull's condition it      *)
(* cannot happen, which is why crashes # 0 is a hypothesis here.           *)
LEMMA DiesType ==
  ASSUME TypeOK, CallInv, Dies, crashes' \in 0 .. MaxCrashes,
         stale' => crashes' # 0
  PROVE  TypeOK' /\ CallInv'
<1>1. Idle \in OpType /\ op' = Idle
  BY ChunkFacts DEF Dies, Idle, OpType, PC
<1>2. TypeOK'
  BY <1>1 DEF Dies, TypeOK
<1> QED BY <1>1, <1>2 DEF CallInv, Idle

LEMMA FreeReturnType ==
  ASSUME TypeOK, CallInv, FreeReturn
  PROVE  TypeOK' /\ CallInv'
<1>0. op \in OpType /\ UNCHANGED <<free_list_, free_total_, next_, data_, held, verified, stale, crashes>>
  BY DEF TypeOK, FreeReturn
<1>1. CASE op.call = "update"
  <2>1. op' = [op EXCEPT !.pc = "malloc"] /\ op.pc = "free" /\ op.node = INVALID
    BY <1>1 DEF FreeReturn
  <2>2. op' \in OpType
    BY <1>0, <2>1 DEF OpType, PC
  <2>3. TypeOK'
    BY <1>0, <2>2 DEF TypeOK
  <2> QED BY <1>0, <1>1, <2>1, <2>3 DEF CallInv, OpType, Whole
<1>2. CASE op.call # "update"
  <2>1. op' = Idle /\ Idle \in OpType
    BY <1>2, ChunkFacts DEF FreeReturn, Idle, OpType, PC
  <2>2. TypeOK'
    BY <1>0, <2>1 DEF TypeOK
  <2> QED BY <1>0, <2>1, <2>2 DEF CallInv, Idle
<1> QED BY <1>1, <1>2

LEMMA NullType ==
  ASSUME TypeOK, CallInv, MallocNull, ~stale => crashes # 0
  PROVE  TypeOK' /\ CallInv'
<1>1. crashes' = crashes /\ (stale => crashes # 0)
  BY DEF MallocNull, CallInv
<1> QED BY <1>1, DiesType DEF MallocNull, TypeOK

LEMMA CrashType ==
  ASSUME TypeOK, CallInv, Crash
  PROVE  TypeOK' /\ CallInv'
<1>1. crashes' \in 0 .. MaxCrashes /\ crashes' # 0
  BY PoolAssumption DEF Crash, TypeOK
<1> QED BY <1>1, DiesType DEF Crash

LEMMA StillType ==
  ASSUME TypeOK, CallInv,
         \/ Open \/ UNCHANGED vars
         \/ \E len \in Lens : InsertLack(len) \/ \E n \in DOMAIN held : UpdateLack(n, len)
  PROVE  TypeOK' /\ CallInv'
<1>1. /\ UNCHANGED <<free_list_, free_total_, next_, data_, held, op, stale, crashes>>
      /\ verified' \in BOOLEAN
  BY DEF Open, vars, InsertLack, UpdateLack, TypeOK
<1>2. TypeOK'
  BY <1>1 DEF TypeOK
<1>3. CallInv'
  BY <1>1 DEF CallInv, Whole
<1> QED BY <1>2, <1>3

LEMMA NextType ==
  ASSUME TypeOK, CallInv, [Next]_vars, MallocNull => (~stale => crashes # 0)
  PROVE  TypeOK' /\ CallInv'
<1>1. ASSUME NEW len \in Lens, NEW r \in Records, NEW n \in Nodes \ DOMAIN held,
             InsertCall(n, len, r)
      PROVE  TypeOK' /\ CallInv'
  BY <1>1, CallsType
<1>2. ASSUME NEW len \in Lens, NEW r \in Records, NEW n \in DOMAIN held,
             OverwriteCall(n, len, r) \/ UpdateCall(n, len, r)
      PROVE  TypeOK' /\ CallInv'
  <2>1. n \in Nodes
    BY DEF TypeOK
  <2> QED BY <1>2, <2>1, CallsType
<1> QED BY <1>1, <1>2, DeleteType, InnerType, StoredType, FreeReturnType, NullType,
           CrashType, StillType DEF Next, Step

-----------------------------------------------------------------------------
(* The lists: what each step does to ListInv. *)

(* Which nodes are live before and after a step. *)
LEMMA LiveSame ==
  ASSUME op'.call = op.call, op'.owner = op.owner, DOMAIN held' = DOMAIN held
  PROVE  Live' = Live
BY DEF Live

LEMMA LiveIdle ==
  ASSUME CallInv, op.pc = "idle"
  PROVE  Live = DOMAIN held
BY DEF CallInv, Live

(* A step that stores no link and leaves all chains where they are. *)
LEMMA SameLists ==
  ASSUME Live' = Live, \A n \in Live : held'[n].head = held[n].head,
         UNCHANGED <<free_list_, next_>>, OpHead' = OpHead, OpChunk' = OpChunk
  PROVE  /\ FreeChunks' = FreeChunks /\ OpChunks' = OpChunks /\ Taken' = Taken
         /\ Disjoint => Disjoint'
         /\ AllEnd => AllEnd'
         /\ HeadInv => HeadInv'
BY DEF FreeChunks, OpChunks, Taken, Disjoint, AllEnd, HeadInv, List, Ends

(* The chain of a node comes into the hands of the call. *)
LEMMA TakeLists ==
  ASSUME TypeOK, Disjoint, AllEnd, HeadInv, NEW n \in Live, Live' = Live \ {n},
         \A m \in Live' : held'[m].head = held[m].head,
         UNCHANGED <<free_list_, next_>>,
         OpHead = INVALID, OpChunk = {}, OpHead' = held[n].head, OpChunk' = {}
  PROVE  /\ Disjoint' /\ AllEnd' /\ HeadInv' /\ FreeChunks' = FreeChunks
         /\ OpChunks' \cup Taken' = OpChunks \cup Taken
         /\ OpChunks' = List(held[n].head)
<1>0. List(INVALID) = {}
  BY ListHead
<1>1. FreeChunks' = FreeChunks /\ OpChunks' = List(held[n].head) /\ OpChunks = {}
  BY <1>0 DEF FreeChunks, OpChunks, List
<1>2. \A m \in Live' : List(held[m].head)' = List(held[m].head)
  BY DEF List
<1>3. Disjoint'
  BY <1>1, <1>2 DEF Disjoint
<1>4. AllEnd' /\ HeadInv'
  BY DEF AllEnd, HeadInv, Ends
<1>5. OpChunks' \cup Taken' = OpChunks \cup Taken
  BY <1>1, <1>2 DEF Taken
<1> QED BY <1>1, <1>3, <1>4, <1>5

(* The chain in the hands of the call becomes that of a node. *)
LEMMA GiveLists ==
  ASSUME TypeOK, Disjoint, AllEnd, HeadInv, NEW n, n \notin Live, Live' = Live \cup {n},
         \A m \in Live : held'[m].head = held[m].head, held'[n].head = OpHead,
         UNCHANGED <<free_list_, next_>>, OpHead # INVALID,
         OpChunk = {}, OpHead' = INVALID, OpChunk' = {}
  PROVE  /\ Disjoint' /\ AllEnd' /\ HeadInv' /\ FreeChunks' = FreeChunks
         /\ OpChunks' \cup Taken' = OpChunks \cup Taken
<1>0. List(INVALID) = {} /\ Ends(INVALID)
  BY ListHead DEF Ends, Acyclic, List
<1>1. FreeChunks' = FreeChunks /\ OpChunks' = {} /\ OpChunks = List(OpHead)
  BY <1>0 DEF FreeChunks, OpChunks, List
<1>2. /\ \A m \in Live : List(held[m].head)' = List(held[m].head)
      /\ List(held[n].head)' = List(OpHead)
  BY DEF List
<1>3. Disjoint'
  BY <1>1, <1>2 DEF Disjoint
<1>4. AllEnd' /\ HeadInv'
  BY <1>0 DEF AllEnd, HeadInv, Ends
<1>5. Taken' = Taken \cup List(OpHead)
  BY <1>2 DEF Taken
<1> QED BY <1>1, <1>3, <1>4, <1>5

(* The chunks in the hands of the call are lost with it. *)
LEMMA DropLists ==
  ASSUME TypeOK, Disjoint, AllEnd, HeadInv, Live' = Live,
         \A m \in Live : held'[m].head = held[m].head,
         UNCHANGED <<free_list_, next_>>, OpHead' = INVALID, OpChunk' = {}
  PROVE  Disjoint' /\ AllEnd' /\ HeadInv'
<1>0. List(INVALID) = {} /\ Ends(INVALID)
  BY ListHead DEF Ends, Acyclic, List
<1>1. FreeChunks' = FreeChunks /\ OpChunks' = {}
  BY <1>0 DEF FreeChunks, OpChunks, List
<1>2. \A m \in Live : List(held[m].head)' = List(held[m].head)
  BY DEF List
<1>3. Disjoint'
  BY <1>1, <1>2 DEF Disjoint
<1>4. AllEnd' /\ HeadInv'
  BY <1>0 DEF AllEnd, HeadInv, Ends
<1> QED BY <1>3, <1>4

-----------------------------------------------------------------------------
(* Calls begin. *)
LEMMA InsertCallInv ==
  ASSUME TypeOK, CallInv, ListInv, NEW len \in Lens, NEW r \in Records, NEW n,
         InsertCall(n, len, r)
  PROVE  ListInv'
<1>1. /\ op.pc = "idle" /\ op'.pc = "pop" /\ op'.i = 0 /\ op'.head = INVALID
      /\ op'.num = get_chunk_num(len) /\ op'.call = "insert"
      /\ free_total_ >= get_chunk_num(len)
  BY DEF InsertCall, Call, Idle
<1>2. UNCHANGED <<free_list_, free_total_, next_, held, verified, crashes>>
  BY DEF InsertCall
<1>3. OpHead = INVALID /\ OpHead' = INVALID /\ OpChunk = {} /\ OpChunk' = {}
  BY <1>1 DEF OpHead, OpChunk
<1>4. Live' = Live
  BY <1>1, <1>2, LiveIdle DEF Live
<1>5. /\ Disjoint' /\ AllEnd' /\ HeadInv' /\ FreeChunks' = FreeChunks
      /\ OpChunks' = OpChunks /\ Taken' = Taken
  BY <1>2, <1>3, <1>4, SameLists DEF ListInv
<1>6. NoLeak'
  BY <1>2, <1>5 DEF ListInv, NoLeak
<1>7. OpInv'
  BY <1>1, <1>2, ChunkNum DEF OpInv
<1>8. CountInv'
  BY <1>1, <1>2, <1>5 DEF ListInv, CountInv, Ahead
<1> QED BY <1>5, <1>6, <1>7, <1>8 DEF ListInv

(* A call takes the chain of a node: overwrite, update and delete. *)
LEMMA TakeCallInv ==
  ASSUME TypeOK, CallInv, ListInv, NEW n \in DOMAIN held,
         \/ DeleteCall(n)
         \/ \E len \in Lens, r \in Records : OverwriteCall(n, len, r) \/ UpdateCall(n, len, r)
  PROVE  ListInv' /\ OpChunks' = List(held[n].head) /\ Live = DOMAIN held /\ Live' = Live \ {n}
<1>1. /\ op.pc = "idle" /\ op'.pc \in {"free", "split"}
      /\ op'.pc = "free" => op'.node = held[n].head
      /\ op'.pc = "split" => op'.head = held[n].head
      /\ UNCHANGED <<free_list_, free_total_, next_, verified, crashes>>
      /\ \/ op'.call = "delete" /\ DOMAIN held' = DOMAIN held \ {n}
         \/ op'.call \in {"update", "overwrite"} /\ op'.owner = n /\ DOMAIN held' = DOMAIN held
  <2>1. CASE DeleteCall(n)
    BY <2>1 DEF DeleteCall, Idle
  <2>2. ASSUME NEW len \in Lens, NEW r \in Records, OverwriteCall(n, len, r)
        PROVE  /\ op.pc = "idle" /\ op'.pc = "split" /\ op'.head = held[n].head
               /\ UNCHANGED <<free_list_, free_total_, next_, verified, crashes>>
               /\ op'.call = "overwrite" /\ op'.owner = n /\ DOMAIN held' = DOMAIN held
    BY <2>2 DEF OverwriteCall, Call, Idle
  <2>3. ASSUME NEW len \in Lens, NEW r \in Records, UpdateCall(n, len, r)
        PROVE  /\ op.pc = "idle" /\ op'.pc = "free" /\ op'.node = held[n].head
               /\ UNCHANGED <<free_list_, free_total_, next_, verified, crashes>>
               /\ op'.call = "update" /\ op'.owner = n /\ DOMAIN held' = DOMAIN held
    BY <2>3 DEF UpdateCall, UpdateTurn, Call, Idle
  <2> QED BY <2>1, <2>2, <2>3
<1>2. Live = DOMAIN held /\ Live' = Live \ {n}
  BY <1>1, LiveIdle DEF Live
<1>3. \A m \in Live' : held'[m].head = held[m].head
  BY <1>2 DEF DeleteCall, OverwriteCall, UpdateCall, UpdateTurn, TypeOK
<1>4. /\ OpHead = INVALID /\ OpHead' = held[n].head /\ OpChunk = {} /\ OpChunk' = {}
  BY <1>1 DEF OpHead, OpChunk
<1>5. /\ Disjoint' /\ AllEnd' /\ HeadInv' /\ FreeChunks' = FreeChunks
      /\ OpChunks' \cup Taken' = OpChunks \cup Taken /\ OpChunks' = List(held[n].head)
  BY <1>1, <1>2, <1>3, <1>4, TakeLists DEF ListInv
<1>6. NoLeak'
  BY <1>1, <1>5 DEF ListInv, NoLeak
<1>7. OpInv'
  BY <1>1, <1>2 DEF OpInv, ListInv, HeadInv
<1>8. CountInv'
  BY <1>1, <1>5 DEF ListInv, CountInv, Ahead
<1> QED BY <1>2, <1>5, <1>6, <1>7, <1>8 DEF ListInv

-----------------------------------------------------------------------------
(* Calls go on, and store no link. *)
LEMMA MallocReturnInv ==
  ASSUME TypeOK, CallInv, ListInv, MallocReturn
  PROVE  ListInv'
<1>1. /\ op.pc = "pop" /\ op.i = op.num /\ op'.pc = "split" /\ op'.head = op.head
      /\ op'.call = op.call /\ op'.owner = op.owner
      /\ free_total_' = free_total_ - op.num
  BY DEF MallocReturn, TypeOK, OpType
<1>2. UNCHANGED <<free_list_, next_, held, verified, crashes>>
  BY DEF MallocReturn
<1>3. OpHead' = OpHead /\ OpChunk = {} /\ OpChunk' = {} /\ Live' = Live
  BY <1>1, <1>2, LiveSame DEF OpHead, OpChunk
<1>4. /\ Disjoint' /\ AllEnd' /\ HeadInv' /\ FreeChunks' = FreeChunks
      /\ OpChunks' = OpChunks /\ Taken' = Taken
  BY <1>2, <1>3, SameLists DEF ListInv
<1>5. NoLeak'
  BY <1>2, <1>4 DEF ListInv, NoLeak
<1>6. OpInv'
  BY <1>1 DEF ListInv, OpInv
<1>7. CountInv'
  <2>1. Cardinality(FreeChunks) \in Nat
    BY FiniteLists DEF FreeChunks
  <2> QED BY <1>1, <1>2, <1>4, <2>1 DEF ListInv, CountInv, Ahead, TypeOK, OpType
<1> QED BY <1>4, <1>5, <1>6, <1>7 DEF ListInv

LEMMA SplitCopyInv ==
  ASSUME TypeOK, CallInv, ListInv, SplitCopy
  PROVE  ListInv'
<1>1. /\ op.pc = "split" /\ op'.pc = "split" /\ op'.head = op.head
      /\ op'.call = op.call /\ op'.owner = op.owner
  BY DEF SplitCopy, Copy, TypeOK, OpType
<1>2. UNCHANGED <<free_list_, free_total_, next_, held, verified, crashes>>
  BY DEF SplitCopy, Copy
<1>3. OpHead' = OpHead /\ OpChunk = {} /\ OpChunk' = {} /\ Live' = Live
  BY <1>1, <1>2, LiveSame DEF OpHead, OpChunk
<1>4. /\ Disjoint' /\ AllEnd' /\ HeadInv' /\ FreeChunks' = FreeChunks
      /\ OpChunks' = OpChunks /\ Taken' = Taken
  BY <1>2, <1>3, SameLists DEF ListInv
<1>5. NoLeak'
  BY <1>2, <1>4 DEF ListInv, NoLeak
<1>6. OpInv'
  BY <1>1 DEF ListInv, OpInv
<1>7. CountInv'
  BY <1>1, <1>2, <1>4 DEF ListInv, CountInv, Ahead
<1> QED BY <1>4, <1>5, <1>6, <1>7 DEF ListInv

(* The node has its record.  A call that ends: the chain goes to a node.   *)
LEMMA StoredInv ==
  ASSUME TypeOK, CallInv, ListInv, InsertStored \/ OverwriteStored \/ UpdateHandle
  PROVE  /\ ListInv'
         /\ op.owner \notin Live /\ Live' = Live \cup {op.owner}
         /\ \A m \in Live : held'[m] = held[m]
         /\ held'[op.owner].head = op.head /\ OpHead = op.head
<1>1. /\ op.pc \in {"split", "handle"} /\ op' = Idle
      /\ UNCHANGED <<free_list_, free_total_, next_, verified, crashes>>
      /\ op.call \in {"insert", "overwrite", "update"}
  BY DEF InsertStored, OverwriteStored, UpdateHandle, CallInv
<1>2. op'.pc = "idle" /\ op'.call = "none"
  BY <1>1 DEF Idle
<1>3. op.call # "insert" => op.owner \in DOMAIN held
  BY <1>1 DEF CallInv
<1>4. op.owner \notin Live /\ Live' = Live \cup {op.owner}
  BY <1>1, <1>2, <1>3 DEF CallInv, Live, InsertStored, OverwriteStored, UpdateHandle, TypeOK
<1>5. \A m \in Live : held'[m] = held[m]
  BY <1>3, <1>4 DEF InsertStored, OverwriteStored, UpdateHandle, TypeOK, Live
<1>6. held'[op.owner].head = op.head
  BY <1>3 DEF InsertStored, OverwriteStored, UpdateHandle, TypeOK, CallInv
<1>7. /\ OpHead = op.head /\ op.head # INVALID /\ OpHead' = INVALID
      /\ OpChunk = {} /\ OpChunk' = {}
  BY <1>1, <1>2 DEF OpHead, OpChunk, ListInv, OpInv
<1>8. /\ Disjoint' /\ AllEnd' /\ HeadInv' /\ FreeChunks' = FreeChunks
      /\ OpChunks' \cup Taken' = OpChunks \cup Taken
  BY <1>1, <1>4, <1>5, <1>6, <1>7, GiveLists DEF ListInv
<1>9. NoLeak'
  BY <1>1, <1>8 DEF ListInv, NoLeak
<1>10. OpInv'
  BY <1>2 DEF OpInv
<1>11. CountInv'
  BY <1>1, <1>2, <1>8 DEF ListInv, CountInv, Ahead
<1> QED BY <1>4, <1>5, <1>6, <1>7, <1>8, <1>9, <1>10, <1>11 DEF ListInv

LEMMA UpdateLengthInv ==
  ASSUME TypeOK, CallInv, ListInv, UpdateLength
  PROVE  ListInv' /\ Live' = Live /\ \A m \in Live : held'[m] = held[m]
<1>1. /\ op.pc = "split" /\ op'.pc = "handle" /\ op'.head = op.head
      /\ op'.call = op.call /\ op'.owner = op.owner /\ op.call = "update"
  BY DEF UpdateLength, TypeOK, OpType
<1>2. UNCHANGED <<free_list_, free_total_, next_, verified, crashes>> /\ DOMAIN held' = DOMAIN held
  BY DEF UpdateLength
<1>3. OpHead' = OpHead /\ OpChunk = {} /\ OpChunk' = {} /\ Live' = Live
  BY <1>1, <1>2, LiveSame DEF OpHead, OpChunk
<1>4. \A m \in Live : held'[m] = held[m]
  BY <1>1 DEF Live, UpdateLength
<1>5. /\ Disjoint' /\ AllEnd' /\ HeadInv' /\ FreeChunks' = FreeChunks
      /\ OpChunks' = OpChunks /\ Taken' = Taken
  BY <1>2, <1>3, <1>4, SameLists DEF ListInv
<1>6. NoLeak'
  BY <1>2, <1>5 DEF ListInv, NoLeak
<1>7. OpInv'
  BY <1>1 DEF ListInv, OpInv
<1>8. CountInv'
  BY <1>1, <1>2, <1>5 DEF ListInv, CountInv, Ahead
<1> QED BY <1>3, <1>4, <1>5, <1>6, <1>7, <1>8 DEF ListInv

LEMMA UpdateMallocInv ==
  ASSUME TypeOK, CallInv, ListInv, free_total_ >= op.num, UpdateMalloc
  PROVE  ListInv'
<1>1. /\ op.pc = "malloc" /\ op'.pc = "pop" /\ op'.head = op.head /\ op'.i = op.i
      /\ op'.num = op.num /\ op'.call = op.call /\ op'.owner = op.owner
      /\ op.head = INVALID /\ op.i = 0 /\ op.num = get_chunk_num(op.len) /\ op.len \in Lens
  <2>1. op.pc = "malloc" /\ op.num \in Nat /\ free_total_ \in Int
    BY DEF UpdateMalloc, TypeOK, OpType
  <2>2. op' = [op EXCEPT !.pc = "pop"]
    BY <2>1 DEF UpdateMalloc
  <2> QED BY <2>1, <2>2 DEF TypeOK, OpType, CallInv
<1>2. UNCHANGED <<free_list_, free_total_, next_, held, verified, crashes>>
  BY DEF UpdateMalloc
<1>3. OpHead = INVALID /\ OpHead' = INVALID /\ OpChunk = {} /\ OpChunk' = {} /\ Live' = Live
  BY <1>1, <1>2, LiveSame DEF OpHead, OpChunk
<1>4. /\ Disjoint' /\ AllEnd' /\ HeadInv' /\ FreeChunks' = FreeChunks
      /\ OpChunks' = OpChunks /\ Taken' = Taken
  BY <1>2, <1>3, SameLists DEF ListInv
<1>5. NoLeak'
  BY <1>2, <1>4 DEF ListInv, NoLeak
<1>6. OpInv'
  BY <1>1, <1>2, ChunkNum DEF OpInv
<1>7. CountInv'
  BY <1>1, <1>2, <1>4 DEF ListInv, CountInv, Ahead
<1> QED BY <1>4, <1>5, <1>6, <1>7 DEF ListInv

LEMMA FreeCountInv ==
  ASSUME TypeOK, CallInv, ListInv, FreeCount
  PROVE  ListInv' /\ OpChunks' = OpChunks
<1>1. /\ op.pc = "count" /\ op'.pc = "free" /\ op'.node = op.after
      /\ op'.call = op.call /\ op'.owner = op.owner
  BY DEF FreeCount, TypeOK, OpType
<1>2. UNCHANGED <<free_list_, next_, held, verified, crashes>> /\ free_total_' = free_total_ + 1
  BY DEF FreeCount
<1>3. OpHead' = OpHead /\ OpChunk = {} /\ OpChunk' = {} /\ Live' = Live
  BY <1>1, <1>2, LiveSame DEF OpHead, OpChunk
<1>4. /\ Disjoint' /\ AllEnd' /\ HeadInv' /\ FreeChunks' = FreeChunks
      /\ OpChunks' = OpChunks /\ Taken' = Taken
  BY <1>2, <1>3, SameLists DEF ListInv
<1>5. NoLeak'
  BY <1>2, <1>4 DEF ListInv, NoLeak
<1>6. OpInv'
  BY <1>1 DEF OpInv
<1>7. CountInv'
  BY <1>1, <1>2, <1>4 DEF ListInv, CountInv, Ahead, TypeOK
<1> QED BY <1>4, <1>5, <1>6, <1>7 DEF ListInv

LEMMA FreeReturnInv ==
  ASSUME TypeOK, CallInv, ListInv, FreeReturn
  PROVE  ListInv' /\ OpChunks' = OpChunks /\ Live' = Live
<1>1. op.pc = "free" /\ op.node = INVALID
  BY DEF FreeReturn
<1>2. UNCHANGED <<free_list_, free_total_, next_, held, verified, crashes>>
  BY DEF FreeReturn
<1>3. /\ op'.pc \in {"idle", "malloc"}
      /\ op.call = "update" => op'.call = op.call /\ op'.owner = op.owner
      /\ op.call # "update" => op.call = "delete" /\ op'.call = "none"
  BY <1>1 DEF FreeReturn, Idle, TypeOK, OpType, CallInv
<1>4. OpHead = INVALID /\ OpHead' = INVALID /\ OpChunk = {} /\ OpChunk' = {} /\ Live' = Live
  BY <1>1, <1>2, <1>3 DEF OpHead, OpChunk, Live
<1>5. /\ Disjoint' /\ AllEnd' /\ HeadInv' /\ FreeChunks' = FreeChunks
      /\ OpChunks' = OpChunks /\ Taken' = Taken
  BY <1>2, <1>4, SameLists DEF ListInv
<1>6. NoLeak'
  BY <1>2, <1>5 DEF ListInv, NoLeak
<1>7. OpInv'
  BY <1>3 DEF OpInv
<1>8. CountInv'
  BY <1>1, <1>2, <1>3, <1>5 DEF ListInv, CountInv, Ahead
<1> QED BY <1>4, <1>5, <1>6, <1>7, <1>8 DEF ListInv

(* A process dies outside an update: what it had in hand is on no list any *)
(* more, but for the chain of a record it was writing over.                *)
LEMMA DiesInv ==
  ASSUME TypeOK, CallInv, ListInv, Dies, ~stale', crashes' # 0
  PROVE  ListInv'
<1>1. /\ op'.pc = "idle" /\ op'.call = "none" /\ op.call # "update" /\ ~verified'
      /\ UNCHANGED <<free_list_, free_total_, next_, held>>
  BY DEF Dies, Idle
<1>2. OpHead' = INVALID /\ OpChunk' = {}
  BY <1>1 DEF OpHead, OpChunk
<1>3. CASE op.call = "overwrite"
  <2>1. /\ op.owner \notin Live /\ Live' = Live \cup {op.owner}
        /\ OpHead = held[op.owner].head /\ OpChunk = {} /\ OpHead # INVALID
    BY <1>1, <1>3 DEF CallInv, Live, OpHead, OpChunk, ListInv, OpInv
  <2>2. Disjoint' /\ AllEnd' /\ HeadInv'
    BY <1>1, <1>2, <2>1, GiveLists DEF ListInv
  <2> QED BY <1>1, <2>2 DEF ListInv, OpInv, CountInv, NoLeak
<1>4. CASE op.call # "overwrite"
  <2>1. Live' = Live
    BY <1>1, <1>4 DEF Live
  <2>2. Disjoint' /\ AllEnd' /\ HeadInv'
    BY <1>1, <1>2, <2>1, DropLists DEF ListInv
  <2> QED BY <1>1, <2>2 DEF ListInv, OpInv, CountInv, NoLeak
<1> QED BY <1>3, <1>4

(* A malloc that runs off the free list can only follow a death. *)
LEMMA NeverNull ==
  ASSUME TypeOK, ListInv, verified, op.pc = "pop", op.i < op.num
  PROVE  free_list_ # INVALID
<1> SUFFICES ASSUME free_list_ = INVALID PROVE FALSE
  OBVIOUS
<1>1. Cardinality(FreeChunks) = free_total_ - op.i /\ op.num <= free_total_
  BY DEF ListInv, CountInv, OpInv, Ahead
<1>2. FreeChunks = {}
  BY ListHead DEF FreeChunks
<1> QED BY <1>1, <1>2, FS_EmptySet DEF TypeOK, OpType

LEMMA NullAfterDeath ==
  ASSUME TypeOK, ListInv, MallocNull
  PROVE  crashes # 0 /\ crashes' # 0
BY NeverNull DEF MallocNull, ListInv, CountInv

LEMMA OpenInv ==
  ASSUME TypeOK, CallInv, ListInv, Open
  PROVE  ListInv'
<1>1. op.pc = "idle" /\ Cardinality(FreeChunks) = free_total_
  BY DEF Open, verify_pool_data
<1>2. UNCHANGED <<free_list_, free_total_, next_, held, op, crashes>> /\ verified'
  BY DEF Open
<1>3. OpHead' = OpHead /\ OpChunk' = OpChunk /\ Live' = Live
  BY <1>2 DEF OpHead, OpChunk, Live
<1>4. /\ Disjoint' /\ AllEnd' /\ HeadInv' /\ FreeChunks' = FreeChunks
      /\ OpChunks' = OpChunks /\ Taken' = Taken
  BY <1>2, <1>3, SameLists DEF ListInv
<1>5. NoLeak'
  BY <1>2, <1>4 DEF ListInv, NoLeak
<1>6. OpInv'
  BY <1>1, <1>2 DEF OpInv
<1>7. CountInv'
  BY <1>1, <1>2, <1>4 DEF ListInv, CountInv, Ahead, TypeOK
<1> QED BY <1>4, <1>5, <1>6, <1>7 DEF ListInv

-----------------------------------------------------------------------------
(* Steps that store a link or the head of the free list. *)

(* The lists that a chunk is not on keep their chunks when its link is     *)
(* overwritten.                                                            *)
LEMMA StoreFrame ==
  ASSUME TypeOK, NEW d \in Chunk, NEW x \in Handle,
         next_' = [next_ EXCEPT ![d] = x]
  PROVE  \A h \in Handle : d \notin List(h) =>
            /\ Reach(Chunk, next_', h) = List(h)
            /\ Ends(h) => Acyclic(Chunk, next_', h)
<1>1. /\ next_ \in [Chunk -> Chunk \cup {INVALID}]
      /\ next_' \in [Chunk -> Chunk \cup {INVALID}]
      /\ \A c \in Chunk : c # d => next_'[c] = next_[c]
  BY ChunkFacts DEF TypeOK
<1>2. ASSUME NEW n1 \in [Chunk -> Chunk \cup {INVALID}],
             NEW n2 \in [Chunk -> Chunk \cup {INVALID}],
             \A c \in Chunk : c # d => n2[c] = n1[c],
             NEW h \in Chunk \cup {INVALID}, d \notin Reach(Chunk, n1, h)
      PROVE  /\ Reach(Chunk, n2, h) = Reach(Chunk, n1, h)
             /\ Acyclic(Chunk, n1, h) => Acyclic(Chunk, n2, h)
  <2>1. \A c \in Reach(Chunk, n1, h) : n2[c] = n1[c]
    BY <1>2 DEF Reach
  <2> QED BY <2>1, ReachFrame, AcyclicFrame
<1> QED BY <1>1, <1>2, ChunkFacts DEF List, Ends

LEMMA LiveHead == ASSUME TypeOK PROVE \A n \in Live : held[n].head \in Handle
BY DEF TypeOK, Live

(* A chunk in the hands of the call is on no other list. *)
LEMMA OpApart ==
  ASSUME Disjoint, NEW d \in OpChunks
  PROVE  /\ d \notin FreeChunks
         /\ \A n \in Live : d \notin List(held[n].head)
BY DEF Disjoint

LEMMA MallocPopInv ==
  ASSUME TypeOK, CallInv, ListInv, MallocPop
  PROVE  ListInv'
<1> DEFINE h == free_list_
<1>1. /\ op.pc = "pop" /\ op'.pc = "link" /\ op'.node = h /\ op'.head = op.head
      /\ op'.i = op.i /\ op'.num = op.num /\ op.i < op.num
      /\ op'.call = op.call /\ op'.owner = op.owner
  BY DEF MallocPop, TypeOK, OpType
<1>2. UNCHANGED <<free_total_, next_, held, verified, crashes>> /\ free_list_' = next_[h]
  BY DEF MallocPop
<1>3. h \in Chunk
  BY ChunkFacts DEF MallocPop, TypeOK
<1>4. /\ OpHead = op.head /\ OpHead' = op.head /\ OpChunk = {} /\ OpChunk' = {h}
      /\ Live' = Live
  BY <1>1, <1>2, LiveSame DEF OpHead, OpChunk
<1>6. FreeChunks = {h} \cup List(next_[h]) /\ FreeChunks' = List(next_[h])
  BY <1>2, <1>3, ListHead DEF FreeChunks, List
<1>7. h \notin List(next_[h]) /\ Ends(next_[h])
  <2>1. next_ \in [Chunk -> Chunk \cup {INVALID}] /\ INVALID \notin Chunk
    BY ChunkFacts DEF TypeOK
  <2>2. Acyclic(Chunk, next_, h)
    BY DEF ListInv, AllEnd, Ends
  <2> QED BY <1>3, <2>1, <2>2, AcyclicTail DEF List, Ends
<1>a. OpChunks = List(op.head) /\ OpChunks' = List(op.head) \cup {h}
  BY <1>2, <1>4 DEF OpChunks, List
<1>b. \A n \in Live : List(held[n].head)' = List(held[n].head)
  BY <1>2 DEF List
<1>8. Disjoint'
  BY <1>4, <1>6, <1>7, <1>a, <1>b DEF ListInv, Disjoint
<1>9. AllEnd' /\ HeadInv'
  BY <1>2, <1>4, <1>7 DEF ListInv, AllEnd, Ends, HeadInv
<1>10. NoLeak'
  <2>1. Taken' = Taken
    BY <1>4, <1>b DEF Taken
  <2> QED BY <1>2, <1>6, <1>a, <2>1 DEF ListInv, NoLeak
<1>11. OpInv'
  <2>1. h \notin List(op.head)
    BY <1>6, <1>a DEF ListInv, Disjoint
  <2>2. List(OpHead)' = List(op.head)
    BY <1>2, <1>4 DEF List
  <2> QED BY <1>1, <1>2, <1>3, <2>1, <2>2 DEF ListInv, OpInv
<1>12. CountInv'
  <2>1. Cardinality(FreeChunks) = Cardinality(List(next_[h])) + 1
    BY <1>6, <1>7, FiniteLists, FS_AddElement
  <2>2. Cardinality(List(next_[h])) \in Nat /\ free_total_ \in Int /\ op.i \in Nat
    BY FiniteLists DEF TypeOK, OpType
  <2> QED BY <1>1, <1>2, <1>6, <2>1, <2>2 DEF ListInv, CountInv, Ahead
<1> QED BY <1>8, <1>9, <1>10, <1>11, <1>12 DEF ListInv

LEMMA MallocLinkInv ==
  ASSUME TypeOK, CallInv, ListInv, MallocLink
  PROVE  ListInv'
<1> DEFINE d == op.node
           g == op.head
<1>1. /\ op.pc = "link" /\ op'.pc = "pop" /\ op'.head = d
      /\ op'.i = op.i + 1 /\ op'.num = op.num
      /\ op'.call = op.call /\ op'.owner = op.owner
  BY DEF MallocLink, LinkTo, TypeOK, OpType
<1>2. /\ UNCHANGED <<free_list_, free_total_, held, verified, crashes>>
      /\ next_' = [next_ EXCEPT ![d] = g]
  BY DEF MallocLink, LinkTo
<1>3. OpHead = g /\ OpHead' = d /\ OpChunk = {d} /\ OpChunk' = {} /\ Live' = Live
  BY <1>1, <1>2, LiveSame DEF OpHead, OpChunk
<1>4. d \in Chunk /\ g \in Handle /\ d \notin List(g) /\ Ends(g)
  BY <1>1, <1>3 DEF ListInv, OpInv, AllEnd, TypeOK, OpType
<1>5. /\ Reach(Chunk, next_', d) = {d} \cup List(g)
      /\ Acyclic(Chunk, next_', d)
  <2>1. /\ next_ \in [Chunk -> Chunk \cup {INVALID}]
        /\ next_' \in [Chunk -> Chunk \cup {INVALID}]
        /\ next_'[d] = g /\ \A c \in Chunk : c # d => next_'[c] = next_[c]
    BY <1>2, <1>4, ChunkFacts DEF TypeOK
  <2> QED BY <1>4, <2>1, ChunkFacts, AcyclicCons DEF List, Ends
<1>6. OpChunks' = OpChunks
  BY <1>3, <1>5 DEF OpChunks, List
<1>a. d \in OpChunks
  BY <1>3 DEF OpChunks
<1>b. /\ \A n \in Live : /\ Reach(Chunk, next_', held[n].head) = List(held[n].head)
                         /\ Ends(held[n].head) => Acyclic(Chunk, next_', held[n].head)
      /\ Reach(Chunk, next_', free_list_) = FreeChunks
      /\ Ends(free_list_) => Acyclic(Chunk, next_', free_list_)
  BY <1>2, <1>4, <1>a, OpApart, LiveHead, StoreFrame DEF ListInv, FreeChunks, TypeOK
<1>7. \A n \in Live : List(held[n].head)' = List(held[n].head)
  BY <1>2, <1>b DEF List
<1>8. FreeChunks' = FreeChunks
  BY <1>2, <1>b DEF FreeChunks, List
<1>9. Disjoint'
  BY <1>3, <1>6, <1>7, <1>8 DEF ListInv, Disjoint
<1>10. AllEnd' /\ HeadInv'
  BY <1>2, <1>3, <1>5, <1>b DEF ListInv, AllEnd, Ends, HeadInv
<1>11. NoLeak'
  <2>1. Taken' = Taken
    BY <1>3, <1>7 DEF Taken
  <2> QED BY <1>2, <1>6, <1>8, <2>1 DEF ListInv, NoLeak
<1>12. OpInv'
  <2>1. op.i \in Nat /\ op.num \in Nat /\ op.i < op.num /\ d # INVALID
        /\ op.num <= free_total_
    BY <1>1, <1>4, ChunkFacts DEF ListInv, OpInv, TypeOK, OpType
  <2> QED BY <1>1, <1>2, <2>1 DEF OpInv
<1>13. CountInv'
  BY <1>1, <1>2, <1>8 DEF ListInv, CountInv, Ahead
<1> QED BY <1>9, <1>10, <1>11, <1>12, <1>13 DEF ListInv

LEMMA FreeLinkInv ==
  ASSUME TypeOK, CallInv, ListInv, FreeLink
  PROVE  ListInv' /\ OpChunks' = OpChunks
<1> DEFINE d == op.node
           a == next_[op.node]
<1>1. /\ op.pc = "free" /\ op'.pc = "insert" /\ op'.node = d /\ op'.after = a
      /\ op'.call = op.call /\ op'.owner = op.owner
  BY DEF FreeLink, TypeOK, OpType
<1>2. /\ UNCHANGED <<free_list_, free_total_, held, verified, crashes>>
      /\ next_' = [next_ EXCEPT ![d] = free_list_]
  BY DEF FreeLink
<1>3. d \in Chunk /\ a \in Handle /\ free_list_ \in Handle
  BY ChunkFacts DEF FreeLink, TypeOK, OpType
<1>4. OpHead = d /\ OpHead' = a /\ OpChunk = {} /\ OpChunk' = {d} /\ Live' = Live
  BY <1>1, <1>2, LiveSame DEF OpHead, OpChunk
<1>5. List(d) = {d} \cup List(a) /\ d \notin List(a) /\ Ends(a)
  <2>1. next_ \in [Chunk -> Chunk \cup {INVALID}] /\ INVALID \notin Chunk
    BY ChunkFacts DEF TypeOK
  <2>2. Acyclic(Chunk, next_, d)
    BY <1>4 DEF ListInv, AllEnd, Ends
  <2> QED BY <1>3, <2>1, <2>2, AcyclicTail, ListHead DEF List, Ends
<1>a. d \in OpChunks
  BY <1>4, <1>5 DEF OpChunks
<1>b. /\ \A n \in Live : /\ Reach(Chunk, next_', held[n].head) = List(held[n].head)
                         /\ Ends(held[n].head) => Acyclic(Chunk, next_', held[n].head)
      /\ Reach(Chunk, next_', free_list_) = FreeChunks
      /\ Ends(free_list_) => Acyclic(Chunk, next_', free_list_)
      /\ Reach(Chunk, next_', a) = List(a)
      /\ Acyclic(Chunk, next_', a)
  BY <1>2, <1>3, <1>5, <1>a, OpApart, LiveHead, StoreFrame DEF ListInv, FreeChunks
<1>6. \A n \in Live : List(held[n].head)' = List(held[n].head)
  BY <1>2, <1>b DEF List
<1>7. OpChunks' = OpChunks /\ FreeChunks' = FreeChunks
  BY <1>2, <1>4, <1>5, <1>b DEF OpChunks, FreeChunks, List
<1>8. Disjoint'
  BY <1>4, <1>6, <1>7 DEF ListInv, Disjoint
<1>9. AllEnd' /\ HeadInv'
  BY <1>2, <1>4, <1>b DEF ListInv, AllEnd, Ends, HeadInv
<1>10. NoLeak'
  <2>1. Taken' = Taken
    BY <1>4, <1>6 DEF Taken
  <2> QED BY <1>2, <1>7, <2>1 DEF ListInv, NoLeak
<1>11. OpInv'
  <2>1. next_'[d] = free_list_
    BY <1>2, <1>3 DEF TypeOK
  <2>2. d \notin Reach(Chunk, next_', a)
    BY <1>5, <1>b
  <2> QED BY <1>1, <1>2, <1>3, <1>4, <2>1, <2>2 DEF OpInv, List
<1>12. CountInv'
  BY <1>1, <1>2, <1>7 DEF ListInv, CountInv, Ahead
<1> QED BY <1>7, <1>8, <1>9, <1>10, <1>11, <1>12 DEF ListInv

LEMMA FreeInsertInv ==
  ASSUME TypeOK, CallInv, ListInv, FreeInsert
  PROVE  /\ ListInv'
         /\ op.node \notin OpChunks' /\ OpChunks = OpChunks' \cup {op.node}
<1> DEFINE d == op.node
<1>1. /\ op.pc = "insert" /\ op'.pc = "count" /\ op'.after = op.after
      /\ op'.call = op.call /\ op'.owner = op.owner
  BY DEF FreeInsert, TypeOK, OpType
<1>2. UNCHANGED <<free_total_, next_, held, verified, crashes>> /\ free_list_' = d
  BY DEF FreeInsert
<1>3. OpHead' = OpHead /\ OpChunk = {d} /\ OpChunk' = {} /\ Live' = Live
  BY <1>1, <1>2, LiveSame DEF OpHead, OpChunk
<1>4. d \in Chunk /\ next_[d] = free_list_ /\ d \notin List(OpHead)
  BY <1>1 DEF ListInv, OpInv
<1>5. d \notin FreeChunks /\ \A n \in Live : d \notin List(held[n].head)
  BY <1>3 DEF ListInv, Disjoint, OpChunks
<1>6. FreeChunks' = {d} \cup FreeChunks
  BY <1>2, <1>4, ListHead DEF FreeChunks, List
<1>7. Ends(free_list_)'
  <2>1. Acyclic(Chunk, next_, d)
    <3>1. /\ next_ \in [Chunk -> Chunk \cup {INVALID}]
          /\ free_list_ \in Chunk \cup {INVALID}
      BY ChunkFacts DEF TypeOK
    <3>2. d \notin Reach(Chunk, next_, free_list_) /\ Acyclic(Chunk, next_, free_list_)
      BY <1>5 DEF FreeChunks, List, ListInv, AllEnd, Ends
    <3> QED BY <1>4, <3>1, <3>2, ChunkFacts, AcyclicCons
  <2> QED BY <1>2, <2>1 DEF Ends
<1>8. OpChunks = OpChunks' \cup {d} /\ d \notin OpChunks'
  BY <1>2, <1>3, <1>4 DEF OpChunks, List
<1>a. \A n \in Live : List(held[n].head)' = List(held[n].head)
  BY <1>2 DEF List
<1>9. Disjoint'
  BY <1>3, <1>5, <1>6, <1>8, <1>a DEF ListInv, Disjoint
<1>10. AllEnd' /\ HeadInv'
  BY <1>2, <1>3, <1>7 DEF ListInv, AllEnd, Ends, HeadInv
<1>11. NoLeak'
  <2>1. Taken' = Taken
    BY <1>3, <1>a DEF Taken
  <2> QED BY <1>2, <1>6, <1>8, <2>1 DEF ListInv, NoLeak
<1>12. OpInv'
  BY <1>1 DEF OpInv
<1>13. CountInv'
  <2>1. Cardinality(FreeChunks') = Cardinality(FreeChunks) + 1
    <3>1. IsFiniteSet(FreeChunks)
      BY FiniteLists DEF FreeChunks
    <3> QED BY <1>5, <1>6, <3>1, FS_AddElement
  <2>2. Cardinality(FreeChunks) \in Nat /\ free_total_ \in Int
    BY FiniteLists DEF FreeChunks, TypeOK
  <2> QED BY <1>1, <1>2, <2>1, <2>2 DEF ListInv, CountInv, Ahead
<1> QED BY <1>8, <1>9, <1>10, <1>11, <1>12, <1>13 DEF ListInv

-----------------------------------------------------------------------------
(* The pool that init_pool_data leaves. *)

(* Every chunk is on the free list: were one missing, take the one nearest *)
(* to the head; the chunk before it is on the list, and linked to it.      *)
LEMMA InitFree == Init => FreeChunks = Chunk
<1> SUFFICES ASSUME Init, NEW S \in SUBSET Chunk, Closed(next_, S),
                    free_list_ \in S \cup {INVALID}
             PROVE  Chunk \subseteq S
  BY ListSubset DEF FreeChunks, List, Reach
<1> DEFINE Missing == {k \in Nat : k < ChunkTotal /\ ChunkTotal - 1 - k \notin S}
<1>1. SUFFICES Missing = {}
  <2>1. ASSUME NEW c \in Chunk PROVE c \in S
    <3>1. ChunkTotal - 1 - c \in Nat /\ ChunkTotal - 1 - c < ChunkTotal
      BY PoolAssumption DEF Chunk
    <3>2. ChunkTotal - 1 - (ChunkTotal - 1 - c) = c
      BY PoolAssumption DEF Chunk
    <3> QED BY <1>1, <3>1, <3>2
  <2> QED BY <2>1
<1>2. SUFFICES ASSUME Missing # {} PROVE FALSE
  OBVIOUS
<1>3. PICK m \in Missing : \A k \in Missing : ~ (<<k, m>> \in OpToRel(<, Nat))
  <2>1. Missing \subseteq Nat
    OBVIOUS
  <2> QED BY <1>2, <2>1, NatLessThanWellFounded, WFMin
<1>4. m \in Nat /\ \A k \in Missing : ~ (k < m)
  BY <1>3 DEF OpToRel
<1>5. m # 0
  BY PoolAssumption DEF Init, INVALID
<1>6. m - 1 \notin Missing /\ m - 1 \in Nat
  BY <1>4, <1>5
<1>7. ChunkTotal - m \in S
  <2>1. ChunkTotal - 1 - (m - 1) = ChunkTotal - m
    BY <1>4, PoolAssumption
  <2> QED BY <1>6, <2>1, <1>4, PoolAssumption
<1>8. next_[ChunkTotal - m] = ChunkTotal - 1 - m
  BY <1>4, <1>5, PoolAssumption DEF Init, Chunk
<1>9. ChunkTotal - 1 - m \in S
  BY <1>4, <1>7, <1>8, PoolAssumption DEF Closed, INVALID
<1> QED BY <1>9

LEMMA InitListInv == Init => ListInv /\ CallInv
<1> SUFFICES ASSUME Init PROVE ListInv /\ CallInv
  OBVIOUS
<1> USE DEF ListInv, Idle
<1>1. TypeOK /\ FreeChunks = Chunk
  BY InitType, InitFree
<1>2. /\ OpHead = INVALID /\ OpChunk = {} /\ List(INVALID) = {} /\ DOMAIN held = {}
      /\ Live = {}
  <2>1. op.pc = "idle" /\ DOMAIN held = {}
    BY DEF Init
  <2>2. Live = {}
    BY <2>1 DEF Live
  <2> QED BY <1>1, <2>1, <2>2, ListHead DEF OpHead, OpChunk
<1>3. Disjoint /\ NoLeak /\ HeadInv
  <2>1. OpChunks = {}
    BY <1>2 DEF OpChunks
  <2>2. Taken = {}
    BY <1>2 DEF Taken
  <2>3. NoLeak
    BY <1>1, <2>1, <2>2 DEF NoLeak
  <2> QED BY <1>2, <2>1, <2>3 DEF Disjoint, HeadInv
<1>4. AllEnd
  <2>1. ASSUME NEW c \in Chunk PROVE c \notin Reach(Chunk, next_, next_[c])
    <3> DEFINE S == {k \in Chunk : k < c}
    <3>1. next_[c] \in S \cup {INVALID}
      BY PoolAssumption DEF Init, Chunk, INVALID
    <3>2. Closed(next_, S)
      BY PoolAssumption DEF Init, Closed, Chunk, INVALID
    <3>3. Reach(Chunk, next_, next_[c]) \subseteq S
      BY <3>1, <3>2, ReachLeast
    <3> QED BY <3>3 DEF Chunk
  <2>2. \A h : Ends(h)
    BY <2>1, ListSubset DEF Ends, Acyclic, List
  <2> QED BY <2>2 DEF AllEnd
<1>5. OpInv
  BY DEF Init, OpInv
<1>6. CountInv
  <2>1. Cardinality(Chunk) = ChunkTotal
    BY FS_Interval, PoolAssumption DEF Chunk
  <2> QED BY <1>1, <2>1, PoolAssumption DEF Init, CountInv, Ahead
<1>7. CallInv
  BY DEF Init, CallInv
<1> QED BY <1>3, <1>4, <1>5, <1>6, <1>7

(* The step of an update at its malloc, when it finds enough chunks. *)
LEMMA NoChunksAtMalloc ==
  ASSUME TypeOK, op.pc = "malloc"
  PROVE  OpChunks = {} /\ Cardinality(OpChunks) = 0
<1>1. OpHead = INVALID /\ OpChunk = {}
  BY DEF OpHead, OpChunk
<1>2. OpChunks = {}
  BY <1>1, ListHead DEF OpChunks
<1> QED BY <1>2, FS_EmptySet

LEMMA EnoughAtMalloc ==
  ASSUME TypeOK, CallInv, FitInv, op.pc = "malloc"
  PROVE  free_total_ >= op.num
BY NoChunksAtMalloc DEF FitInv, CallInv, TypeOK, OpType

LEMMA StaleKept ==
  ASSUME TypeOK, [Next]_vars, ~stale'
  PROVE  ~stale
BY DEF Next, Step, vars, TypeOK, InsertCall, InsertLack, MallocPop, MallocLink, LinkTo,
       MallocReturn, MallocNull, SplitCopy, Copy, InsertStored, OverwriteCall,
       OverwriteStored, UpdateCall, UpdateTurn, UpdateLack, UpdateMalloc, UpdateLength,
       UpdateHandle, DeleteCall, FreeLink, FreeInsert, FreeCount, FreeReturn, Crash,
       Dies, Open

(* Steps that change nothing but verified. *)
LEMMA StillInv ==
  ASSUME TypeOK, CallInv, ListInv,
         \/ UNCHANGED vars
         \/ \E len \in Lens : InsertLack(len) \/ \E n \in DOMAIN held : UpdateLack(n, len)
  PROVE  ListInv'
<1>1. UNCHANGED <<free_list_, free_total_, next_, held, op, verified, crashes>>
  BY DEF vars, InsertLack, UpdateLack
<1>2. OpHead' = OpHead /\ OpChunk' = OpChunk /\ Live' = Live
  BY <1>1 DEF OpHead, OpChunk, Live
<1>3. /\ Disjoint' /\ AllEnd' /\ HeadInv' /\ FreeChunks' = FreeChunks
      /\ OpChunks' = OpChunks /\ Taken' = Taken
  BY <1>1, <1>2, SameLists DEF ListInv
<1>4. NoLeak' /\ OpInv' /\ CountInv'
  <2>1. NoLeak'
    BY <1>1, <1>3 DEF ListInv, NoLeak
  <2>2. List(OpHead)' = List(OpHead)
    BY <1>1, <1>2 DEF List
  <2>3. OpInv'
    BY <1>1, <2>2 DEF ListInv, OpInv
  <2>4. CountInv'
    BY <1>1, <1>3 DEF ListInv, CountInv, Ahead
  <2> QED BY <2>1, <2>3, <2>4
<1> QED BY <1>3, <1>4 DEF ListInv

(* Every step keeps the lists apart, but for the death of an update. *)
LEMMA ListStep ==
  ASSUME TypeOK, CallInv, ListInv, FitInv, [Next]_vars, ~stale'
  PROVE  ListInv'
<1>1. ASSUME NEW len \in Lens, NEW r \in Records, NEW n \in Nodes \ DOMAIN held,
             InsertCall(n, len, r)
      PROVE  ListInv'
  BY <1>1, InsertCallInv
<1>2. ASSUME NEW len \in Lens, NEW r \in Records, NEW n \in DOMAIN held,
             OverwriteCall(n, len, r) \/ UpdateCall(n, len, r)
      PROVE  ListInv'
  BY <1>2, TakeCallInv
<1>3. ASSUME NEW n \in DOMAIN held, DeleteCall(n)
      PROVE  ListInv'
  BY <1>3, TakeCallInv
<1>4. ASSUME Crash PROVE ListInv'
  <2>1. crashes' # 0
    BY <1>4 DEF Crash, TypeOK
  <2> QED BY <1>4, <2>1, DiesInv DEF Crash
<1>5. ASSUME MallocNull PROVE ListInv'
  BY <1>5, NullAfterDeath, DiesInv DEF MallocNull
<1>6. ASSUME UpdateMalloc PROVE ListInv'
  <2>1. op.pc = "malloc"
    BY <1>6 DEF UpdateMalloc
  <2> QED BY <1>6, <2>1, EnoughAtMalloc, UpdateMallocInv
<1> QED BY <1>1, <1>2, <1>3, <1>4, <1>5, <1>6, MallocPopInv, MallocLinkInv, MallocReturnInv,
           SplitCopyInv, StoredInv, UpdateLengthInv, FreeLinkInv, FreeInsertInv,
           FreeCountInv, FreeReturnInv, OpenInv, StillInv DEF Next, Step

-----------------------------------------------------------------------------
(* Records in their chains.  First how bytes lie in chunks. *)

LEMMA DivOf ==
  ASSUME NEW d \in Nat \ {0}, NEW q \in Int, NEW m \in 0 .. d - 1
  PROVE  (q * d + m) \div d = q /\ (q * d + m) % d = m
<1> DEFINE x == q * d + m
           a == x \div d
           b == x % d
<1>0. q * d \in Int /\ x \in Int
  OBVIOUS
<1>1. a \in Int /\ b \in 0 .. d - 1 /\ x = d * a + b
  <2> HIDE DEF x
  <2> QED
    BY <1>0
<1>2. d * (a - q) = m - b
  <2>1. d * (a - q) = d * a - q * d
    BY <1>1
  <2> HIDE DEF a, b
  <2> QED
    BY <1>0, <1>1, <2>1
<1> HIDE DEF a, b
<1>3. a = q
  <2>1. CASE a > q
    <3>1. d * (a - q) >= d
      BY <1>1, <2>1
    <3> QED
      BY <1>1, <1>2, <3>1
  <2>2. CASE a < q
    <3>1. d * (a - q) <= - d
      BY <1>1, <2>2
    <3> QED
      BY <1>1, <1>2, <3>1
  <2> QED
    BY <1>1, <2>1, <2>2
<1>4. b = m
  BY <1>1, <1>2, <1>3
<1> QED
  BY <1>3, <1>4 DEF a, b

(* A record fills all its chunks but the last one, which it fills in part  *)
(* or whole, and the abstract pool counts the same chunks.                 *)
LEMMA NumBounds ==
  ASSUME NEW len \in Lens
  PROVE  /\ get_chunk_num(len) \in Nat \ {0}
         /\ (get_chunk_num(len) - 1) * ChunkSize < len
         /\ len <= get_chunk_num(len) * ChunkSize
         /\ Pool!Need(len) = get_chunk_num(len)
<1> DEFINE n == get_chunk_num(len)
           q == len \div ChunkSize
           m == len % ChunkSize
<1>1. len \in Nat /\ len > 0 /\ ChunkSize \in Nat \ {0}
  BY PoolAssumption
<1>2. q \in Nat /\ m \in 0 .. ChunkSize - 1 /\ len = q * ChunkSize + m
  BY <1>1
<1>3. n = IF m = 0 THEN q ELSE q + 1
  BY DEF get_chunk_num
<1>4. n \in Nat /\ n > 0
  BY ChunkNum
<1> HIDE DEF n, q, m
<1>5. CASE m = 0
  <2>1. len + ChunkSize - 1 = q * ChunkSize + (ChunkSize - 1)
    BY <1>1, <1>2, <1>5
  <2>2. (len + ChunkSize - 1) \div ChunkSize = q
    BY <1>1, <1>2, <2>1, DivOf
  <2>3. (n - 1) * ChunkSize = n * ChunkSize - ChunkSize
    BY <1>1, <1>4
  <2> QED
    BY <1>1, <1>2, <1>3, <1>4, <1>5, <2>2, <2>3 DEF n, Pool!Need
<1>6. CASE m # 0
  <2>1. len + ChunkSize - 1 = (q + 1) * ChunkSize + (m - 1)
    <3>1. (q + 1) * ChunkSize = q * ChunkSize + ChunkSize
      BY <1>1, <1>2
    <3> QED
      BY <1>1, <1>2, <1>6, <3>1
  <2>2. (len + ChunkSize - 1) \div ChunkSize = q + 1
    <3>1. m - 1 \in 0 .. ChunkSize - 1 /\ q + 1 \in Int
      BY <1>1, <1>2, <1>6
    <3> QED
      BY <1>1, <2>1, <3>1, DivOf
  <2>3. n - 1 = q /\ n * ChunkSize = q * ChunkSize + ChunkSize /\ q * ChunkSize \in Nat
    BY <1>1, <1>2, <1>3, <1>6
  <2> QED
    BY <1>1, <1>2, <1>3, <1>4, <1>6, <2>2, <2>3 DEF n, Pool!Need
<1> QED
  BY <1>5, <1>6

(* Byte p of a record is in one of its chunks. *)
LEMMA ByteAt ==
  ASSUME NEW len \in Lens, NEW p \in 0 .. len - 1
  PROVE  /\ p \div ChunkSize \in 0 .. get_chunk_num(len) - 1
         /\ p % ChunkSize \in 0 .. ChunkSize - 1
         /\ (p \div ChunkSize) * ChunkSize + (p % ChunkSize) = p
<1> DEFINE n == get_chunk_num(len)
           q == p \div ChunkSize
           m == p % ChunkSize
<1>1. /\ ChunkSize \in Nat \ {0} /\ len \in Nat /\ p \in Nat /\ p < len
      /\ n \in Nat \ {0} /\ len <= n * ChunkSize
  <2>1. len \in Nat /\ ChunkSize \in Nat \ {0}
    BY PoolAssumption
  <2>2. n \in Nat \ {0} /\ len <= n * ChunkSize
    BY NumBounds
  <2> QED
    BY <2>1, <2>2
<1>2. q \in Nat /\ m \in 0 .. ChunkSize - 1 /\ p = q * ChunkSize + m
  BY <1>1
<1> HIDE DEF n, q, m
<1>3. q < n
  <2>1. SUFFICES ASSUME q >= n PROVE FALSE
    BY <1>1, <1>2
  <2>2. q * ChunkSize >= n * ChunkSize
    BY <1>1, <1>2, <2>1
  <2> QED
    BY <1>1, <1>2, <2>2
<1>4. q \in 0 .. n - 1 /\ m \in 0 .. ChunkSize - 1 /\ q * ChunkSize + m = p
  BY <1>1, <1>2, <1>3
<1> QED
  BY <1>4 DEF n, q, m

-----------------------------------------------------------------------------
(* The invariant for the records.                                          *)

(* f lists the n chunks of the chain at h from its head to its end.        *)
Chain(next, h, n, f) ==
  /\ f \in [0 .. n - 1 -> Chunk]
  /\ \A i, j \in 0 .. n - 1 : f[i] = f[j] => i = j
  /\ \A i \in 0 .. n - 2 : next[f[i]] = f[i + 1]
  /\ IF n = 0 THEN h = INVALID ELSE h = f[0] /\ next[f[n - 1]] = INVALID
  /\ Reach(Chunk, next, h) = {f[i] : i \in 0 .. n - 1}

(* The first k chunks that f lists have their part of record r.            *)
Filled(data, f, k, len, r) ==
  \A j \in 0 .. k - 1, i \in 0 .. ChunkSize - 1 :
     j * ChunkSize + i < len => data[f[j]][i] = Byte(r, j * ChunkSize + i)

Lists(n) == [0 .. n - 1 -> Chunk]

(* The chain at h is as long as a record of len bytes needs, and has r if  *)
(* r is a record.                                                          *)
HasRecord(next, data, h, len, r) ==
  \E f \in Lists(get_chunk_num(len)) :
     /\ Chain(next, h, get_chunk_num(len), f)
     /\ r # Blank => Filled(data, f, get_chunk_num(len), len, r)

(* split has filled k chunks of the chain and is at the next one.          *)
SplitAt(f, k, n) ==
  /\ Chain(next_, op.head, n, f)
  /\ Filled(data_, f, k, op.len, op.rec)
  /\ IF k = n THEN op.node = INVALID
     ELSE op.node = f[k] /\ op.remain = op.len - k * ChunkSize

(* The record of every live node is in its chain.                          *)
HeldRecords ==
  \A n \in Live : HasRecord(next_, data_, held[n].head, held[n].len, held[n].rec)

(* malloc's chain has the chunks it has linked.                            *)
MallocChain ==
  op.pc \in {"pop", "link"} => \E f \in Lists(op.i) : Chain(next_, op.head, op.i, f)

(* split fills one chunk after the other.                                  *)
SplitChain ==
  op.pc = "split" =>
     \E f \in Lists(get_chunk_num(op.len)), k \in 0 .. get_chunk_num(op.len) :
        SplitAt(f, k, get_chunk_num(op.len))

(* An update has only the handle to store.                                 *)
HandleChain ==
  op.pc = "handle" =>
     /\ held[op.owner].len = op.len
     /\ HasRecord(next_, data_, op.head, op.len, op.rec)

RecordInv == HeldRecords /\ MallocChain /\ SplitChain /\ HandleChain

-----------------------------------------------------------------------------
(* What a step does to a chain and to the record in it. *)

(* Stores to other chunks change neither. *)
LEMMA ChainFrame ==
  ASSUME NEW next, NEW next2, NEW h, NEW n \in Nat, NEW f, Chain(next, h, n, f),
         Reach(Chunk, next2, h) = Reach(Chunk, next, h),
         \A c \in Reach(Chunk, next, h) : next2[c] = next[c]
  PROVE  Chain(next2, h, n, f)
<1>1. \A i \in 0 .. n - 1 : next2[f[i]] = next[f[i]]
  BY DEF Chain
<1>2. \A i \in 0 .. n - 2 : i \in 0 .. n - 1
  OBVIOUS
<1>3. n # 0 => n - 1 \in 0 .. n - 1
  OBVIOUS
<1> QED
  BY <1>1, <1>2, <1>3 DEF Chain

LEMMA FilledFrame ==
  ASSUME NEW next, NEW h, NEW n \in Nat, NEW f, Chain(next, h, n, f), NEW k \in 0 .. n,
         NEW data, NEW data2, \A c \in Reach(Chunk, next, h) : data2[c] = data[c],
         NEW len, NEW r, Filled(data, f, k, len, r)
  PROVE  Filled(data2, f, k, len, r)
<1>1. \A j \in 0 .. k - 1 : data2[f[j]] = data[f[j]]
  BY DEF Chain
<1> QED
  BY <1>1 DEF Filled

LEMMA RecordFrame ==
  ASSUME NEW next, NEW next2, NEW data, NEW data2,
         NEW h, NEW len \in Lens, NEW r, HasRecord(next, data, h, len, r),
         Reach(Chunk, next2, h) = Reach(Chunk, next, h),
         \A c \in Reach(Chunk, next, h) : next2[c] = next[c] /\ data2[c] = data[c]
  PROVE  HasRecord(next2, data2, h, len, r)
<1> DEFINE n == get_chunk_num(len)
<1>1. PICK f \in Lists(n) : Chain(next, h, n, f) /\ (r # Blank => Filled(data, f, n, len, r))
  BY DEF HasRecord
<1>2. n \in Nat /\ n \in 0 .. n
  BY ChunkNum
<1> HIDE DEF n
<1>3. Chain(next2, h, n, f) /\ (r # Blank => Filled(data2, f, n, len, r))
  BY <1>1, <1>2, ChainFrame, FilledFrame
<1> QED
  BY <1>1, <1>3 DEF HasRecord, n

(* The chain of no chunks, and a chunk linked before a chain. *)
LEMMA EmptyChain ==
  ASSUME NEW next
  PROVE  \E f \in Lists(0) : Chain(next, INVALID, 0, f)
<1> DEFINE f == [i \in 0 .. 0 - 1 |-> 0]
<1>1. 0 .. 0 - 1 = {} /\ 0 .. 0 - 2 = {}
  OBVIOUS
<1>2. f \in Lists(0) /\ f \in [0 .. 0 - 1 -> Chunk]
  BY <1>1 DEF Lists
<1>3. Reach(Chunk, next, INVALID) = {f[i] : i \in 0 .. 0 - 1}
  BY <1>1, ReachInvalid
<1> HIDE DEF f
<1>4. Chain(next, INVALID, 0, f)
  BY <1>1, <1>2, <1>3 DEF Chain
<1> QED
  BY <1>2, <1>4

LEMMA ChainCons ==
  ASSUME NEW next, NEW next2, NEW h, NEW n \in Nat, NEW f \in Lists(n), Chain(next, h, n, f),
         NEW d \in Chunk, d \notin Reach(Chunk, next, h), next2[d] = h,
         \A c \in Chunk : c # d => next2[c] = next[c],
         Reach(Chunk, next2, d) = {d} \cup Reach(Chunk, next, h)
  PROVE  \E g \in Lists(n + 1) : Chain(next2, d, n + 1, g)
<1> DEFINE g == [i \in 0 .. n |-> IF i = 0 THEN d ELSE f[i - 1]]
<1>1. /\ f \in [0 .. n - 1 -> Chunk]
      /\ \A i, j \in 0 .. n - 1 : f[i] = f[j] => i = j
      /\ \A i \in 0 .. n - 2 : next[f[i]] = f[i + 1]
      /\ n = 0 => h = INVALID
      /\ n # 0 => h = f[0] /\ next[f[n - 1]] = INVALID
      /\ Reach(Chunk, next, h) = {f[i] : i \in 0 .. n - 1}
  BY DEF Chain
<1>2. /\ g[0] = d
      /\ \A i \in 1 .. n : i - 1 \in 0 .. n - 1 /\ g[i] = f[i - 1] /\ g[i] \in Chunk
      /\ g \in [0 .. n -> Chunk]
  BY <1>1
<1>3. \A i \in 0 .. n - 1 : f[i] # d /\ next2[f[i]] = next[f[i]] /\ g[i + 1] = f[i]
  BY <1>1
<1> HIDE DEF g
<1>4. ASSUME NEW i \in 0 .. n, NEW j \in 0 .. n, g[i] = g[j] PROVE i = j
  <2>1. \A k \in 1 .. n : k - 1 \in 0 .. n - 1 /\ g[k] = f[k - 1] /\ g[k] # d
    BY <1>2, <1>3
  <2>2. CASE i = 0 \/ j = 0
    BY <1>2, <1>4, <2>1, <2>2
  <2>3. CASE i # 0 /\ j # 0
    <3>1. i \in 1 .. n /\ j \in 1 .. n
      BY <2>3
    <3>2. f[i - 1] = f[j - 1] /\ i - 1 \in 0 .. n - 1 /\ j - 1 \in 0 .. n - 1
      BY <1>4, <2>1, <3>1
    <3>3. i - 1 = j - 1
      BY <1>1, <3>2
    <3> QED
      BY <3>1, <3>3
  <2> QED
    BY <2>2, <2>3
<1>5. ASSUME NEW i \in 0 .. n - 1 PROVE next2[g[i]] = g[i + 1]
  <2>1. CASE i = 0
    BY <1>1, <1>2, <1>3, <1>5, <2>1
  <2>2. CASE i # 0
    <3>1. i - 1 \in 0 .. n - 2 /\ i - 1 \in 0 .. n - 1 /\ i \in 1 .. n /\ (i - 1) + 1 = i
      BY <1>5, <2>2
    <3>2. g[i] = f[i - 1] /\ next2[g[i]] = next[f[i - 1]] /\ next[f[i - 1]] = f[i]
      BY <1>1, <1>2, <1>3, <3>1
    <3> QED
      BY <1>3, <1>5, <3>2
  <2> QED
    BY <2>1, <2>2
<1>6. next2[g[n]] = INVALID
  <2>1. CASE n = 0
    BY <1>1, <1>2, <2>1
  <2>2. CASE n # 0
    <3>1. n - 1 \in 0 .. n - 1 /\ n \in 1 .. n
      BY <2>2
    <3> QED
      BY <1>1, <1>2, <1>3, <2>2, <3>1
  <2> QED
    BY <2>1, <2>2
<1>7. Reach(Chunk, next2, d) = {g[i] : i \in 0 .. n}
  <2>1. ASSUME NEW c \in Reach(Chunk, next, h) PROVE \E i \in 0 .. n : c = g[i]
    <3>1. PICK i \in 0 .. n - 1 : c = f[i]
      BY <1>1, <2>1
    <3> QED
      BY <1>3, <3>1
  <2>2. ASSUME NEW i \in 0 .. n PROVE g[i] \in {d} \cup Reach(Chunk, next, h)
    <3>1. CASE i = 0
      BY <1>2, <3>1
    <3>2. CASE i # 0
      <4>1. i \in 1 .. n
        BY <2>2, <3>2
      <4> QED
        BY <1>1, <1>2, <4>1
    <3> QED
      BY <3>1, <3>2
  <2>3. 0 \in 0 .. n
    OBVIOUS
  <2> QED
    BY <1>2, <2>1, <2>2, <2>3
<1>8. n + 1 \in Nat /\ n + 1 # 0 /\ (n + 1) - 1 = n /\ (n + 1) - 2 = n - 1
  OBVIOUS
<1>9. Chain(next2, d, n + 1, g)
  BY <1>2, <1>4, <1>5, <1>6, <1>7, <1>8 DEF Chain
<1>10. g \in Lists(n + 1)
  BY <1>2, <1>8 DEF Lists
<1> QED
  BY <1>9, <1>10

(* The records stay where no list of theirs is touched. *)
LEMMA HeldFrame ==
  ASSUME TypeOK, RecordInv, Live' \subseteq Live, \A n \in Live' : held'[n] = held[n],
         \A n \in Live' :
            /\ Reach(Chunk, next_', held[n].head) = List(held[n].head)
            /\ \A c \in List(held[n].head) : next_'[c] = next_[c] /\ data_'[c] = data_[c]
  PROVE  HeldRecords'
<1> SUFFICES ASSUME NEW n \in Live'
             PROVE  HasRecord(next_', data_', held'[n].head, held'[n].len, held'[n].rec)
  BY DEF HeldRecords
<1>1. n \in Live /\ held'[n] = held[n] /\ held[n].len \in Lens
  BY DEF TypeOK, Live
<1>2. HasRecord(next_, data_, held[n].head, held[n].len, held[n].rec)
  BY <1>1 DEF RecordInv, HeldRecords
<1> QED
  BY <1>1, <1>2, RecordFrame DEF List

LEMMA StillRecords ==
  ASSUME RecordInv, UNCHANGED <<next_, data_>>,
         Live' \subseteq Live, \A n \in Live' : held'[n] = held[n]
  PROVE  HeldRecords'
BY DEF HeldRecords, RecordInv

-----------------------------------------------------------------------------
(* RecordInv is kept.  Calls begin. *)

(* malloc begins, of an insert or of an update. *)
LEMMA MallocRecords ==
  ASSUME TypeOK, RecordInv, op'.pc = "pop", op'.i = 0, op'.head = INVALID,
         UNCHANGED <<next_, data_, held>>, Live' = Live
  PROVE  RecordInv'
<1>1. HeldRecords'
  BY StillRecords
<1>2. MallocChain'
  BY EmptyChain DEF MallocChain
<1> QED
  BY <1>1, <1>2 DEF RecordInv, SplitChain, HandleChain

LEMMA InsertCallRecords ==
  ASSUME TypeOK, CallInv, RecordInv, NEW len \in Lens, NEW r \in Records, NEW n,
         InsertCall(n, len, r)
  PROVE  RecordInv'
<1>1. /\ op.pc = "idle" /\ op'.pc = "pop" /\ op'.i = 0 /\ op'.head = INVALID
      /\ op'.call = "insert" /\ UNCHANGED <<next_, data_, held>>
  BY DEF InsertCall, Call, Idle
<1>2. Live' = Live
  BY <1>1, LiveIdle DEF Live
<1> QED
  BY <1>1, <1>2, MallocRecords

LEMMA UpdateMallocRecords ==
  ASSUME TypeOK, CallInv, RecordInv, free_total_ >= op.num, UpdateMalloc
  PROVE  RecordInv'
<1>1. op.pc = "malloc" /\ op.num \in Nat /\ free_total_ \in Int
  BY DEF UpdateMalloc, TypeOK, OpType
<1>2. op' = [op EXCEPT !.pc = "pop"] /\ UNCHANGED <<next_, data_, held>>
  BY <1>1 DEF UpdateMalloc
<1>3. /\ op'.pc = "pop" /\ op'.i = 0 /\ op'.head = INVALID
      /\ op'.call = op.call /\ op'.owner = op.owner
  BY <1>1, <1>2 DEF TypeOK, OpType, CallInv
<1> QED
  BY <1>2, <1>3, LiveSame, MallocRecords

LEMMA TakeCallRecords ==
  ASSUME TypeOK, CallInv, ListInv, RecordInv, NEW n \in DOMAIN held,
         \/ DeleteCall(n)
         \/ \E len \in Lens, r \in Records : OverwriteCall(n, len, r) \/ UpdateCall(n, len, r)
  PROVE  RecordInv'
<1>1. Live = DOMAIN held /\ Live' = Live \ {n}
  BY TakeCallInv
<1>2. UNCHANGED <<next_, data_>> /\ \A m \in Live' : held'[m] = held[m]
  BY <1>1 DEF DeleteCall, OverwriteCall, UpdateCall, UpdateTurn, TypeOK
<1>3. HeldRecords'
  BY <1>1, <1>2, StillRecords
<1>4. CASE DeleteCall(n) \/ \E len \in Lens, r \in Records : UpdateCall(n, len, r)
  <2>1. op'.pc = "free"
    BY <1>4 DEF DeleteCall, UpdateCall, UpdateTurn, Call, Idle
  <2> QED
    BY <1>3, <2>1 DEF RecordInv, MallocChain, SplitChain, HandleChain
<1>5. ASSUME NEW len \in Lens, NEW r \in Records, OverwriteCall(n, len, r)
      PROVE  RecordInv'
  <2> DEFINE k == get_chunk_num(len)
  <2>1. /\ op'.pc = "split" /\ op'.head = held[n].head /\ op'.len = len /\ op'.rec = r
        /\ op'.remain = len /\ op'.node = held[n].head
        /\ k = get_chunk_num(held[n].len)
    BY <1>5 DEF OverwriteCall, Call, Idle
  <2>2. PICK f \in Lists(k) : Chain(next_, held[n].head, k, f)
    BY <1>1, <2>1 DEF RecordInv, HeldRecords, HasRecord
  <2>3. k \in Nat /\ k # 0 /\ 0 \in 0 .. k /\ len - 0 * ChunkSize = len
    BY ChunkNum, PoolAssumption
  <2> HIDE DEF k
  <2>4. Filled(data_, f, 0, len, r)
    BY DEF Filled
  <2>5. SplitAt(f, 0, k)'
    BY <1>2, <2>1, <2>2, <2>3, <2>4 DEF SplitAt, Chain
  <2>6. SplitChain'
    <3>1. op'.len = len
      BY <2>1
    <3> QED
      BY <2>3, <2>5, <3>1 DEF SplitChain, k
  <2> QED
    BY <1>3, <2>1, <2>6 DEF RecordInv, MallocChain, HandleChain
<1> QED
  BY <1>4, <1>5

-----------------------------------------------------------------------------
(* Steps in a call that store neither a link nor a byte. *)
LEMMA QuietRecords ==
  ASSUME TypeOK, CallInv, ListInv, RecordInv,
         \/ MallocPop \/ FreeInsert \/ FreeCount \/ FreeReturn \/ Open \/ UNCHANGED vars
         \/ \E len \in Lens : InsertLack(len) \/ \E n \in DOMAIN held : UpdateLack(n, len)
  PROVE  RecordInv'
<1>1. UNCHANGED <<next_, data_, held>>
  BY DEF MallocPop, FreeInsert, FreeCount, FreeReturn, Open, vars, InsertLack, UpdateLack
<1>3. \/ op' = op
      \/ /\ op.pc = "pop" /\ op'.pc = "link" /\ op'.i = op.i /\ op'.head = op.head
         /\ op'.call = op.call /\ op'.owner = op.owner
      \/ /\ op'.pc \notin {"pop", "link", "split", "handle"}
         /\ Live' = Live
  <2>1. CASE MallocPop
    BY <2>1 DEF MallocPop, TypeOK, OpType
  <2>2. CASE FreeInsert \/ FreeCount
    <3>1. op'.pc \in {"count", "free"} /\ op'.call = op.call /\ op'.owner = op.owner
      BY <2>2 DEF FreeInsert, FreeCount, TypeOK, OpType
    <3> QED
      BY <1>1, <3>1, LiveSame
  <2>3. CASE FreeReturn
    <3>1. op'.pc \in {"idle", "malloc"}
      BY <2>3 DEF FreeReturn, Idle, TypeOK, OpType
    <3> QED
      BY <2>3, <3>1, FreeReturnInv
  <2>4. CASE \/ Open \/ UNCHANGED vars
             \/ \E len \in Lens : InsertLack(len) \/ \E n \in DOMAIN held : UpdateLack(n, len)
    BY <2>4 DEF Open, vars, InsertLack, UpdateLack
  <2> QED
    BY <2>1, <2>2, <2>3, <2>4
<1>2. HeldRecords'
  <2>1. Live' = Live
    BY <1>1, <1>3, LiveSame
  <2> QED
    BY <1>1, <2>1, StillRecords
<1>4. MallocChain'
  BY <1>1, <1>3 DEF RecordInv, MallocChain
<1>5. SplitChain' /\ HandleChain'
  BY <1>1, <1>3 DEF RecordInv, SplitChain, SplitAt, HandleChain
<1> QED
  BY <1>2, <1>4, <1>5 DEF RecordInv

(* A death: an overwrite leaves its node a chain of the right length.      *)
LEMMA DiesRecords ==
  ASSUME TypeOK, CallInv, ListInv, RecordInv, Dies, ~stale'
  PROVE  RecordInv'
<1>1. /\ op'.pc = "idle" /\ op'.call = "none" /\ op.call # "update"
      /\ UNCHANGED <<next_, data_, held>>
  BY DEF Dies, Idle
<1>2. CASE op.call = "overwrite"
  <2>1. /\ Live' = Live \cup {op.owner} /\ op.pc = "split"
        /\ held[op.owner].rec = Blank /\ op.head = held[op.owner].head
        /\ get_chunk_num(op.len) = get_chunk_num(held[op.owner].len)
    BY <1>1, <1>2 DEF CallInv, Live, Whole
  <2>2. \E f \in Lists(get_chunk_num(held[op.owner].len)) :
           Chain(next_, held[op.owner].head, get_chunk_num(held[op.owner].len), f)
    BY <2>1 DEF RecordInv, SplitChain, SplitAt
  <2>3. HasRecord(next_, data_, held[op.owner].head, held[op.owner].len, held[op.owner].rec)
    BY <2>1, <2>2 DEF HasRecord
  <2>4. HeldRecords'
    BY <1>1, <2>1, <2>3 DEF HeldRecords, RecordInv
  <2> QED
    BY <1>1, <2>4 DEF RecordInv, MallocChain, SplitChain, HandleChain
<1>3. CASE op.call # "overwrite"
  <2>1. Live' = Live
    BY <1>1, <1>3 DEF Live
  <2>2. HeldRecords'
    BY <1>1, <2>1, StillRecords
  <2> QED
    BY <1>1, <2>2 DEF RecordInv, MallocChain, SplitChain, HandleChain
<1> QED
  BY <1>2, <1>3

LEMMA MallocReturnRecords ==
  ASSUME TypeOK, CallInv, ListInv, RecordInv, MallocReturn
  PROVE  RecordInv'
<1>1. /\ op.pc = "pop" /\ op.i = op.num /\ op'.pc = "split" /\ op'.head = op.head
      /\ op'.len = op.len /\ op'.rec = op.rec /\ op'.remain = op.len /\ op'.node = op.head
      /\ UNCHANGED <<next_, data_, held>> /\ op.len \in Lens
      /\ op.num = get_chunk_num(op.len) /\ op'.call = op.call /\ op'.owner = op.owner
  BY DEF MallocReturn, TypeOK, OpType, CallInv
<1>2. HeldRecords'
  BY <1>1, LiveSame, StillRecords
<1> DEFINE n == get_chunk_num(op.len)
<1>3. PICK f \in Lists(n) : Chain(next_, op.head, n, f)
  BY <1>1 DEF RecordInv, MallocChain
<1>4. n \in Nat /\ n # 0 /\ 0 \in 0 .. n /\ op.len - 0 * ChunkSize = op.len
  <2>1. op.len \in Nat /\ ChunkSize \in Nat
    BY <1>1, PoolAssumption
  <2>2. n \in Nat /\ n > 0
    BY <1>1, ChunkNum
  <2> HIDE DEF n
  <2> QED
    BY <2>1, <2>2
<1> HIDE DEF n
<1>5. Filled(data_, f, 0, op.len, op.rec)
  BY DEF Filled
<1>6. Chain(next_', op'.head, n, f) /\ Filled(data_', f, 0, op'.len, op'.rec)
  BY <1>1, <1>3, <1>5
<1>7. op'.node = f[0] /\ op'.remain = op'.len - 0 * ChunkSize
  BY <1>1, <1>3, <1>4 DEF Chain
<1>8. \E g \in Lists(n), k \in 0 .. n :
        /\ Chain(next_', op'.head, n, g) /\ Filled(data_', g, k, op'.len, op'.rec)
        /\ IF k = n THEN op'.node = INVALID
           ELSE op'.node = g[k] /\ op'.remain = op'.len - k * ChunkSize
  BY <1>4, <1>6, <1>7
<1>9. SplitChain'
  BY <1>1, <1>8 DEF SplitChain, SplitAt, n
<1> QED
  BY <1>1, <1>2, <1>9 DEF RecordInv, MallocChain, HandleChain

-----------------------------------------------------------------------------
(* Steps that store a link or a byte. *)

LEMMA MallocLinkRecords ==
  ASSUME TypeOK, CallInv, ListInv, RecordInv, MallocLink
  PROVE  RecordInv'
<1> DEFINE d == op.node
           g == op.head
<1>1. /\ op.pc = "link" /\ op'.pc = "pop" /\ op'.head = d
      /\ op'.i = op.i + 1 /\ op.i \in Nat
      /\ op'.call = op.call /\ op'.owner = op.owner
  BY DEF MallocLink, LinkTo, TypeOK, OpType
<1>2. UNCHANGED <<data_, held>> /\ next_' = [next_ EXCEPT ![d] = g]
  BY DEF MallocLink, LinkTo
<1>3. OpHead = g /\ OpChunk = {d}
  BY <1>1 DEF OpHead, OpChunk
<1>4. d \in Chunk /\ g \in Handle /\ d \notin List(g) /\ Ends(g)
  BY <1>1, <1>3 DEF ListInv, OpInv, AllEnd, TypeOK, OpType
<1>5. /\ next_ \in [Chunk -> Chunk \cup {INVALID}]
      /\ next_' \in [Chunk -> Chunk \cup {INVALID}]
      /\ next_'[d] = g /\ \A c \in Chunk : c # d => next_'[c] = next_[c]
  BY <1>2, <1>4, ChunkFacts DEF TypeOK
<1>6. Reach(Chunk, next_', d) = {d} \cup Reach(Chunk, next_, g)
  BY <1>4, <1>5, ChunkFacts, AcyclicCons DEF List, Ends
<1>a. Live' = Live
  BY <1>1, <1>2, LiveSame
<1>7. ASSUME NEW m \in Live'
      PROVE  /\ Reach(Chunk, next_', held[m].head) = List(held[m].head)
             /\ \A c \in List(held[m].head) : next_'[c] = next_[c] /\ data_'[c] = data_[c]
  <2>1. held[m].head \in Handle
    BY <1>a, <1>7, LiveHead
  <2>2. d \notin List(held[m].head)
    BY <1>3, <1>a, <1>7 DEF ListInv, Disjoint, OpChunks
  <2>3. Reach(Chunk, next_', held[m].head) = List(held[m].head)
    BY <1>2, <1>4, <2>1, <2>2, StoreFrame
  <2> QED
    BY <1>2, <1>5, <2>2, <2>3, ListSubset
<1>8. HeldRecords'
  BY <1>2, <1>7, <1>a, HeldFrame
<1>9. PICK f \in Lists(op.i) : Chain(next_, g, op.i, f)
  BY <1>1 DEF RecordInv, MallocChain
<1>10. \E e \in Lists(op.i + 1) : Chain(next_', d, op.i + 1, e)
  BY <1>1, <1>4, <1>5, <1>6, <1>9, ChainCons DEF List
<1>11. MallocChain'
  BY <1>1, <1>10 DEF RecordInv, MallocChain
<1> QED
  BY <1>1, <1>8, <1>11 DEF RecordInv, SplitChain, HandleChain

LEMMA FreeLinkRecords ==
  ASSUME TypeOK, CallInv, ListInv, RecordInv, FreeLink
  PROVE  RecordInv'
<1> DEFINE d == op.node
<1>1. op.pc = "free" /\ op'.pc = "insert" /\ op'.call = op.call /\ op'.owner = op.owner
  BY DEF FreeLink, TypeOK, OpType
<1>2. UNCHANGED <<data_, held>> /\ next_' = [next_ EXCEPT ![d] = free_list_]
  BY DEF FreeLink
<1>3. d \in Chunk /\ free_list_ \in Handle /\ OpHead = d
  BY <1>1, ChunkFacts DEF FreeLink, TypeOK, OpType, OpHead
<1>4. d \in List(OpHead)
  BY <1>3, ListHead
<1>a. Live' = Live
  BY <1>1, <1>2, LiveSame
<1>5. ASSUME NEW m \in Live'
      PROVE  /\ Reach(Chunk, next_', held[m].head) = List(held[m].head)
             /\ \A c \in List(held[m].head) : next_'[c] = next_[c] /\ data_'[c] = data_[c]
  <2>1. held[m].head \in Handle
    BY <1>a, <1>5, LiveHead
  <2>2. d \notin List(held[m].head)
    BY <1>4, <1>a, <1>5 DEF ListInv, Disjoint, OpChunks
  <2>3. Reach(Chunk, next_', held[m].head) = List(held[m].head)
    BY <1>2, <1>3, <2>1, <2>2, StoreFrame
  <2>4. \A c \in Chunk : c # d => next_'[c] = next_[c]
    BY <1>2 DEF TypeOK
  <2> QED
    BY <1>2, <2>2, <2>3, <2>4, ListSubset
<1>6. HeldRecords'
  BY <1>2, <1>5, <1>a, HeldFrame
<1> QED
  BY <1>1, <1>6 DEF RecordInv, MallocChain, SplitChain, HandleChain

LEMMA SplitCopyRecords ==
  ASSUME TypeOK, CallInv, ListInv, RecordInv, SplitCopy
  PROVE  RecordInv'
<1> DEFINE n == get_chunk_num(op.len)
           c == op.node
           S == ChunkSize
<1>1. /\ op.pc = "split" /\ c # INVALID /\ UNCHANGED <<next_, held>>
      /\ op.len \in Lens /\ op.len \in Nat /\ op.remain \in Nat /\ S \in Nat \ {0}
      /\ n \in Nat \ {0} /\ (n - 1) * S < op.len
  <2>1. op.pc = "split" /\ c # INVALID /\ UNCHANGED <<next_, held>>
    BY DEF SplitCopy, Copy
  <2>2. op.len \in Lens
    BY <2>1 DEF CallInv
  <2>3. op.len \in Nat /\ op.remain \in Nat /\ S \in Nat \ {0}
    BY PoolAssumption DEF TypeOK, OpType
  <2> QED
    BY <2>1, <2>2, <2>3, NumBounds
<1>2. /\ op'.pc = "split" /\ op'.head = op.head /\ op'.len = op.len /\ op'.rec = op.rec
      /\ op'.call = op.call /\ op'.owner = op.owner
      /\ IF op.remain < S THEN op'.node = INVALID
         ELSE op'.node = next_[c] /\ op'.remain = op.remain - S
  BY DEF SplitCopy, Copy, TypeOK, OpType
<1>3. data_' = [data_ EXCEPT ![c] =
                  [i \in 0 .. S - 1 |->
                     IF i < op.remain THEN Byte(op.rec, op.len - op.remain + i) ELSE @[i]]]
  BY DEF SplitCopy, Copy
<1>4. PICK f \in Lists(n), k \in 0 .. n : SplitAt(f, k, n)
  BY <1>1 DEF RecordInv, SplitChain
<1> HIDE DEF n
<1>5. /\ f \in [0 .. n - 1 -> Chunk]
      /\ \A i, j \in 0 .. n - 1 : f[i] = f[j] => i = j
      /\ \A i \in 0 .. n - 2 : next_[f[i]] = f[i + 1]
      /\ next_[f[n - 1]] = INVALID
      /\ List(op.head) = {f[i] : i \in 0 .. n - 1}
      /\ Filled(data_, f, k, op.len, op.rec)
  BY <1>1, <1>4 DEF SplitAt, Chain, List
<1>6. k \in 0 .. n - 1 /\ c = f[k] /\ op.remain = op.len - k * S /\ c \in Chunk
  <2>1. k # n
    BY <1>1, <1>4 DEF SplitAt
  <2>2. k \in 0 .. n - 1
    BY <1>1, <1>4, <2>1
  <2> QED
    BY <1>4, <1>5, <2>1, <2>2 DEF SplitAt
<1>7. k * S \in Nat /\ (k + 1) * S = k * S + S /\ k + 1 \in 0 .. n
  BY <1>1, <1>6
<1>8. /\ \A g \in Chunk : g # c => data_'[g] = data_[g]
      /\ \A i \in 0 .. S - 1 : i < op.remain =>
            data_'[c][i] = Byte(op.rec, op.len - op.remain + i)
  <2>1. data_ \in [Chunk -> [0 .. S - 1 -> (Records \X Nat) \cup {Blank}]]
    BY DEF TypeOK
  <2> QED
    BY <1>3, <1>6, <2>1
<1>9. Filled(data_', f, k + 1, op.len, op.rec)
  <2>1. SUFFICES ASSUME NEW j \in 0 .. k, NEW i \in 0 .. S - 1, j * S + i < op.len
                 PROVE  data_'[f[j]][i] = Byte(op.rec, j * S + i)
    <3>1. (k + 1) - 1 = k
      BY <1>6
    <3> QED
      BY <2>1, <3>1 DEF Filled
  <2>2. CASE j = k
    <3>1. i < op.remain /\ op.len - op.remain + i = k * S + i
      BY <1>1, <1>6, <1>7, <2>1, <2>2
    <3>2. data_'[c][i] = Byte(op.rec, op.len - op.remain + i)
      BY <1>8, <2>1, <3>1
    <3> QED
      BY <1>6, <2>2, <3>1, <3>2
  <2>3. CASE j # k
    <3>1. j \in 0 .. k - 1 /\ j \in 0 .. n - 1
      BY <1>1, <1>6, <2>1, <2>3
    <3>2. f[j] # c /\ f[j] \in Chunk
      BY <1>5, <1>6, <2>3, <3>1
    <3>3. data_'[f[j]] = data_[f[j]]
      BY <1>8, <3>2
    <3>4. data_[f[j]][i] = Byte(op.rec, j * S + i)
      BY <1>5, <2>1, <3>1 DEF Filled
    <3> QED
      BY <3>3, <3>4
  <2> QED
    BY <2>2, <2>3
<1>10. IF k + 1 = n THEN op'.node = INVALID
       ELSE op'.node = f[k + 1] /\ op'.remain = op.len - (k + 1) * S
  <2>1. CASE op.remain < S
    <3>1. (k + 1) * S > (n - 1) * S
      BY <1>1, <1>6, <1>7, <2>1
    <3>2. k + 1 > n - 1
      <4>1. SUFFICES ASSUME k + 1 <= n - 1 PROVE FALSE
        BY <1>1, <1>6
      <4>2. (k + 1) * S <= (n - 1) * S
        BY <1>1, <1>6, <4>1
      <4> QED
        BY <1>1, <1>6, <1>7, <3>1, <4>2
    <3>3. k + 1 = n
      BY <1>1, <1>6, <3>2
    <3> QED
      BY <1>2, <2>1, <3>3
  <2>2. CASE ~(op.remain < S)
    <3>1. op'.node = next_[c] /\ op'.remain = op.remain - S
      BY <1>2, <2>2
    <3>2. CASE k + 1 = n
      <4>1. k = n - 1
        BY <1>1, <1>6, <3>2
      <4> QED
        BY <1>5, <1>6, <3>1, <3>2, <4>1
    <3>3. CASE k + 1 # n
      <4>1. k \in 0 .. n - 2
        BY <1>1, <1>6, <3>3
      <4>2. op.remain - S = op.len - (k + 1) * S
        BY <1>1, <1>6, <1>7
      <4> QED
        BY <1>5, <1>6, <3>1, <3>3, <4>1, <4>2
    <3> QED
      BY <3>2, <3>3
  <2> QED
    BY <2>1, <2>2
<1>11. Chain(next_', op'.head, n, f) /\ Filled(data_', f, k + 1, op'.len, op'.rec)
  BY <1>1, <1>2, <1>4, <1>9 DEF SplitAt
<1>12. SplitChain'
  <2>1. \E e \in Lists(n), j \in 0 .. n :
          /\ Chain(next_', op'.head, n, e) /\ Filled(data_', e, j, op'.len, op'.rec)
          /\ IF j = n THEN op'.node = INVALID
             ELSE op'.node = e[j] /\ op'.remain = op'.len - j * S
    BY <1>2, <1>4, <1>7, <1>10, <1>11
  <2> QED
    BY <1>2, <2>1 DEF SplitChain, SplitAt, n
<1>13. HeldRecords'
  <2>1. OpHead = op.head /\ c \in List(op.head)
    BY <1>1, <1>5, <1>6 DEF OpHead
  <2>a. Live' = Live
    BY <1>1, <1>2, LiveSame
  <2>2. ASSUME NEW m \in Live' PROVE c \notin List(held[m].head)
    BY <2>1, <2>2, <2>a DEF ListInv, Disjoint, OpChunks
  <2>3. ASSUME NEW m \in Live'
        PROVE  /\ Reach(Chunk, next_', held[m].head) = List(held[m].head)
               /\ \A g \in List(held[m].head) : next_'[g] = next_[g] /\ data_'[g] = data_[g]
    BY <1>1, <1>8, <2>2, <2>3, ListSubset DEF List
  <2> QED
    BY <1>1, <2>3, <2>a, HeldFrame
<1> QED
  BY <1>2, <1>12, <1>13 DEF RecordInv, MallocChain, HandleChain

LEMMA SplitDone ==
  ASSUME TypeOK, CallInv, RecordInv, op.pc = "split", op.node = INVALID
  PROVE  HasRecord(next_, data_, op.head, op.len, op.rec)
<1> DEFINE n == get_chunk_num(op.len)
<1>1. op.len \in Lens
  BY DEF CallInv
<1>2. PICK f \in Lists(n), k \in 0 .. n : SplitAt(f, k, n)
  BY <1>1 DEF RecordInv, SplitChain
<1>3. n \in Nat
  BY <1>1, ChunkNum
<1> HIDE DEF n
<1>4. k = n
  <2>1. SUFFICES ASSUME k # n PROVE FALSE
    OBVIOUS
  <2>2. k \in 0 .. n - 1 /\ op.node = f[k]
    BY <1>2, <1>3, <2>1 DEF SplitAt
  <2>3. f[k] \in Chunk
    BY <1>2, <2>2 DEF Lists
  <2> QED
    BY <2>2, <2>3, ChunkFacts
<1> QED
  BY <1>2, <1>4 DEF SplitAt, HasRecord, n

LEMMA UpdateLengthRecords ==
  ASSUME TypeOK, CallInv, ListInv, RecordInv, UpdateLength
  PROVE  RecordInv'
<1>1. /\ op.pc = "split" /\ op.node = INVALID /\ op'.pc = "handle" /\ op'.head = op.head
      /\ op'.len = op.len /\ op'.rec = op.rec /\ op'.owner = op.owner
      /\ op.owner \in DOMAIN held /\ UNCHANGED <<next_, data_>>
  BY DEF UpdateLength, TypeOK, OpType, CallInv
<1>2. held'[op.owner].len = op.len
  BY <1>1 DEF UpdateLength, TypeOK
<1>3. HasRecord(next_, data_, op.head, op.len, op.rec)
  BY <1>1, SplitDone
<1>4. HandleChain'
  BY <1>1, <1>2, <1>3 DEF HandleChain
<1>5. HeldRecords'
  BY <1>1, UpdateLengthInv, StillRecords
<1> QED
  BY <1>1, <1>4, <1>5 DEF RecordInv, MallocChain, SplitChain

(* The record that a call stores in its node is in the node's chain.       *)
LEMMA StoredIs ==
  ASSUME TypeOK, CallInv, ListInv, RecordInv, InsertStored \/ OverwriteStored \/ UpdateHandle
  PROVE  /\ op.owner \in DOMAIN held' /\ op.owner \in Nodes
         /\ held'[op.owner].head = op.head /\ held'[op.owner].len = op.len
         /\ held'[op.owner].rec = op.rec /\ op.len \in Lens /\ op.rec \in Records
         /\ HasRecord(next_, data_, op.head, op.len, op.rec)
         /\ UNCHANGED <<next_, data_>> /\ op'.pc = "idle" /\ op'.call = "none"
         /\ op.pc \in {"split", "handle"}
<1>1. /\ UNCHANGED <<next_, data_>> /\ op'.pc = "idle" /\ op'.call = "none"
      /\ op.call \in {"insert", "overwrite", "update"}
      /\ \/ op.pc = "handle"
         \/ op.pc = "split" /\ op.node = INVALID
  <2>1. CASE UpdateHandle
    BY <2>1 DEF UpdateHandle, CallInv, Idle
  <2>2. CASE InsertStored \/ OverwriteStored
    BY <2>2 DEF InsertStored, OverwriteStored, Idle
  <2> QED
    BY <2>1, <2>2
<1>2. op.len \in Lens /\ op.rec \in Records
  BY <1>1 DEF CallInv
<1>3. HasRecord(next_, data_, op.head, op.len, op.rec)
  BY <1>1, SplitDone DEF RecordInv, HandleChain
<1>4. CASE InsertStored
  <2>1. op.owner \in Nodes
    BY <1>4 DEF InsertStored, CallInv
  <2> QED
    BY <1>1, <1>2, <1>3, <1>4, <2>1 DEF InsertStored
<1>5. CASE OverwriteStored
  <2>1. op.owner \in DOMAIN held /\ op.owner \in Nodes /\ op.head = held[op.owner].head
    BY <1>5 DEF OverwriteStored, CallInv, TypeOK
  <2>2. /\ op.owner \in DOMAIN held' /\ held'[op.owner].head = held[op.owner].head
        /\ held'[op.owner].len = op.len /\ held'[op.owner].rec = op.rec
    BY <1>5, <2>1 DEF OverwriteStored, TypeOK
  <2> QED
    BY <1>1, <1>2, <1>3, <2>1, <2>2
<1>6. CASE UpdateHandle
  <2>1. /\ op.owner \in DOMAIN held /\ op.owner \in Nodes
        /\ held[op.owner].len = op.len
    BY <1>6 DEF UpdateHandle, CallInv, TypeOK, RecordInv, HandleChain
  <2>2. /\ op.owner \in DOMAIN held' /\ held'[op.owner].head = op.head
        /\ held'[op.owner].len = held[op.owner].len /\ held'[op.owner].rec = op.rec
    BY <1>6, <2>1 DEF UpdateHandle, TypeOK
  <2> QED
    BY <1>1, <1>2, <1>3, <2>1, <2>2
<1> QED
  BY <1>4, <1>5, <1>6

LEMMA StoredRecords ==
  ASSUME TypeOK, CallInv, ListInv, RecordInv, InsertStored \/ OverwriteStored \/ UpdateHandle
  PROVE  RecordInv'
<1>1. Live' = Live \cup {op.owner} /\ \A m \in Live : held'[m] = held[m]
  BY StoredInv
<1>2. /\ held'[op.owner].head = op.head /\ held'[op.owner].len = op.len
      /\ held'[op.owner].rec = op.rec /\ HasRecord(next_, data_, op.head, op.len, op.rec)
      /\ UNCHANGED <<next_, data_>> /\ op'.pc = "idle"
  BY StoredIs
<1>3. HeldRecords'
  <2>1. ASSUME NEW n \in Live'
        PROVE  HasRecord(next_', data_', held'[n].head, held'[n].len, held'[n].rec)
    <3>1. CASE n = op.owner
      BY <1>2, <3>1
    <3>2. CASE n # op.owner
      BY <1>1, <1>2, <2>1, <3>2 DEF RecordInv, HeldRecords
    <3> QED
      BY <3>1, <3>2
  <2> QED
    BY <2>1 DEF HeldRecords
<1> QED
  BY <1>2, <1>3 DEF RecordInv, MallocChain, SplitChain, HandleChain

LEMMA RecordStep ==
  ASSUME TypeOK, CallInv, ListInv, RecordInv, FitInv, [Next]_vars, ~stale'
  PROVE  RecordInv'
<1>1. ASSUME NEW len \in Lens, NEW r \in Records, NEW n \in Nodes \ DOMAIN held,
             InsertCall(n, len, r)
      PROVE  RecordInv'
  BY <1>1, InsertCallRecords
<1>2. ASSUME NEW len \in Lens, NEW r \in Records, NEW n \in DOMAIN held,
             OverwriteCall(n, len, r) \/ UpdateCall(n, len, r)
      PROVE  RecordInv'
  BY <1>2, TakeCallRecords
<1>3. ASSUME NEW n \in DOMAIN held, DeleteCall(n)
      PROVE  RecordInv'
  BY <1>3, TakeCallRecords
<1>4. ASSUME Crash \/ MallocNull PROVE RecordInv'
  BY <1>4, DiesRecords DEF Crash, MallocNull
<1>5. ASSUME UpdateMalloc PROVE RecordInv'
  <2>1. op.pc = "malloc"
    BY <1>5 DEF UpdateMalloc
  <2> QED
    BY <1>5, <2>1, EnoughAtMalloc, UpdateMallocRecords
<1> QED
  BY <1>1, <1>2, <1>3, <1>4, <1>5, QuietRecords, MallocReturnRecords, MallocLinkRecords,
     FreeLinkRecords, SplitCopyRecords, UpdateLengthRecords, StoredRecords DEF Next, Step

-----------------------------------------------------------------------------
(* merge assembles from a chain the record that is in it. *)

(* Step k of merge's walk is at the chunk that the chain lists there.      *)
WalkFrom(next, h, len, g) ==
  g = [k \in 0 .. len |->
         IF k = 0 THEN h ELSE IF g[k - 1] = INVALID THEN INVALID ELSE next[g[k - 1]]]

LEMMA WalkChain ==
  ASSUME NEW next, NEW h, NEW n \in Nat \ {0}, NEW f, Chain(next, h, n, f),
         NEW len \in Nat, n <= len,
         NEW g, WalkFrom(next, h, len, g)
  PROVE  \A k \in 0 .. n - 1 : g[k] = f[k]
<1> DEFINE Off == {k \in 0 .. n - 1 : g[k] # f[k]}
<1>1. SUFFICES ASSUME Off # {} PROVE FALSE
  OBVIOUS
<1>2. PICK m \in Off : \A k \in Off : ~ (<<k, m>> \in OpToRel(<, Nat))
  <2>1. Off \subseteq Nat
    OBVIOUS
  <2> QED
    BY <1>1, <2>1, NatLessThanWellFounded, WFMin
<1>3. m \in 0 .. n - 1 /\ g[m] # f[m] /\ \A k \in Off : ~ (k < m)
  <2>1. \A k \in Off : k \in Nat
    OBVIOUS
  <2>2. m \in Nat /\ \A k \in Off : ~ (k < m)
    BY <1>2, <2>1 DEF OpToRel
  <2> QED
    BY <2>2
<1>4. m # 0
  <2>1. g[0] = h
    BY DEF WalkFrom
  <2> QED
    BY <1>3, <2>1 DEF Chain
<1>5. m - 1 \in 0 .. n - 2 /\ m - 1 \in 0 .. n - 1 /\ (m - 1) + 1 = m
  BY <1>3, <1>4
<1>6. g[m - 1] = f[m - 1]
  BY <1>3, <1>5
<1>7. g[m - 1] # INVALID /\ next[f[m - 1]] = f[m]
  BY <1>5, <1>6, ChunkFacts DEF Chain
<1>8. g[m] = IF g[m - 1] = INVALID THEN INVALID ELSE next[g[m - 1]]
  BY <1>3, <1>4 DEF WalkFrom
<1> QED
  BY <1>3, <1>6, <1>7, <1>8

LEMMA WalkExists ==
  ASSUME NEW next, NEW h, NEW n \in Nat \ {0}, NEW f, Chain(next, h, n, f),
         NEW len \in Nat, n <= len
  PROVE  \E g : WalkFrom(next, h, len, g)
<1> DEFINE g == [k \in 0 .. len |-> IF k < n THEN f[k] ELSE INVALID]
<1>1. ASSUME NEW k \in 0 .. len, k # 0
      PROVE  g[k] = IF g[k - 1] = INVALID THEN INVALID ELSE next[g[k - 1]]
  <2>1. k - 1 \in 0 .. len /\ g[k - 1] = IF k - 1 < n THEN f[k - 1] ELSE INVALID
    BY <1>1
  <2>2. CASE k < n
    <3>1. k - 1 \in 0 .. n - 2 /\ k - 1 \in 0 .. n - 1 /\ (k - 1) + 1 = k
      BY <1>1, <2>2
    <3>2. g[k - 1] = f[k - 1] /\ f[k - 1] # INVALID /\ next[f[k - 1]] = f[k] /\ g[k] = f[k]
      BY <1>1, <2>1, <2>2, <3>1, ChunkFacts DEF Chain
    <3> QED
      BY <3>2
  <2>3. CASE k = n
    <3>1. k - 1 = n - 1 /\ n - 1 \in 0 .. n - 1
      BY <2>3
    <3>2. g[k - 1] = f[n - 1] /\ next[f[n - 1]] = INVALID /\ g[k] = INVALID
      BY <1>1, <2>1, <2>3, <3>1 DEF Chain
    <3> QED
      BY <3>2
  <2>4. CASE k > n
    BY <1>1, <2>1, <2>4
  <2> QED
    BY <1>1, <2>2, <2>3, <2>4
<1>2. 0 \in 0 .. len /\ g[0] = h
  BY DEF Chain
<1>3. g = [k \in 0 .. len |-> g[k]]
  OBVIOUS
<1> HIDE DEF g
<1>4. WalkFrom(next, h, len, g)
  BY <1>1, <1>2, <1>3 DEF WalkFrom
<1> QED
  BY <1>4

LEMMA MergeIs ==
  ASSUME NEW h, NEW len \in Lens, NEW r, r # Blank, HasRecord(next_, data_, h, len, r)
  PROVE  merge(h, len) = Content(r, len)
<1> DEFINE n == get_chunk_num(len)
<1>1. len \in Nat /\ n \in Nat \ {0} /\ n <= len
  <2>1. len \in Nat \ {0} /\ ChunkSize \in Nat \ {0} /\ n \in Nat \ {0} /\ (n - 1) * ChunkSize < len
    BY PoolAssumption, NumBounds
  <2> HIDE DEF n
  <2>2. (n - 1) * ChunkSize >= n - 1
    BY <2>1
  <2> QED
    BY <2>1, <2>2
<1>2. PICK f \in Lists(n) : Chain(next_, h, n, f) /\ Filled(data_, f, n, len, r)
  BY DEF HasRecord
<1> DEFINE node == CHOOSE g : WalkFrom(next_, h, len, g)
<1>3. WalkFrom(next_, h, len, node)
  <2> HIDE DEF n
  <2> QED
    BY <1>1, <1>2, WalkExists
<1>4. \A k \in 0 .. n - 1 : node[k] = f[k]
  <2> HIDE DEF n, node
  <2> QED
    BY <1>1, <1>2, <1>3, WalkChain
<1>5. merge(h, len) = [p \in 0 .. len - 1 |->
         IF node[p \div ChunkSize] = INVALID THEN Blank
         ELSE data_[node[p \div ChunkSize]][p % ChunkSize]]
  BY DEF merge, WalkFrom
<1> HIDE DEF node
<1>6. ASSUME NEW p \in 0 .. len - 1
      PROVE  /\ node[p \div ChunkSize] # INVALID
             /\ data_[node[p \div ChunkSize]][p % ChunkSize] = Byte(r, p)
  <2> DEFINE j == p \div ChunkSize
             m == p % ChunkSize
  <2>1. j \in 0 .. n - 1 /\ m \in 0 .. ChunkSize - 1 /\ j * ChunkSize + m = p
    BY <1>6, ByteAt
  <2> HIDE DEF j, m
  <2>2. p < len
    BY <1>1, <1>6
  <2>3. data_[f[j]][m] = Byte(r, p)
    <3> HIDE DEF n
    <3> QED
      BY <1>2, <2>1, <2>2 DEF Filled
  <2>4. node[j] = f[j] /\ f[j] # INVALID
    <3> HIDE DEF n
    <3> QED
      BY <1>2, <1>4, <2>1, ChunkFacts DEF Lists
  <2> QED
    BY <2>3, <2>4 DEF j, m
<1> QED
  BY <1>5, <1>6 DEF Content

-----------------------------------------------------------------------------
(* Chunks and records are counted alike. *)

LEMMA FiniteTaken == IsFiniteSet(Chunk) /\ IsFiniteSet(Taken) /\ Cardinality(Taken) \in Nat
<1>1. IsFiniteSet(Chunk)
  BY FS_Interval, PoolAssumption DEF Chunk
<1>2. Taken \subseteq Chunk
  BY ListSubset DEF Taken
<1> QED
  BY <1>1, <1>2, FS_Subset, FS_CardinalityType

(* One record takes the chunks its length needs. *)
LEMMA RecordSize ==
  ASSUME NEW h, NEW len \in Lens, NEW r, HasRecord(next_, data_, h, len, r)
  PROVE  Cardinality(List(h)) = get_chunk_num(len)
<1> DEFINE n == get_chunk_num(len)
<1>1. PICK f \in Lists(n) : Chain(next_, h, n, f)
  BY DEF HasRecord
<1>2. n \in Nat \ {0}
  BY NumBounds
<1> HIDE DEF n
<1>3. /\ f \in [0 .. n - 1 -> Chunk] /\ \A i, j \in 0 .. n - 1 : f[i] = f[j] => i = j
      /\ List(h) = {f[i] : i \in 0 .. n - 1}
  BY <1>1 DEF Chain, List
<1>4. f \in Bijection(0 .. n - 1, List(h))
  <2>1. f \in [0 .. n - 1 -> List(h)] /\ \A c \in List(h) : \E i \in 0 .. n - 1 : f[i] = c
    BY <1>3
  <2> QED
    BY <1>3, <2>1 DEF Bijection, Injection, Surjection, IsInjective
<1>5. ExistsBijection(0 .. n - 1, List(h))
  BY <1>4 DEF ExistsBijection
<1>6. IsFiniteSet(0 .. n - 1) /\ Cardinality(0 .. n - 1) = n
  <2>1. 0 \in Int /\ n - 1 \in Int /\ ~(0 > n - 1) /\ (n - 1) - 0 + 1 = n
    BY <1>2
  <2> QED
    BY <2>1, FS_Interval
<1>7. Cardinality(List(h)) = n
  BY <1>5, <1>6, FS_Bijection
<1> QED
  BY <1>7 DEF n

-----------------------------------------------------------------------------
(* An update finds the chunks it needs. *)
LEMMA FiniteOpChunks == IsFiniteSet(OpChunks) /\ Cardinality(OpChunks) \in Nat
<1>1. OpChunk \cap Chunk \subseteq Chunk /\ IsFiniteSet(OpChunk)
  BY FS_EmptySet, FS_Singleton DEF OpChunk
<1>2. IsFiniteSet(OpChunks)
  BY <1>1, FiniteLists, FS_Union DEF OpChunks
<1> QED
  BY <1>2, FS_CardinalityType

(* Only free_total_ and the chunks an update has in hand matter.           *)
LEMMA FitStill ==
  ASSUME TypeOK, FitInv, free_total_' = free_total_, OpChunks' = OpChunks,
         op'.call = op.call, op'.num = op.num,
         op'.pc \in {"free", "insert", "malloc"} =>
            op.pc \in {"free", "insert", "malloc"},
         op'.pc = "count" => op.pc = "count"
  PROVE  FitInv'
BY FiniteOpChunks DEF FitInv, TypeOK, OpType

LEMMA FitElse ==
  ASSUME FitInv, free_total_' >= 0,
         op'.call # "update" \/ op'.pc \notin {"free", "insert", "count", "malloc"}
  PROVE  FitInv'
BY DEF FitInv

LEMMA TakeCallFit ==
  ASSUME TypeOK, CallInv, ListInv, RecordInv, FitInv, NEW n \in DOMAIN held,
         \/ DeleteCall(n)
         \/ \E len \in Lens, r \in Records : OverwriteCall(n, len, r) \/ UpdateCall(n, len, r)
  PROVE  FitInv'
<1>1. free_total_' = free_total_ /\ free_total_ >= 0 /\ free_total_ \in Int
  BY DEF DeleteCall, OverwriteCall, UpdateCall, UpdateTurn, FitInv, TypeOK
<1>2. CASE DeleteCall(n) \/ \E len \in Lens, r \in Records : OverwriteCall(n, len, r)
  <2>1. op'.call # "update"
    BY <1>2 DEF DeleteCall, OverwriteCall, Call, Idle
  <2> QED
    BY <1>1, <2>1, FitElse
<1>3. ASSUME NEW len \in Lens, NEW r \in Records, UpdateCall(n, len, r)
      PROVE  FitInv'
  <2>1. /\ op'.pc = "free" /\ op'.num = get_chunk_num(len)
        /\ More(n, len) > 0 => free_total_ >= More(n, len)
    BY <1>3 DEF UpdateCall, UpdateTurn, Call, Idle
  <2>2. OpChunks' = List(held[n].head) /\ Live = DOMAIN held
    BY <1>3, TakeCallInv
  <2>3. held[n].len \in Lens
    BY DEF TypeOK
  <2>4. Cardinality(List(held[n].head)) = get_chunk_num(held[n].len)
    BY <2>2, <2>3, RecordSize DEF RecordInv, HeldRecords
  <2>5. get_chunk_num(len) \in Nat /\ get_chunk_num(held[n].len) \in Nat
    BY <2>3, ChunkNum
  <2>6. op'.num <= free_total_ + Cardinality(OpChunks')
    BY <1>1, <2>1, <2>2, <2>4, <2>5 DEF More
  <2>7. Cardinality(OpChunks') \in Nat /\ op'.pc # "count" /\ free_total_' >= 0
    BY <1>1, <2>1, <2>2, <2>4, <2>5
  <2> QED
    BY <1>1, <2>6, <2>7 DEF FitInv
<1> QED
  BY <1>2, <1>3

LEMMA FreeFit ==
  ASSUME TypeOK, CallInv, ListInv, FitInv, FreeLink \/ FreeInsert \/ FreeCount \/ FreeReturn
  PROVE  FitInv'
<1>0. free_total_ \in Int /\ op.num \in Nat /\ free_total_ >= 0
  BY DEF TypeOK, OpType, FitInv
<1>1. CASE FreeLink
  <2>1. /\ op.pc = "free" /\ op'.pc = "insert" /\ op'.call = op.call /\ op'.num = op.num
        /\ free_total_' = free_total_
    BY <1>1 DEF FreeLink, TypeOK, OpType
  <2> QED
    BY <1>1, <2>1, FreeLinkInv, FitStill
<1>2. CASE FreeInsert
  <2>1. /\ op.pc = "insert" /\ op'.pc = "count" /\ op'.call = op.call /\ op'.num = op.num
        /\ free_total_' = free_total_
    BY <1>2 DEF FreeInsert, TypeOK, OpType
  <2>2. op.node \notin OpChunks' /\ OpChunks = OpChunks' \cup {op.node}
    BY <1>2, FreeInsertInv
  <2>3. IsFiniteSet(OpChunks')
    BY <2>2, FiniteOpChunks, FS_Subset
  <2>4. Cardinality(OpChunks) = Cardinality(OpChunks') + 1 /\ Cardinality(OpChunks') \in Nat
    BY <2>2, <2>3, FS_AddElement, FS_CardinalityType
  <2> QED
    BY <1>0, <2>1, <2>4 DEF FitInv
<1>3. CASE FreeCount
  <2>1. /\ op.pc = "count" /\ op'.pc = "free" /\ op'.call = op.call /\ op'.num = op.num
        /\ free_total_' = free_total_ + 1
    BY <1>3 DEF FreeCount, TypeOK, OpType
  <2>2. OpChunks' = OpChunks /\ Cardinality(OpChunks) \in Nat
    BY <1>3, FreeCountInv, FiniteOpChunks
  <2> QED
    BY <1>0, <2>1, <2>2 DEF FitInv
<1>4. CASE FreeReturn
  <2>1. op.pc = "free" /\ free_total_' = free_total_
    BY <1>4 DEF FreeReturn
  <2>2. CASE op.call = "update"
    <3>1. op'.pc = "malloc" /\ op'.call = op.call /\ op'.num = op.num
      BY <1>4, <2>2 DEF FreeReturn, TypeOK, OpType
    <3> QED
      BY <1>4, <2>1, <3>1, FreeReturnInv, FitStill
  <2>3. CASE op.call # "update"
    <3>1. op'.call # "update"
      BY <1>4, <2>3 DEF FreeReturn, Idle
    <3> QED
      BY <1>0, <2>1, <3>1, FitElse
  <2> QED
    BY <2>2, <2>3
<1> QED
  BY <1>1, <1>2, <1>3, <1>4

(* The other steps end no free and begin none.                             *)
LEMMA OtherFit ==
  ASSUME TypeOK, CallInv, ListInv, FitInv,
         \/ \E len \in Lens, r \in Records, n \in Nodes \ DOMAIN held : InsertCall(n, len, r)
         \/ MallocPop \/ MallocLink \/ MallocReturn \/ MallocNull \/ SplitCopy \/ UpdateMalloc
         \/ InsertStored \/ OverwriteStored \/ UpdateLength \/ UpdateHandle \/ Crash
  PROVE  FitInv'
<1>0. free_total_ \in Int /\ op.num \in Nat /\ free_total_ >= 0
  BY DEF TypeOK, OpType, FitInv
<1>1. free_total_' >= 0
  <2>1. CASE MallocReturn
    <3>1. op.num <= free_total_
      BY <2>1 DEF MallocReturn, ListInv, OpInv
    <3> QED
      BY <1>0, <2>1, <3>1 DEF MallocReturn
  <2>2. CASE ~ MallocReturn
    BY <1>0, <2>2 DEF InsertCall, MallocPop, MallocLink, LinkTo, MallocNull, SplitCopy, Copy,
       UpdateMalloc, InsertStored, OverwriteStored, UpdateLength, UpdateHandle, Crash, Dies
  <2> QED
    BY <2>1, <2>2
<1>2. op'.pc \notin {"free", "insert", "count", "malloc"}
  <2>1. CASE \E len \in Lens, r \in Records, n \in Nodes \ DOMAIN held : InsertCall(n, len, r)
    BY <2>1 DEF InsertCall, Call, Idle
  <2>2. CASE MallocPop \/ MallocLink \/ MallocReturn \/ SplitCopy
    BY <2>2 DEF MallocPop, MallocLink, LinkTo, MallocReturn, SplitCopy, Copy, TypeOK, OpType
  <2>3. CASE UpdateMalloc
    <3>1. \/ op' = [op EXCEPT !.pc = "pop"]
          \/ op' = [op EXCEPT !.pc = "split"]
      BY <2>3 DEF UpdateMalloc
    <3> QED
      BY <3>1 DEF TypeOK, OpType
  <2>4. CASE UpdateLength
    BY <2>4 DEF UpdateLength, TypeOK, OpType
  <2>5. CASE InsertStored \/ OverwriteStored \/ UpdateHandle \/ Crash \/ MallocNull
    BY <2>5 DEF InsertStored, OverwriteStored, UpdateHandle, Crash, MallocNull, Dies, Idle
  <2> QED
    BY <2>1, <2>2, <2>3, <2>4, <2>5
<1> QED
  BY <1>1, <1>2, FitElse

LEMMA FitStep ==
  ASSUME TypeOK, CallInv, ListInv, RecordInv, FitInv, [Next]_vars
  PROVE  FitInv'
<1>1. ASSUME \/ Open \/ UNCHANGED vars
             \/ \E len \in Lens : InsertLack(len) \/ \E n \in DOMAIN held : UpdateLack(n, len)
      PROVE  FitInv'
  <2>1. UNCHANGED <<free_total_, op, next_>>
    BY <1>1 DEF Open, vars, InsertLack, UpdateLack
  <2>2. OpChunks' = OpChunks
    BY <2>1 DEF OpChunks, OpHead, OpChunk, List
  <2> QED
    BY <2>1, <2>2, FitStill
<1>2. ASSUME NEW n \in DOMAIN held,
             \/ DeleteCall(n)
             \/ \E len \in Lens, r \in Records : OverwriteCall(n, len, r) \/ UpdateCall(n, len, r)
      PROVE  FitInv'
  BY <1>2, TakeCallFit
<1>3. ASSUME NEW len \in Lens, NEW r \in Records, NEW n \in Nodes \ DOMAIN held,
             InsertCall(n, len, r)
      PROVE  FitInv'
  BY <1>3, OtherFit
<1>4. ASSUME NEW len \in Lens, NEW r \in Records, NEW n \in DOMAIN held,
             OverwriteCall(n, len, r) \/ UpdateCall(n, len, r)
      PROVE  FitInv'
  BY <1>2, <1>4
<1>5. ASSUME NEW n \in DOMAIN held, DeleteCall(n)
      PROVE  FitInv'
  BY <1>2, <1>5
<1> QED
  BY <1>1, <1>3, <1>4, <1>5, FreeFit, OtherFit DEF Next, Step

-----------------------------------------------------------------------------
(* The theorems about the lists. *)

(* What holds unless a process has died in the middle of an update.        *)
Sound == ListInv /\ RecordInv /\ FitInv

LEMMA NextInv ==
  ASSUME TypeOK, CallInv, ~stale => Sound, [Next]_vars
  PROVE  TypeOK' /\ CallInv' /\ (~stale' => Sound')
<1>1. MallocNull => (~stale => crashes # 0)
  BY NullAfterDeath DEF Sound
<1>2. TypeOK' /\ CallInv'
  BY <1>1, NextType
<1>3. ~stale' => Sound'
  BY StaleKept, ListStep, RecordStep, FitStep DEF Sound
<1> QED
  BY <1>2, <1>3

(* The inductive invariant holds of every behaviour of the allocator. *)
LEMMA Invariance == Spec => [](TypeOK /\ CallInv /\ (~stale => Sound))
<1>1. Init => TypeOK /\ CallInv /\ Sound
  <2> SUFFICES ASSUME Init PROVE TypeOK /\ CallInv /\ Sound
    OBVIOUS
  <2>1. op.pc = "idle" /\ DOMAIN held = {} /\ free_total_ >= 0
    BY PoolAssumption DEF Init, Idle
  <2>2. RecordInv
    BY <2>1 DEF Live, RecordInv, HeldRecords, MallocChain, SplitChain, HandleChain
  <2>3. FitInv
    BY <2>1 DEF FitInv
  <2> QED
    BY <2>2, <2>3, InitType, InitListInv DEF Sound
<1>2. /\ TypeOK /\ CallInv /\ (~stale => Sound)
      /\ [Next]_vars
      => (TypeOK /\ CallInv /\ (~stale => Sound))'
  BY NextInv
<1> QED
  BY <1>1, <1>2, PTL DEF Spec

(* Every variable of the allocator keeps its type. *)
THEOREM TypeCorrect == Spec => []TypeOK
BY Invariance, PTL

(* No chunk is ever on two lists, at any store of malloc, split and free,  *)
(* for any pool and after any deaths, as long as none was in the middle of *)
(* an update.                                                              *)
THEOREM Exclusive == Spec => []NoAlias
<1>1. (~stale => Sound) => NoAlias
  BY DEF Sound, ListInv, NoAlias
<1> QED
  BY <1>1, Invariance, PTL

(* Every list that the allocator walks ends, on the same condition. *)
THEOREM ListsEnd == Spec => []NoCycle
<1>1. (~stale => Sound) => NoCycle
  BY DEF Sound, ListInv, NoCycle
<1> QED
  BY <1>1, Invariance, PTL

(* Without a death no chunk is lost. *)
THEOREM Conservation == Spec => []NoLeak
<1>1. CallInv /\ (~stale => Sound) => NoLeak
  BY DEF Sound, ListInv, NoLeak, CallInv
<1> QED
  BY <1>1, Invariance, PTL

(* On a pool that open() accepted, with no death since and none ever in    *)
(* the middle of an update, malloc never takes a chunk from an empty free  *)
(* list.                                                                   *)
THEOREM NeverRunsOut == Spec => []VerifiedNeverNull
<1>1. TypeOK /\ (~stale => Sound) => VerifiedNeverNull
  BY NeverNull DEF Sound, VerifiedNeverNull
<1> QED
  BY <1>1, Invariance, PTL

(* An update finds the chunks it needs: those it frees and those it asked  *)
(* for are enough, for any pool, lengths and deaths but those of updates.  *)
THEOREM UpdatesFit == Spec => []UpdateFits
<1>1. TypeOK /\ CallInv /\ (~stale => Sound) => UpdateFits
  BY EnoughAtMalloc DEF Sound, UpdateFits
<1> QED
  BY <1>1, Invariance, PTL

-----------------------------------------------------------------------------
(* Chunks and records are counted alike. *)

(* The chunks of the nodes in D are as many as the abstract pool counts    *)
(* for their records: the i-th part of a record is the i-th chunk of its   *)
(* chain.                                                                  *)
ChunksOf(D) == UNION {List(held[n].head) : n \in D}

LEMMA UsedIs ==
  ASSUME TypeOK, Disjoint, HeldRecords, NEW D \in SUBSET Live, NEW s, DOMAIN s = D,
         \A h \in D : s[h].len = held[h].len
  PROVE  Pool!Used(s) = Cardinality(ChunksOf(D))
<1> DEFINE n(h) == get_chunk_num(held[h].len)
           F == [h \in D |-> CHOOSE f : Chain(next_, held[h].head, n(h), f)]
           P == UNION {{h} \X (1 .. n(h)) : h \in D}
           B == [x \in P |-> F[x[1]][x[2] - 1]]
           L(h) == List(held[h].head)
           T == ChunksOf(D)
<1>1. ASSUME NEW h \in D
      PROVE  /\ n(h) \in Nat \ {0} /\ Pool!Need(held[h].len) = n(h)
             /\ Chain(next_, held[h].head, n(h), F[h])
  <2>1. held[h].len \in Lens
    BY DEF TypeOK, Live
  <2>2. \E f : Chain(next_, held[h].head, n(h), f)
    BY DEF HeldRecords, HasRecord
  <2> QED
    BY <2>1, <2>2, NumBounds
<1>2. Pool!Parts(s) = P
  BY <1>1 DEF Pool!Parts
<1> HIDE DEF n, F
<1>3. ASSUME NEW h \in D
      PROVE  /\ F[h] \in [0 .. n(h) - 1 -> Chunk]
             /\ \A i, j \in 0 .. n(h) - 1 : F[h][i] = F[h][j] => i = j
             /\ L(h) = {F[h][i] : i \in 0 .. n(h) - 1}
  BY <1>1 DEF Chain, List
<1>a. \A g, h \in D : g # h => L(g) \cap L(h) = {}
  BY DEF Disjoint
<1>b. T = UNION {L(h) : h \in D}
  BY DEF ChunksOf
<1>c. IsFiniteSet(T)
  <2>1. IsFiniteSet(Chunk)
    BY FS_Interval, PoolAssumption DEF Chunk
  <2>2. T \subseteq Chunk
    BY ListSubset DEF ChunksOf
  <2> QED
    BY <2>1, <2>2, FS_Subset
<1> HIDE DEF L, T
<1>4. ASSUME NEW x \in P
      PROVE  /\ x[1] \in D /\ x[2] \in 1 .. n(x[1]) /\ x = <<x[1], x[2]>>
             /\ x[2] - 1 \in 0 .. n(x[1]) - 1 /\ B[x] = F[x[1]][x[2] - 1]
             /\ B[x] \in L(x[1])
  <2>1. PICK h \in D : x \in {h} \X (1 .. n(h))
    BY <1>4
  <2>2. x = <<x[1], x[2]>> /\ x[1] = h /\ x[2] \in 1 .. n(h)
    BY <2>1
  <2>3. x[2] - 1 \in 0 .. n(h) - 1
    BY <1>1, <2>2
  <2>4. F[h][x[2] - 1] \in L(h)
    BY <1>3, <2>3
  <2> QED
    BY <1>4, <2>2, <2>3, <2>4
<1>5. ASSUME NEW c \in T PROVE \E x \in P : B[x] = c
  <2>1. PICK h \in D : c \in L(h)
    BY <1>5, <1>b
  <2>2. PICK i \in 0 .. n(h) - 1 : c = F[h][i]
    BY <1>3, <2>1
  <2>3. i + 1 \in 1 .. n(h) /\ (i + 1) - 1 = i
    BY <1>1, <2>2
  <2>4. <<h, i + 1>> \in P
    BY <2>3
  <2> HIDE DEF P
  <2> QED
    BY <2>2, <2>3, <2>4
<1>6. ASSUME NEW x \in P, NEW y \in P, B[x] = B[y] PROVE x = y
  <2>1. x[1] = y[1]
    BY <1>4, <1>6, <1>a
  <2>2. x[2] - 1 = y[2] - 1
    <3> HIDE DEF P, B
    <3>1. x[1] \in D /\ F[x[1]][x[2] - 1] = F[x[1]][y[2] - 1]
      BY <1>4, <1>6, <2>1
    <3>2. x[2] - 1 \in 0 .. n(x[1]) - 1 /\ y[2] - 1 \in 0 .. n(x[1]) - 1
      BY <1>4, <2>1
    <3> QED
      BY <1>3, <3>1, <3>2
  <2>4. x[2] \in Int /\ y[2] \in Int
    BY <1>1, <1>4
  <2>3. x[2] = y[2]
    BY <2>2, <2>4
  <2> QED
    BY <1>4, <2>1, <2>3
<1>7. B \in [P -> T]
  <2>1. \A x \in P : B[x] \in T
    <3> HIDE DEF P, B
    <3> QED
      BY <1>4, <1>b
  <2> QED
    BY <2>1
<1> HIDE DEF P, B
<1>8. B \in Bijection(P, T)
  BY <1>5, <1>6, <1>7 DEF Bijection, Injection, Surjection, IsInjective
<1>9. ExistsBijection(T, P)
  BY <1>8, Fun_ExistsBijSymmetric DEF ExistsBijection
<1>10. Cardinality(P) = Cardinality(T)
  BY <1>9, <1>c, FS_Bijection
<1>11. Pool!Used(s) = Cardinality(Pool!Parts(s))
  BY DEF Pool!Used, Pool!Cardinality, Cardinality
<1> QED
  BY <1>2, <1>10, <1>11 DEF T

(* Without a death, the chunks that are not free are those of the records. *)
LEMMA LackInv == TypeOK /\ CallInv /\ (~stale => Sound) => LackIsReal
<1> SUFFICES ASSUME TypeOK, CallInv, ~stale => Sound, crashes = 0, op.pc = "idle"
             PROVE  free_total_ = ChunkTotal - Pool!Used(held)
  BY DEF LackIsReal
<1>0. ListInv /\ RecordInv
  BY DEF CallInv, Sound
<1>1. OpChunks = {}
  BY ListHead DEF OpChunks, OpHead, OpChunk
<1>2. Chunk = FreeChunks \cup Taken /\ FreeChunks \cap Taken = {}
  BY <1>0, <1>1 DEF ListInv, NoLeak, Disjoint, Taken
<1>3. Cardinality(FreeChunks) = free_total_
  BY <1>0 DEF ListInv, CountInv, Ahead, TypeOK
<1>4. Cardinality(Chunk) = ChunkTotal
  BY FS_Interval, PoolAssumption DEF Chunk
<1>5. IsFiniteSet(FreeChunks) /\ IsFiniteSet(Taken) /\ Cardinality(Taken) \in Nat
  BY FiniteTaken, FiniteLists DEF FreeChunks
<1>6. Cardinality(FreeChunks \cup Taken) =
        Cardinality(FreeChunks) + Cardinality(Taken) - Cardinality(FreeChunks \cap Taken)
  BY <1>5, FS_Union
<1>7. Cardinality(FreeChunks \cap Taken) = 0
  BY <1>2, FS_EmptySet
<1>8. Pool!Used(held) = Cardinality(Taken)
  <2>1. DOMAIN held = Live /\ Taken = ChunksOf(Live)
    BY LiveIdle DEF Taken, ChunksOf
  <2> QED
    BY <1>0, <2>1, UsedIs DEF ListInv, RecordInv
<1>9. Cardinality(FreeChunks \cup Taken) = ChunkTotal
  BY <1>2, <1>4
<1> QED
  BY <1>3, <1>5, <1>6, <1>7, <1>8, <1>9, PoolAssumption DEF TypeOK

-----------------------------------------------------------------------------
(* The refinement. *)

(* A node with a record is not in the hands of a call. *)
LEMMA WholeLive == ASSUME CallInv PROVE Whole \subseteq Live
BY DEF CallInv, Whole, Live

(* The record that merge returns for a node is the one stored there.       *)
Merged == \A n \in Whole : merge(held[n].head, held[n].len) = Content(held[n].rec, held[n].len)

LEMMA MergedInv == TypeOK /\ CallInv /\ (~stale => Sound) => (~stale => Merged)
<1> SUFFICES ASSUME TypeOK, CallInv, RecordInv, NEW n \in Whole
             PROVE  merge(held[n].head, held[n].len) = Content(held[n].rec, held[n].len)
  BY DEF Merged, Sound
<1>1. n \in Live /\ held[n].len \in Lens /\ held[n].rec # Blank
  BY WholeLive DEF TypeOK, Whole
<1>2. HasRecord(next_, data_, held[n].head, held[n].len, held[n].rec)
  BY <1>1 DEF RecordInv, HeldRecords
<1> QED
  BY <1>1, <1>2, MergeIs

(* A chain that split has filled is the chain of a new record, which fits. *)
LEMMA RecordFits ==
  ASSUME TypeOK, CallInv, ListInv, RecordInv, InsertStored \/ OverwriteStored \/ UpdateHandle
  PROVE  Pool!Used(Stored) + Pool!Need(op.len) <= ChunkTotal
<1>1. /\ op.len \in Lens /\ OpHead = op.head
      /\ HasRecord(next_, data_, op.head, op.len, op.rec)
  BY StoredIs DEF OpHead
<1> DEFINE L == List(op.head)
           T == ChunksOf(Whole)
<1>2. Whole \in SUBSET Live
  BY WholeLive
<1>3. \A n \in Live : L \cap List(held[n].head) = {}
  BY <1>1 DEF ListInv, Disjoint, OpChunks
<1>5. L \cap T = {} /\ L \cup T \subseteq Chunk
  BY <1>2, <1>3, ListSubset DEF ChunksOf
<1>6. Cardinality(L) = Pool!Need(op.len)
  BY <1>1, RecordSize, NumBounds
<1>7. Cardinality(T) = Pool!Used(Stored)
  <2>1. DOMAIN Stored = Whole /\ \A n \in Whole : Stored[n].len = held[n].len
    BY DEF Stored
  <2> HIDE DEF T
  <2>2. Pool!Used(Stored) = Cardinality(ChunksOf(Whole))
    BY <1>2, <2>1, UsedIs DEF ListInv, RecordInv
  <2> QED
    BY <2>2 DEF T
<1> HIDE DEF L, T
<1>8. IsFiniteSet(Chunk) /\ Cardinality(Chunk) = ChunkTotal
  BY FS_Interval, PoolAssumption DEF Chunk
<1>9. /\ IsFiniteSet(L) /\ IsFiniteSet(T)
      /\ Cardinality(L) \in Nat /\ Cardinality(T) \in Nat
  BY <1>5, <1>8, FS_Subset, FS_CardinalityType
<1>10. Cardinality(L \cup T) = Cardinality(L) + Cardinality(T) - Cardinality(L \cap T)
  BY <1>9, FS_Union
<1>11. Cardinality(L \cap T) = 0
  BY <1>5, FS_EmptySet
<1>12. Cardinality(L \cup T) <= Cardinality(Chunk)
  BY <1>5, <1>8, FS_Subset
<1> QED
  BY <1>6, <1>7, <1>8, <1>9, <1>10, <1>11, <1>12

(* The records as the nodes have them.                                     *)
Known(s) == [n \in {m \in DOMAIN s : s[m].rec # Blank} |->
               [len |-> s[n].len, rec |-> Content(s[n].rec, s[n].len)]]

LEMMA StoredKnown == ASSUME Merged PROVE Stored = Known(held)
BY DEF Merged, Stored, Known, Whole

(* A record is stored. *)
LEMMA StoreStep ==
  ASSUME TypeOK, CallInv, ListInv, RecordInv, Merged, Merged',
         InsertStored \/ OverwriteStored \/ UpdateHandle
  PROVE  Pool!Next
<1>1. PICK n \in Nodes, len \in Lens, r \in Records :
         n = op.owner /\ len = op.len /\ r = op.rec
  BY StoredIs
<1>2. /\ n \in DOMAIN held' /\ held'[n].len = len /\ held'[n].rec = r
      /\ len \in Lens /\ r \in Records /\ r # Blank
  BY <1>1, StoredIs, PoolAssumption
<1>3. n \notin Whole
  <2>1. op.call # "insert" => op.owner \notin Whole
    BY DEF InsertStored, OverwriteStored, UpdateHandle, CallInv
  <2>2. op.call = "insert" => op.owner \notin DOMAIN held
    BY DEF CallInv
  <2> QED
    BY <1>1, <2>1, <2>2 DEF Whole
<1>4. /\ \A m \in DOMAIN held : m # n => m \in DOMAIN held' /\ held'[m] = held[m]
      /\ \A m \in DOMAIN held' : m # n => m \in DOMAIN held
  BY <1>1 DEF InsertStored, OverwriteStored, UpdateHandle, TypeOK, CallInv
<1>5. Stored = Known(held) /\ Stored' = Known(held')
  <2>1. Stored = Known(held)
    BY StoredKnown
  <2>2. Stored' = Known(held')
    BY DEF Merged, Stored, Known, Whole
  <2> QED
    BY <2>1, <2>2
<1>6. DOMAIN Stored = Whole /\ DOMAIN Stored' = Whole \cup {n}
  BY <1>2, <1>4 DEF Stored, Whole
<1>7. \A m \in Whole : Known(held')[m] = Known(held)[m]
  BY <1>3, <1>4 DEF Known, Whole
<1>8. Known(held')[n] = [len |-> len, rec |-> Content(r, len)]
  BY <1>2 DEF Known
<1>9. Stored' = [m \in DOMAIN Stored \cup {n} |->
                  IF m = n THEN [len |-> len, rec |-> Content(r, len)] ELSE Stored[m]]
  <2>1. Known(held') = [m \in DOMAIN Known(held') |-> Known(held')[m]]
    BY DEF Known
  <2> QED
    BY <1>3, <1>5, <1>6, <1>7, <1>8, <2>1
<1>10. Pool!Fits(Stored, len)
  BY <1>1, RecordFits DEF Pool!Fits
<1>11. Pool!Store(n, len, Content(r, len))
  BY <1>3, <1>6, <1>9, <1>10 DEF Pool!Store, Pool!With
<1>12. Content(r, len) \in {Content(q, l) : q \in Records, l \in Lens}
  BY <1>2
<1> HIDE DEF Content
<1> QED
  BY <1>1, <1>11, <1>12 DEF Pool!Next

(* A record ends: its node is deleted, or is about to get another one.     *)
LEMMA EndStep ==
  ASSUME TypeOK, CallInv, Merged, Merged', NEW n \in DOMAIN held,
         \/ DeleteCall(n)
         \/ \E len \in Lens, r \in Records : OverwriteCall(n, len, r) \/ UpdateCall(n, len, r)
  PROVE  [Pool!Next]_Stored
<1>1. /\ \A m \in DOMAIN held : m # n => m \in DOMAIN held' /\ held'[m] = held[m]
      /\ DOMAIN held' \subseteq DOMAIN held
      /\ n \in DOMAIN held' => held'[n].rec = Blank
  BY DEF DeleteCall, OverwriteCall, UpdateCall, UpdateTurn, TypeOK
<1>2. Stored = Known(held) /\ Stored' = Known(held')
  <2>1. Stored = Known(held)
    BY StoredKnown
  <2>2. Stored' = Known(held')
    BY DEF Merged, Stored, Known, Whole
  <2> QED
    BY <2>1, <2>2
<1>3. DOMAIN Stored = Whole /\ DOMAIN Stored' = Whole \ {n}
  BY <1>1 DEF Stored, Whole
<1>4. \A m \in Whole \ {n} : Known(held')[m] = Known(held)[m]
  BY <1>1 DEF Known, Whole
<1>5. Stored' = [m \in DOMAIN Stored \ {n} |-> Stored[m]]
  <2>1. Known(held') = [m \in DOMAIN Known(held') |-> Known(held')[m]]
    BY DEF Known
  <2> QED
    BY <1>2, <1>3, <1>4, <2>1
<1>6. CASE n \in Whole
  <2>1. Pool!Free(n)
    BY <1>3, <1>5, <1>6 DEF Pool!Free, Pool!Without
  <2>2. n \in Nodes
    BY DEF TypeOK
  <2> QED
    BY <2>1, <2>2 DEF Pool!Next
<1>7. CASE n \notin Whole
  <2>1. DOMAIN Stored \ {n} = DOMAIN Stored
    BY <1>3, <1>7
  <2>2. Stored = [m \in DOMAIN Stored |-> Stored[m]]
    BY DEF Stored
  <2>3. Stored' = Stored
    BY <1>5, <2>1, <2>2
  <2> QED
    BY <2>3
<1> QED
  BY <1>6, <1>7

(* The other steps change no record.                                       *)
LEMMA StutterStep ==
  ASSUME TypeOK, CallInv, Merged, Merged',
         held' = held \/ UpdateLength
  PROVE  Stored' = Stored
<1>1. Stored = Known(held) /\ Stored' = Known(held')
  <2>1. Stored = Known(held)
    BY StoredKnown
  <2>2. Stored' = Known(held')
    BY DEF Merged, Stored, Known, Whole
  <2> QED
    BY <2>1, <2>2
<1>2. CASE held' = held
  BY <1>1, <1>2
<1>3. CASE UpdateLength
  <2>1. /\ op.owner \in DOMAIN held /\ held[op.owner].rec = Blank
        /\ held' = [held EXCEPT ![op.owner].len = op.len]
    BY <1>3 DEF UpdateLength, CallInv, Whole
  <2>2. /\ DOMAIN held' = DOMAIN held /\ held'[op.owner].rec = Blank
        /\ \A m \in DOMAIN held : m # op.owner => held'[m] = held[m]
    BY <2>1 DEF TypeOK
  <2>3. {m \in DOMAIN held' : held'[m].rec # Blank} = {m \in DOMAIN held : held[m].rec # Blank}
    BY <2>1, <2>2
  <2>4. \A m \in DOMAIN held : held[m].rec # Blank => held'[m] = held[m]
    BY <2>1, <2>2
  <2>5. Known(held') = Known(held)
    BY <2>3, <2>4 DEF Known
  <2> QED
    BY <1>1, <2>5
<1> QED
  BY <1>2, <1>3

LEMMA PoolStep ==
  ASSUME TypeOK, CallInv, ListInv, RecordInv, Merged, Merged', [Next]_vars
  PROVE  [Pool!Next]_Stored
<1>1. CASE InsertStored \/ OverwriteStored \/ UpdateHandle
  BY <1>1, StoreStep
<1>2. ASSUME NEW n \in DOMAIN held,
             \/ DeleteCall(n)
             \/ \E len \in Lens, r \in Records : OverwriteCall(n, len, r) \/ UpdateCall(n, len, r)
      PROVE  [Pool!Next]_Stored
  BY <1>2, EndStep
<1>3. CASE \/ MallocPop \/ MallocLink \/ MallocReturn \/ MallocNull \/ SplitCopy
           \/ FreeLink \/ FreeInsert \/ FreeCount \/ FreeReturn \/ UpdateMalloc
           \/ UpdateLength \/ Crash \/ Open \/ UNCHANGED vars
  <2>1. held' = held \/ UpdateLength
    BY <1>3 DEF MallocPop, MallocLink, LinkTo, MallocReturn, MallocNull, SplitCopy, Copy,
                FreeLink, FreeInsert, FreeCount, FreeReturn, UpdateMalloc, Crash, Dies,
                Open, vars
  <2> QED
    BY <2>1, StutterStep
<1>4. CASE \/ \E len \in Lens, r \in Records, n \in Nodes \ DOMAIN held : InsertCall(n, len, r)
           \/ \E len \in Lens : InsertLack(len) \/ \E n \in DOMAIN held : UpdateLack(n, len)
  <2>1. held' = held
    BY <1>4 DEF InsertCall, InsertLack, UpdateLack, vars
  <2> QED
    BY <2>1, StutterStep
<1>5. ASSUME NEW len \in Lens, NEW r \in Records, NEW n \in DOMAIN held,
             OverwriteCall(n, len, r) \/ UpdateCall(n, len, r)
      PROVE  [Pool!Next]_Stored
  BY <1>2, <1>5
<1>6. ASSUME NEW n \in DOMAIN held, DeleteCall(n)
      PROVE  [Pool!Next]_Stored
  BY <1>2, <1>6
<1> QED
  BY <1>1, <1>3, <1>4, <1>5, <1>6 DEF Next, Step

(* malloc gives up exactly when the stored records leave too few chunks,   *)
(* while no process has died: free_total_ never drifts from the chunks     *)
(* that the records need.                                                  *)
THEOREM LackReal == Spec => []LackIsReal
BY Invariance, LackInv, PTL

(* The pool implements ChunkPool: what merge assembles for a node is the   *)
(* record that was stored there, until a delete or an update of that node  *)
(* ends it, and a record is stored only when its chunks fit; whoever dies, *)
(* but not after a death in the middle of an update.                       *)
THEOREM PoolStores == Spec => StoresRecords
<1>1. Init => Pool!Init
  BY DEF Init, Pool!Init, Stored, Whole
<1>2. /\ TypeOK /\ CallInv /\ (~stale => Sound)
      /\ (~stale => Merged) /\ (~stale => Merged)' /\ [Next]_vars
      => [~stale' => [Pool!Next]_Stored]_vars
  BY StaleKept, PoolStep DEF Sound
<1>3. TypeOK /\ CallInv /\ (~stale => Sound) => (~stale => Merged)
  BY MergedInv
<1> QED
  BY <1>1, <1>2, <1>3, Invariance, PTL DEF Spec, StoresRecords

=============================================================================
