------------------------------- MODULE MemPool -------------------------------
(***************************************************************************)
(* CMemPool (net's memory, system/mempool.h and mempool.cpp): blocks of a  *)
(* few sizes, kept in a free list per size when nobody uses them.  A pool  *)
(* belongs to one thread.  allocate is taken apart into the steps of its   *)
(* loops; recycle is one step.  A block is named by its address.           *)
(***************************************************************************)
EXTENDS Integers, FiniteSets, SequencesExt

CONSTANTS
  MinBlock,           \* the smallest block
  TopBlock,           \* twice the largest block that is looked for to purge
  C_SLOT_1, C_SLOT_2, C_EXTEND_SET, C_MAX_POOL_SIZE, C_MAX_WATER_MARK,
  MaxAddr             \* bound: addresses of blocks

ASSUME MemPoolAssumption ==
  /\ {MinBlock, C_SLOT_1, C_SLOT_2, C_EXTEND_SET, C_MAX_POOL_SIZE} \subseteq Nat \ {0}
  /\ {C_MAX_WATER_MARK, TopBlock, MaxAddr} \subseteq Nat
  /\ TopBlock >= MinBlock /\ \E k \in 0 .. TopBlock : TopBlock = MinBlock * 2^k

C_ALLOC_CAPCITY == 2 * C_SLOT_2
Addr == 1 .. MaxAddr
Size == {s \in MinBlock .. TopBlock : \E k \in 0 .. s : s = MinBlock * 2^k}

VARIABLES
  free,        \* _free[s]: the unused blocks of size s
  stub,        \* _stub[s]: the addresses blocks of size s were made at
  total,       \* _allocated_size
  live,        \* live[a]: the size of the block there is at a
  op           \* the allocate in progress, with its local variables

poolVars == <<free, stub, total, live, op>>

(* pc: "purge", "extend", "pop" in allocate; "got": mem is allocated;      *)
(* "null": allocate gave up.                                               *)
NoOp == [pc |-> "idle", size |-> 0, purge |-> 0, mem |-> 0]

PoolInit ==
  /\ free = [s \in Size |-> <<>>]
  /\ stub = [s \in Size |-> {}]
  /\ total = 0
  /\ live = [a \in {} |-> 0]
  /\ op = NoOp

-----------------------------------------------------------------------------
Least(S) == CHOOSE x \in S : \A y \in S : x <= y

fit_block_size(size) == Least({s \in Size : s > size})

fit_extend_set(size) ==
  IF size < C_SLOT_1 THEN C_EXTEND_SET
  ELSE IF size < C_SLOT_2 THEN C_ALLOC_CAPCITY \div size
  ELSE 1

(* How many of n free blocks of one size are given back to the system.     *)
release_size(size, n, stubs, mark) ==
  IF n * size < C_SLOT_1 THEN 0
  ELSE IF size > C_SLOT_2 THEN IF n > 1 THEN n \div 2 ELSE n
  ELSE IF n >= stubs \div 2 \/ n * size >= mark THEN n \div 2
  ELSE 0

(* release of size, whose free list is list: the first count are deleted.  *)
(* Their addresses stay in the stub.                                       *)
Delete_Behind(size, list, count) ==   \* mutant: deletes the ones it keeps
  /\ free' = [free EXCEPT ![size] = SubSeq(list, 1, Len(list) - count)]
  /\ live' = [a \in DOMAIN live \ ToSet(SubSeq(list, 1, count)) |-> live[a]]
  /\ total' = total - size * count
Delete(size, list, count) ==
  /\ free' = [free EXCEPT ![size] = SubSeq(list, count + 1, Len(list))]
  /\ live' = [a \in DOMAIN live \ ToSet(SubSeq(list, 1, count)) |-> live[a]]
  /\ total' = total - size * count

release(size, list, mark) ==
  Delete(size, list, release_size(size, Len(list), Cardinality(stub[size]), mark))

-----------------------------------------------------------------------------
(* allocate: from the free list of the block size, or else extend.         *)
AllocCall(size) ==
  LET bs   == fit_block_size(size)
      set  == fit_extend_set(bs)
      over == total + bs * set >= C_MAX_POOL_SIZE
      pc   == IF free[bs] # <<>> THEN "pop" ELSE IF over THEN "purge" ELSE "extend"
  IN  /\ op.pc = "idle"
      /\ size < TopBlock
      /\ op' = [NoOp EXCEPT !.pc = pc, !.size = bs, !.purge = TopBlock]
      /\ UNCHANGED <<free, stub, total, live>>

(* release_size(mem_size): free blocks of all sizes, the largest first,    *)
(* until the new ones fit below C_MAX_POOL_SIZE.                           *)
Room_Any == TRUE   \* mutant: extends whatever release_size returned
Room == total + op.size * fit_extend_set(op.size) <= C_MAX_POOL_SIZE

Purge ==
  /\ op.pc = "purge" /\ ~Room
  /\ op.purge >= C_SLOT_1
  /\ LET s == op.purge \div 2
     IN  IF s \in Size THEN release(s, free[s], C_ALLOC_CAPCITY)
                       ELSE UNCHANGED <<free, live, total>>
  /\ op' = [op EXCEPT !.purge = @ \div 2]
  /\ UNCHANGED stub

PurgeEnd ==
  /\ op.pc = "purge"
  /\ \/ Room /\ op' = [op EXCEPT !.pc = "extend"]
     \/ ~Room /\ op.purge < C_SLOT_1 /\ op' = [NoOp EXCEPT !.pc = "null"]
  /\ UNCHANGED <<free, stub, total, live>>

(* extend: new blocks, whose addresses were used before or were not.       *)
Lowest(T, n) ==
  {new \in [1 .. n -> T] : /\ \A i, j \in 1 .. n : i < j => new[i] < new[j]
                          /\ \A a \in T : a < new[n] => a \in ToSet(new)}
NewAddrs(n) ==
  LET unused == Addr \ DOMAIN live
      fresh  == unused \ UNION {stub[s] : s \in Size}
  IN  Lowest(unused, n) \cup Lowest(fresh, n)

Extend ==
  LET n == fit_extend_set(op.size)
  IN  /\ op.pc = "extend"
      /\ \E new \in NewAddrs(n) :
           /\ live' = [a \in DOMAIN live \cup ToSet(new) |->
                         IF a \in ToSet(new) THEN op.size ELSE live[a]]
           /\ free' = [free EXCEPT ![op.size] = new \o @]
           /\ stub' = [stub EXCEPT ![op.size] = @ \cup ToSet(new)]
      /\ total' = total + op.size * n
      /\ op' = [op EXCEPT !.pc = "pop"]

Pop ==
  /\ op.pc = "pop"
  /\ free' = [free EXCEPT ![op.size] = Tail(@)]
  /\ op' = [op EXCEPT !.pc = "got", !.mem = Head(free[op.size])]
  /\ UNCHANGED <<stub, total, live>>

PoolStep == Purge \/ PurgeEnd \/ Extend \/ Pop

(* recycle of a block the pool knows: its other returns leave the pool.    *)
recycle(a, size) ==
  IF a \in stub[size] THEN release(size, <<a>> \o free[size], C_MAX_WATER_MARK)
                      ELSE UNCHANGED <<free, live, total>>

=============================================================================
