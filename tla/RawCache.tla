------------------------------ MODULE RawCache -------------------------------
(***************************************************************************)
(* CRawCache (net/cache.h, cache.cpp): the bytes that came in or are to go *)
(* out on a connection, in one block of a CMemPool that several caches of  *)
(* a thread share.  append moves the bytes to a larger block, or to the    *)
(* head of the block, when they do not fit behind the ones that are there. *)
(***************************************************************************)
EXTENDS MemPool

CONSTANTS
  Cache,      \* the caches of one pool
  Data,       \* what is appended: sequences of bytes
  MaxLen      \* bound: bytes in a cache

ASSUME RawCacheAssumption ==
  /\ \A d \in Data : d \in Seq(ToSet(d))
  /\ MaxLen \in Nat

VARIABLES
  mem,        \* _mem[c], the address of c's block; NULL if it has none
  block_size, \* _block_size[c]
  head,       \* _data_head[c]
  len,        \* _data_len[c]
  buf,        \* buf[c]: c's block, from offset 0; bytes of no use are Blank
  call        \* the append that waits for the pool

cacheVars == <<mem, block_size, head, len, buf>>
vars == <<poolVars, cacheVars, call>>

NULL  == 0
Blank == <<>>   \* a byte not yet written, or skipped
NoCall == [who |-> <<>>, data |-> <<>>]

Init ==
  /\ PoolInit
  /\ mem = [c \in Cache |-> NULL]
  /\ block_size = [c \in Cache |-> 0]
  /\ head = [c \in Cache |-> 0]
  /\ len = [c \in Cache |-> 0]
  /\ buf = [c \in Cache |-> <<>>]
  /\ call = NoCall

-----------------------------------------------------------------------------
(* What data() and data_len() give.                                        *)
Content(c) == [i \in 1 .. len[c] |-> buf[c][head[c] + i - 1]]

(* memcpy of the bytes s to offset off of memory m.                        *)
Write(m, off, s) ==
  [i \in DOMAIN m \cup off .. off + Len(s) - 1 |->
     IF i \in off .. off + Len(s) - 1 THEN s[i - off + 1] ELSE m[i]]

Memory(size) == [i \in 0 .. size - 1 |-> Blank]

FitsBehind_OneMore(c, n) == n + head[c] + len[c] <= block_size[c] + 1   \* mutant
FitsBehind(c, n) == n + head[c] + len[c] <= block_size[c]
FitsBlock(c, n) == n + len[c] <= block_size[c]

(* append, when the block has room behind the bytes.                       *)
AppendBehind(c, d) ==
  /\ op.pc = "idle" /\ mem[c] # NULL /\ FitsBehind(c, Len(d))
  /\ buf' = [buf EXCEPT ![c] = Write(@, head[c] + len[c], d)]
  /\ len' = [len EXCEPT ![c] = @ + Len(d)]
  /\ UNCHANGED <<poolVars, mem, block_size, head, call>>

(* append, when the block has room if the bytes move to its head.          *)
AppendMove_Not(c, d) ==   \* mutant: no memmove
  /\ op.pc = "idle" /\ mem[c] # NULL
  /\ ~FitsBehind(c, Len(d)) /\ FitsBlock(c, Len(d))
  /\ buf' = [buf EXCEPT ![c] = Write(@, len[c], d)]
  /\ head' = [head EXCEPT ![c] = 0]
  /\ len' = [len EXCEPT ![c] = @ + Len(d)]
  /\ UNCHANGED <<poolVars, mem, block_size, call>>
AppendMove(c, d) ==
  /\ op.pc = "idle" /\ mem[c] # NULL
  /\ ~FitsBehind(c, Len(d)) /\ FitsBlock(c, Len(d))
  /\ buf' = [buf EXCEPT ![c] =
               Write(Write(Memory(block_size[c]), 0, Content(c)), len[c], d)]
  /\ head' = [head EXCEPT ![c] = 0]
  /\ len' = [len EXCEPT ![c] = @ + Len(d)]
  /\ UNCHANGED <<poolVars, mem, block_size, call>>

(* append, when it needs a first or a larger block: allocate, ...          *)
AppendAlloc(c, d) ==
  /\ mem[c] = NULL \/ ~FitsBlock(c, Len(d))
  /\ AllocCall(Len(d) + len[c])
  /\ call' = [who |-> c, data |-> d]
  /\ UNCHANGED cacheVars

(* ... then copy the bytes and recycle the old block, ...                  *)
AppendTake ==
  LET c == call.who
  IN  /\ op.pc = "got"
      /\ mem' = [mem EXCEPT ![c] = op.mem]
      /\ block_size' = [block_size EXCEPT ![c] = op.size]
      /\ head' = [head EXCEPT ![c] = 0]
      /\ len' = [len EXCEPT ![c] = @ + Len(call.data)]
      /\ buf' = [buf EXCEPT ![c] =
                   Write(Write(Memory(op.size), 0, Content(c)), len[c], call.data)]
      /\ IF mem[c] = NULL THEN UNCHANGED <<free, total, live>>
                          ELSE recycle(mem[c], block_size[c])
      /\ op' = NoOp /\ call' = NoCall
      /\ UNCHANGED stub

(* ... or throw.                                                           *)
AppendThrow ==
  /\ op.pc = "null"
  /\ op' = NoOp /\ call' = NoCall
  /\ UNCHANGED <<free, stub, total, live, cacheVars>>

(* skip of all bytes, and the destructor: the block goes back to the pool. *)
SkipAll(c) ==
  /\ op.pc = "idle" /\ mem[c] # NULL
  /\ recycle(mem[c], block_size[c])
  /\ mem' = [mem EXCEPT ![c] = NULL]
  /\ block_size' = [block_size EXCEPT ![c] = 0]
  /\ head' = [head EXCEPT ![c] = 0]
  /\ len' = [len EXCEPT ![c] = 0]
  /\ buf' = [buf EXCEPT ![c] = <<>>]
  /\ UNCHANGED <<stub, op, call>>

SkipSome(c, n) ==
  /\ op.pc = "idle" /\ mem[c] # NULL /\ n < len[c]
  /\ head' = [head EXCEPT ![c] = @ + n]
  /\ len' = [len EXCEPT ![c] = @ - n]
  /\ buf' = [buf EXCEPT ![c] = Write(@, head[c], [i \in 1 .. n |-> Blank])]
  /\ UNCHANGED <<poolVars, mem, block_size, call>>

Next ==
  \/ \E c \in Cache :
       \/ \E d \in Data : /\ len[c] + Len(d) <= MaxLen
                          /\ AppendBehind(c, d) \/ AppendMove(c, d) \/ AppendAlloc(c, d)
       \/ SkipAll(c)
       \/ \E n \in 0 .. MaxLen : SkipSome(c, n)
  \/ PoolStep /\ UNCHANGED <<cacheVars, call>>
  \/ AppendTake \/ AppendThrow

Spec == Init /\ [][Next]_vars

-----------------------------------------------------------------------------
(* Every access of a cache is inside its block: no append writes behind it.*)
InBlock ==
  \A c \in Cache :
    /\ DOMAIN buf[c] = 0 .. block_size[c] - 1 \/ mem[c] = NULL
    /\ head[c] + len[c] <= block_size[c]
    /\ mem[c] = NULL <=> block_size[c] = 0
    /\ len[c] > 0 => head[c] < block_size[c]

(* The blocks in the hands of caches, and the one allocate hands over.     *)
Held == [c \in {c \in Cache : mem[c] # NULL} |-> mem[c]]
InHand == IF op.pc = "got" THEN {op.mem} ELSE {}

(* A block there is belongs to one cache or is once on the free list of    *)
(* its size; no block that was deleted is used or on a list, and the pool  *)
(* takes every block back, with the size the cache knows.                  *)
BlocksOwned ==
  /\ \A c \in DOMAIN Held : /\ Held[c] \in DOMAIN live
                            /\ live[Held[c]] = block_size[c]
                            /\ Held[c] \in stub[block_size[c]]
  /\ \A s \in Size : /\ IsInjective(free[s])
                     /\ \A a \in ToSet(free[s]) : a \in DOMAIN live /\ live[a] = s
                     /\ ToSet(free[s]) \subseteq stub[s] \ (InHand \cup Range(Held))
  /\ IsInjective(Held) /\ InHand \cap Range(Held) = {}
  /\ DOMAIN live = InHand \cup Range(Held) \cup UNION {ToSet(free[s]) : s \in Size}

(* _allocated_size is the memory there is, so release's assertion holds    *)
(* and the limit of the pool is one: it is passed at no call.              *)
Limited == total <= C_MAX_POOL_SIZE
Space == UNION {{a} \X (1 .. live[a]) : a \in DOMAIN live}   \* the bytes of all blocks
Accounted == total = Cardinality(Space) /\ Limited

(* Each cache is a queue of bytes: what is appended comes out in its order,*)
(* and an append that throws has changed nothing.                          *)
Queues == INSTANCE ByteQueues WITH content <- [c \in Cache |-> Content(c)]
InOrder == Queues!Spec

=============================================================================
