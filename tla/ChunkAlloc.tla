----------------------------- MODULE ChunkAlloc -----------------------------
(***************************************************************************)
(* CChunkAllocator (system/ChunkAlloc.hpp, ChunkAlloc.cpp): a pool of      *)
(* equal chunks in shared memory, linked by next_ handles into one free    *)
(* list and one chain per stored record, and the calls of its one user,    *)
(* CHashMap (system/HashMapImp.hpp), which keeps the handle and the length *)
(* of a record in a node of the same shared memory.  A process runs a call *)
(* while it holds the table's semaphore, so calls do not interleave; but a *)
(* process can die in the middle of one (SEM_UNDO then opens the           *)
(* semaphore), so every store to shared memory that a later call can see   *)
(* is a step of its own.  A handle is a chunk's index.                     *)
(***************************************************************************)
EXTENDS Integers, FiniteSets, LinkedLists

CONSTANTS
  ChunkTotal,   \* chunk_total_: how many chunks the pool has
  ChunkSize,    \* chunk_size_: bytes of data in a chunk
  Lens,         \* the lengths of the records that are stored
  Records,      \* the records that are stored
  Nodes,        \* the table's nodes, one for each stored record
  MaxCrashes    \* bound: how often a process dies in the middle of a call

(* No record: what a chunk holds before it is first written, and what a    *)
(* node has while its record is being replaced.                            *)
Blank == <<>>

ASSUME PoolAssumption ==
  /\ ChunkTotal \in Nat
  /\ ChunkSize \in Nat \ {0}
  /\ Lens \subseteq Nat \ {0}
  /\ Blank \notin Records
  /\ INVALID \notin Nodes
  /\ MaxCrashes \in Nat

Chunk  == 0 .. ChunkTotal - 1
Handle == Chunk \cup {INVALID}

VARIABLES
  free_list_,   \* head of the free list
  free_total_,  \* the pool's count of free chunks
  next_,        \* next_[c]: the chunk linked after c
  data_,        \* data_[c][i]: byte i of chunk c
  held,         \* held[n]: chunk_head_ and chunk_len_ of node n in use, and
                \*   the record n stands for
  op,           \* the call in progress, with its local variables
  verified,     \* no process died since open() last accepted the pool
  stale,        \* a process died in an update, so that its node may name
                \*   chunks that are free
  crashes       \* how many processes died in the middle of a call

vars == <<free_list_, free_total_, next_, data_, held, op, verified, stale, crashes>>

-----------------------------------------------------------------------------
(* Byte i of record r.                                                     *)
Byte(r, i) == <<r, i>>

get_chunk_num_RoundsDown(len) == len \div ChunkSize   \* mutant
get_chunk_num(len) ==
  IF len % ChunkSize = 0 THEN len \div ChunkSize ELSE len \div ChunkSize + 1

(* The chunks that a walk along next_ from h visits.                       *)
List(h) == Reach(Chunk, next_, h)
Ends(h) == Acyclic(Chunk, next_, h)

FreeChunks == List(free_list_)

(* The record merge() assembles from the chain at h: byte p lies in the    *)
(* chunk p \div ChunkSize links further on.                                *)
merge(h, len) ==
  LET node[k \in 0 .. len] ==
        IF k = 0 THEN h
        ELSE IF node[k - 1] = INVALID THEN INVALID ELSE next_[node[k - 1]]
  IN  [p \in 0 .. len - 1 |->
         LET c == node[p \div ChunkSize]
         IN  IF c = INVALID THEN Blank ELSE data_[c][p % ChunkSize]]

(* The call in progress: which one, at which node, and malloc's, split's   *)
(* and free's locals.                                                      *)
Idle == [pc |-> "idle", call |-> "none", owner |-> INVALID, num |-> 0, i |-> 0,
         head |-> INVALID, node |-> INVALID, after |-> INVALID, len |-> 0,
         rec |-> Blank, remain |-> 0]

Call(name, n, len, r) ==
  [Idle EXCEPT !.call = name, !.owner = n, !.num = get_chunk_num(len),
               !.len = len, !.rec = r]

-----------------------------------------------------------------------------
(* init_pool_data: chunk 0 is inserted first, so it ends the free list.    *)
Init ==
  /\ free_list_ = ChunkTotal - 1
  /\ free_total_ = ChunkTotal
  /\ next_ = [c \in Chunk |-> c - 1]
  /\ data_ = [c \in Chunk |-> [i \in 0 .. ChunkSize - 1 |-> Blank]]
  /\ held = [n \in {} |-> Blank]
  /\ op = Idle
  /\ verified = TRUE
  /\ stale = FALSE
  /\ crashes = 0

(* insert_node: with too few free chunks malloc returns INVALID and        *)
(* changes nothing, otherwise it pops num chunks, each linked before the   *)
(* one popped before.  (The store of INVALID to the popped chunk is        *)
(* followed at once by the store of the link, to a chunk no list has: the  *)
(* two are one step.)                                                      *)
InsertCall(n, len, r) ==
  /\ op.pc = "idle"
  /\ free_total_ >= get_chunk_num(len)
  /\ op' = [Call("insert", n, len, r) EXCEPT !.pc = "pop"]
  /\ UNCHANGED <<free_list_, free_total_, next_, data_, held, verified, stale, crashes>>

InsertLack(len) ==
  /\ op.pc = "idle"
  /\ free_total_ < get_chunk_num(len)
  /\ UNCHANGED vars

MallocPop_KeepsHead ==   \* mutant: the free list keeps the chunk
  /\ op.pc = "pop" /\ op.i < op.num
  /\ free_list_ # INVALID
  /\ op' = [op EXCEPT !.pc = "link", !.node = free_list_]
  /\ UNCHANGED <<free_list_, free_total_, next_, data_, held, verified, stale, crashes>>
MallocPop ==
  /\ op.pc = "pop" /\ op.i < op.num
  /\ free_list_ # INVALID
  /\ free_list_' = next_[free_list_]
  /\ op' = [op EXCEPT !.pc = "link", !.node = free_list_]
  /\ UNCHANGED <<free_total_, next_, data_, held, verified, stale, crashes>>

LinkTo(h) ==
  /\ op.pc = "link"
  /\ next_' = [next_ EXCEPT ![op.node] = h]
  /\ op' = [op EXCEPT !.pc = "pop", !.i = @ + 1, !.head = op.node]
  /\ UNCHANGED <<free_list_, free_total_, data_, held, verified, stale, crashes>>
MallocLink_Late   == LinkTo(op.node)   \* mutant: head moves on before the link
MallocLink_Breaks == LinkTo(INVALID)   \* mutant: no link
MallocLink == LinkTo(op.head)

MallocReturn ==
  /\ op.pc = "pop" /\ op.i = op.num
  /\ free_total_' = free_total_ - op.num
  /\ op' = [op EXCEPT !.pc = "split", !.node = op.head, !.remain = op.len]
  /\ UNCHANGED <<free_list_, next_, data_, held, verified, stale, crashes>>

(* split: one memcpy per chunk, until a chunk takes less than ChunkSize or *)
(* the chain ends.                                                         *)
Copy(after, left) ==
  /\ op.pc = "split" /\ op.node # INVALID
  /\ data_' = [data_ EXCEPT ![op.node] =
                  [i \in 0 .. ChunkSize - 1 |->
                     IF i < op.remain THEN Byte(op.rec, op.len - op.remain + i) ELSE @[i]]]
  /\ op' = [op EXCEPT !.node = after, !.remain = left]
  /\ UNCHANGED <<free_list_, free_total_, next_, held, verified, stale, crashes>>
SplitCopy_NoBreak == Copy(next_[op.node], op.remain - ChunkSize)   \* mutant
SplitCopy_Stays ==   \* mutant: does not go to the next chunk
  IF op.remain < ChunkSize THEN Copy(INVALID, 0) ELSE Copy(op.node, op.remain)
SplitCopy ==
  IF op.remain < ChunkSize THEN Copy(INVALID, 0)
  ELSE Copy(next_[op.node], op.remain - ChunkSize)

(* The node of an insert is used when split has returned.                  *)
InsertStored ==
  /\ op.pc = "split" /\ op.node = INVALID /\ op.call = "insert"
  /\ held' = [n \in DOMAIN held \cup {op.owner} |->
                IF n = op.owner THEN [head |-> op.head, len |-> op.len, rec |-> op.rec]
                ELSE held[n]]
  /\ op' = Idle
  /\ UNCHANGED <<free_list_, free_total_, next_, data_, verified, stale, crashes>>

(* update_node with as many chunks as before: the bytes are written over   *)
(* the old ones, and the length is stored last.                            *)
OverwriteCall(n, len, r) ==
  /\ op.pc = "idle"
  /\ get_chunk_num(len) = get_chunk_num(held[n].len)
  /\ op' = [Call("overwrite", n, len, r) EXCEPT !.pc = "split",
               !.head = held[n].head, !.node = held[n].head, !.remain = len]
  /\ held' = [held EXCEPT ![n].rec = Blank]
  /\ UNCHANGED <<free_list_, free_total_, next_, data_, verified, stale, crashes>>

OverwriteStored ==
  /\ op.pc = "split" /\ op.node = INVALID /\ op.call = "overwrite"
  /\ held' = [held EXCEPT ![op.owner].len = op.len, ![op.owner].rec = op.rec]
  /\ op' = Idle
  /\ UNCHANGED <<free_list_, free_total_, next_, data_, verified, stale, crashes>>

(* update_node with another number of chunks: it frees the old chain,      *)
(* mallocs the new one, splits the record into it, and only then stores    *)
(* the length and, last, the handle.  Until then the node names the old    *)
(* chain.  Only the difference of the chunks is asked for beforehand.      *)
More(n, len) == get_chunk_num(len) - get_chunk_num(held[n].len)

UpdateTurn(n, len, r) ==
  /\ op.pc = "idle"
  /\ More(n, len) # 0
  /\ op' = [Call("update", n, len, r) EXCEPT !.pc = "free", !.node = held[n].head]
  /\ held' = [held EXCEPT ![n].rec = Blank]
  /\ UNCHANGED <<free_list_, free_total_, next_, data_, verified, stale, crashes>>
UpdateCall_OneLess(n, len, r) ==   \* mutant
  free_total_ + 1 >= More(n, len) /\ UpdateTurn(n, len, r)
UpdateCall(n, len, r) ==
  /\ More(n, len) > 0 => free_total_ >= More(n, len)
  /\ UpdateTurn(n, len, r)

UpdateLack(n, len) ==
  /\ op.pc = "idle"
  /\ More(n, len) > 0 /\ free_total_ < More(n, len)
  /\ UNCHANGED vars

(* Its malloc.  With too few chunks the handle is INVALID, for which split *)
(* does nothing; the update goes on.                                       *)
UpdateMalloc ==
  /\ op.pc = "malloc"
  /\ op' = [op EXCEPT !.pc = IF free_total_ < op.num THEN "split" ELSE "pop"]
  /\ UNCHANGED <<free_list_, free_total_, next_, data_, held, verified, stale, crashes>>

UpdateLength ==
  /\ op.pc = "split" /\ op.node = INVALID /\ op.call = "update"
  /\ held' = [held EXCEPT ![op.owner].len = op.len]
  /\ op' = [op EXCEPT !.pc = "handle"]
  /\ UNCHANGED <<free_list_, free_total_, next_, data_, verified, stale, crashes>>

UpdateHandle ==
  /\ op.pc = "handle"
  /\ held' = [held EXCEPT ![op.owner].head = op.head, ![op.owner].rec = op.rec]
  /\ op' = Idle
  /\ UNCHANGED <<free_list_, free_total_, next_, data_, verified, stale, crashes>>

(* delete_node: the node has left its bucket when its chain is freed.      *)
DeleteCall(n) ==
  /\ op.pc = "idle"
  /\ op' = [Idle EXCEPT !.pc = "free", !.call = "delete", !.node = held[n].head]
  /\ held' = [m \in DOMAIN held \ {n} |-> held[m]]
  /\ UNCHANGED <<free_list_, free_total_, next_, data_, verified, stale, crashes>>

(* free: walk the chain and insert each chunk at the head of the free list.*)
FreeLink ==
  /\ op.pc = "free" /\ op.node # INVALID
  /\ next_' = [next_ EXCEPT ![op.node] = free_list_]
  /\ op' = [op EXCEPT !.pc = "insert", !.after = next_[op.node]]
  /\ UNCHANGED <<free_list_, free_total_, data_, held, verified, stale, crashes>>

FreeInsert ==
  /\ op.pc = "insert"
  /\ free_list_' = op.node
  /\ op' = [op EXCEPT !.pc = "count"]
  /\ UNCHANGED <<free_total_, next_, data_, held, verified, stale, crashes>>

FreeCount_Skips ==   \* mutant: the chunk is not counted
  /\ op.pc = "count"
  /\ op' = [op EXCEPT !.pc = "free", !.node = op.after, !.after = INVALID]
  /\ UNCHANGED <<free_list_, free_total_, next_, data_, held, verified, stale, crashes>>
FreeCount ==
  /\ op.pc = "count"
  /\ free_total_' = free_total_ + 1
  /\ op' = [op EXCEPT !.pc = "free", !.node = op.after, !.after = INVALID]
  /\ UNCHANGED <<free_list_, next_, data_, held, verified, stale, crashes>>

FreeReturn ==
  /\ op.pc = "free" /\ op.node = INVALID
  /\ op' = IF op.call = "update" THEN [op EXCEPT !.pc = "malloc"] ELSE Idle
  /\ UNCHANGED <<free_list_, free_total_, next_, data_, held, verified, stale, crashes>>

(* The process in the call dies; what is in shared memory stays, the old   *)
(* handle in the node of an update with it.                                *)
Dies ==
  /\ op' = Idle
  /\ verified' = FALSE
  /\ stale' = (stale \/ op.call = "update")
  /\ UNCHANGED <<free_list_, free_total_, next_, data_, held>>

Crash ==
  /\ op.pc # "idle"
  /\ crashes < MaxCrashes
  /\ crashes' = crashes + 1
  /\ Dies

(* malloc also dies when free_list_remove returns NULL: it stores through  *)
(* that pointer.                                                           *)
MallocNull ==
  /\ op.pc = "pop" /\ op.i < op.num
  /\ free_list_ = INVALID
  /\ Dies
  /\ UNCHANGED crashes

(* open() without init: attach if verify_pool_data accepts the pool, whose *)
(* walk along the free list has to end first.                              *)
verify_pool_data_Trusts == TRUE   \* mutant
verify_pool_data == Ends(free_list_) /\ Cardinality(FreeChunks) = free_total_
Open ==
  /\ op.pc = "idle"
  /\ verify_pool_data
  /\ verified' = TRUE
  /\ UNCHANGED <<free_list_, free_total_, next_, data_, held, op, stale, crashes>>

Step ==
  \/ MallocPop \/ MallocLink \/ MallocReturn \/ MallocNull
  \/ SplitCopy \/ InsertStored \/ OverwriteStored
  \/ FreeLink \/ FreeInsert \/ FreeCount \/ FreeReturn
  \/ UpdateMalloc \/ UpdateLength \/ UpdateHandle

Next ==
  \/ \E len \in Lens, r \in Records :
        \/ \E n \in Nodes \ DOMAIN held : InsertCall(n, len, r)
        \/ \E n \in DOMAIN held : OverwriteCall(n, len, r) \/ UpdateCall(n, len, r)
  \/ \E len \in Lens : InsertLack(len) \/ \E n \in DOMAIN held : UpdateLack(n, len)
  \/ \E n \in DOMAIN held : DeleteCall(n)
  \/ Step \/ Crash \/ Open

Spec == Init /\ [][Next]_vars

(* A process in a call goes on running: nothing in a call waits.           *)
FairSpec == Spec /\ WF_vars(Step)

-----------------------------------------------------------------------------
(* Properties.                                                             *)

PC == {"idle", "pop", "link", "split", "free", "insert", "count", "malloc", "handle"}

OpType == [pc : PC, call : {"none", "insert", "overwrite", "update", "delete"},
           owner : Nodes \cup {INVALID}, num : Nat, i : Nat, head : Handle,
           node : Handle, after : Handle, len : Nat, rec : Records \cup {Blank},
           remain : Nat]

TypeOK ==
  /\ free_list_ \in Handle
  /\ free_total_ \in Int
  /\ next_ \in [Chunk -> Handle]
  /\ data_ \in [Chunk -> [0 .. ChunkSize - 1 -> (Records \X Nat) \cup {Blank}]]
  /\ DOMAIN held \subseteq Nodes
  /\ \A n \in DOMAIN held :
        held[n] \in [head : Handle, len : Lens, rec : Records \cup {Blank}]
  /\ op \in OpType
  /\ verified \in BOOLEAN
  /\ stale \in BOOLEAN
  /\ crashes \in 0 .. MaxCrashes

(* The nodes whose chain is not in the hands of the call in progress.      *)
Live == DOMAIN held \ (IF op.call \in {"update", "overwrite"} THEN {op.owner} ELSE {})

(* The chunks of their chains.                                             *)
Taken == UNION {List(held[n].head) : n \in Live}

(* The chunks the call in progress has taken off a list and not yet put on *)
(* another: the chain malloc builds, split fills or free takes apart, and  *)
(* the one chunk between two lists.                                        *)
OpHead ==
  CASE op.pc \in {"pop", "link", "split", "handle"} -> op.head
    [] op.pc = "free"                               -> op.node
    [] op.pc \in {"insert", "count"}                -> op.after
    [] OTHER                                        -> INVALID
OpChunk  == IF op.pc \in {"link", "insert"} THEN {op.node} ELSE {}
OpChunks == List(OpHead) \cup OpChunk

(* No chunk is on two lists: the free list, the chains that nodes name and *)
(* the chunks in the hands of the current call are pairwise disjoint, at   *)
(* every store of every call, also after deaths, unless one was in the     *)
(* middle of an update: its node still names chunks that free has put on   *)
(* the free list, the pool passes verify_pool_data, and the next malloc    *)
(* gives them to a second record.                                          *)
Disjoint ==
  /\ \A n \in Live : List(held[n].head) \cap (FreeChunks \cup OpChunks) = {}
  /\ \A m, n \in Live : m # n => List(held[m].head) \cap List(held[n].head) = {}
  /\ FreeChunks \cap OpChunks = {}
NoAlias == ~stale => Disjoint

(* Every list ends: the free list, which verify_pool_data and malloc walk, *)
(* and every chain that free, merge and split walk, has no cycle, on the   *)
(* same condition: a chain that is freed a second time may become one.     *)
AllEnd ==
  /\ Ends(free_list_)
  /\ \A n \in Live : Ends(held[n].head)
  /\ Ends(OpHead)
NoCycle == ~stale => AllEnd

(* While no process has died, every chunk is on the free list, in a stored *)
(* chain or in the current call: no mix of calls loses one.                *)
NoLeak ==
  crashes = 0 => Chunk = FreeChunks \cup OpChunks \cup Taken

(* If no process died since open() last accepted the pool, and none in the *)
(* middle of an update, malloc never runs off the end of the free list, so *)
(* that the one test of free_total_ at its head is enough: the check in    *)
(* verify_pool_data is what a restarted system needs, although it does not *)
(* see every chunk that was lost.                                          *)
VerifiedNeverNull ==
  ~stale /\ verified /\ op.pc = "pop" /\ op.i < op.num => free_list_ # INVALID

(* An update that has freed its chunks finds as many as it needs, as the   *)
(* comment at HashMapImp.hpp:250 says, also when the deaths of others have *)
(* cost the pool chunks or left free_total_ wrong, unless one of them was  *)
(* in an update.                                                           *)
UpdateFits == ~stale /\ op.pc = "malloc" => free_total_ >= op.num

(* The pool behaves as its abstract description, in which a record is what *)
(* merge assembles for its node: it is stored only when it fits, it is     *)
(* the record that was given, and only a delete or an update of the same   *)
(* node ends or changes it, whatever is done to others and whoever dies,   *)
(* again but for deaths in the middle of an update.                        *)
Content(r, len) == [p \in 0 .. len - 1 |-> Byte(r, p)]
Whole == {n \in DOMAIN held : held[n].rec # Blank}
Stored == [n \in Whole |-> [len |-> held[n].len, rec |-> merge(held[n].head, held[n].len)]]
Pool == INSTANCE ChunkPool
  WITH Handles <- Nodes,
       Records <- {Content(r, len) : r \in Records, len \in Lens},
       stored  <- Stored
StoresRecords == Pool!Init /\ [][~stale' => [Pool!Next]_Stored]_vars

(* malloc gives up exactly when the records that are stored leave too few  *)
(* chunks, as long as no process has died: free_total_ does not drift.     *)
LackIsReal ==
  crashes = 0 /\ op.pc = "idle" => free_total_ = ChunkTotal - Pool!Used(held)

(* Every call returns (or its process dies): no loop of malloc, split or   *)
(* free runs forever, also on a pool in which processes died, but not in   *)
(* an update.                                                              *)
CallsReturn == op.pc # "idle" /\ ~stale ~> op.pc = "idle"

-----------------------------------------------------------------------------
(* The inductive invariant the safety properties follow from.              *)

(* Which call is at which place, and what it has asked for.                *)
CallInv ==
  /\ op.pc = "idle" => op.call = "none"
  /\ op.pc \in {"pop", "link"} => op.call \in {"insert", "update"}
  /\ op.pc = "split" => op.call \in {"insert", "overwrite", "update"} /\ op.remain <= op.len
  /\ op.pc \in {"free", "insert", "count"} => op.call \in {"update", "delete"}
  /\ op.pc \in {"malloc", "handle"} => op.call = "update"
  /\ op.pc \in {"free", "insert", "count", "malloc"} =>
        op.i = 0 /\ op.head = INVALID /\ op.remain = 0
  /\ op.pc = "malloc" => op.node = INVALID
  /\ op.call \in {"insert", "overwrite", "update"} =>
        op.len \in Lens /\ op.rec \in Records /\ op.num = get_chunk_num(op.len)
  /\ op.call = "insert" => op.owner \in Nodes \ DOMAIN held
  /\ op.call \in {"overwrite", "update"} => op.owner \in DOMAIN held \ Whole
  /\ op.call = "overwrite" =>
        /\ op.pc = "split" /\ op.head = held[op.owner].head
        /\ op.num = get_chunk_num(held[op.owner].len)
  /\ stale => crashes # 0

(* The local variables of the call agree with the pool.                    *)
OpInv ==
  /\ op.pc \in {"link", "insert"} =>
        op.node \in Chunk /\ op.node \notin List(OpHead)
  /\ op.pc = "insert" => next_[op.node] = free_list_
  /\ op.pc \in {"pop", "link"} => op.num <= free_total_ /\ op.i <= op.num
  /\ op.pc = "pop" => op.num > 0 /\ (op.i > 0 => op.head # INVALID)
  /\ op.pc = "link" => op.i < op.num
  /\ op.pc \in {"split", "handle"} => op.head # INVALID

(* Chunks by which free_total_ runs ahead of the free list in this call.   *)
Ahead ==
  CASE op.pc = "pop"   -> op.i
    [] op.pc = "link"  -> op.i + 1
    [] op.pc = "count" -> -1
    [] OTHER           -> 0

(* On a verified pool free_total_ is the length of the free list, up to    *)
(* what the call in progress has moved and not yet counted.                *)
CountInv ==
  /\ verified => Cardinality(FreeChunks) = free_total_ - Ahead
  /\ crashes = 0 => verified

(* The chunks an update has freed, and has still to free, are with those   *)
(* that were free before as many as it will take.                          *)
FitInv ==
  /\ free_total_ >= 0
  /\ op.call = "update" /\ op.pc \in {"free", "insert", "count", "malloc"} =>
        op.num <= free_total_ + Cardinality(OpChunks) + (IF op.pc = "count" THEN 1 ELSE 0)

HeadInv == \A n \in Live : held[n].head # INVALID

ListInv == Disjoint /\ AllEnd /\ HeadInv /\ OpInv /\ CountInv /\ NoLeak

=============================================================================
