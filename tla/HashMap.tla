------------------------------- MODULE HashMap -------------------------------
(***************************************************************************)
(* CHashMap (system/HashMap.hpp, HashMapImp.hpp) as CShmHashMap and its    *)
(* vistor (ShmHashMap.hpp) use it.  The nodes lie in shared memory and are *)
(* linked by handles: a doubly linked list per bucket, the add list of all *)
(* used nodes in the order of their last use, and the free list.  A call   *)
(* holds the lock of AutoLock from its first to its last store, so a call  *)
(* is one step here; the chunks that hold the values are those of          *)
(* ChunkPool.  A node's handle is its index.                               *)
(***************************************************************************)
EXTENDS Integers, FiniteSets, SequencesExt, LinkedLists

CONSTANTS
  NodeTotal,     \* node_total_: how many nodes there are
  BucketSize,    \* bucket_size_: how many buckets
  Key,           \* the keys
  hash_func_,    \* hash_func_[k]: the hash of k
  ChunkHandle,   \* handles of chunks
  ChunkTotal, ChunkSize, Lens, Records,   \* as in ChunkPool
  InitGarbage    \* the uninitialised flag of CShmHashMap::Init may be set

ASSUME TableAssumption ==
  /\ NodeTotal \in Nat /\ BucketSize \in Nat \ {0}
  /\ hash_func_ \in [Key -> Nat]
  /\ ChunkTotal \in Nat /\ ChunkSize \in Nat \ {0}
  /\ Lens \subseteq Nat /\ INVALID \notin ChunkHandle
  /\ InitGarbage \in BOOLEAN

Node   == 0 .. NodeTotal - 1
Bucket == 0 .. BucketSize - 1

VARIABLES
  t,         \* the table: THashMap and the fields of its nodes
  stored,    \* the values (see ChunkPool)
  ok         \* the last Find, Insert, SetValue or Delete succeeded, and any
             \* Init since

vars == <<t, stored, ok>>

Pool == INSTANCE ChunkPool WITH Handles <- ChunkHandle

-----------------------------------------------------------------------------
(* Lists of nodes.                                                         *)
get_bucket_id(k) == hash_func_[k] % BucketSize

(* f with v stored at node n, if there is a node n.                        *)
Put(f, n, v) == IF n = INVALID THEN f ELSE [f EXCEPT ![n] = v]

(* The nodes a walk along next from h visits, in order; in a circle, the   *)
(* first NodeTotal + 1.                                                    *)
Walk(next, h) ==
  LET from[max \in 0 .. NodeTotal + 1] ==   \* from[max][n]: at most max from n
        [n \in Node \cup {INVALID} |->
           IF n = INVALID \/ max = 0 THEN <<>>
           ELSE <<n>> \o from[max - 1][next[n]]]
  IN  from[NodeTotal + 1][h]

free_list_insert(m, n) ==
  [m EXCEPT !.node_next_[n] = m.free_list_, !.free_list_ = n]

free_list_remove_Cuts(m) ==   \* mutant: the link is reset before it is read
  [m EXCEPT !.free_list_ = INVALID, !.node_next_[m.free_list_] = INVALID]
free_list_remove(m) ==
  [m EXCEPT !.free_list_ = m.node_next_[m.free_list_],
            !.node_next_[m.free_list_] = INVALID]

init_node(m, n) ==
  [m EXCEPT !.chunk_len_[n] = 0, !.chunk_head_[n] = INVALID,
            !.node_next_[n] = INVALID, !.node_prev_[n] = INVALID,
            !.add_next_[n] = INVALID, !.add_prev_[n] = INVALID]

get_bucket_list_len_None(m, b) == 0   \* mutant
get_bucket_list_len(m, b) == Len(Walk(m.node_next_, m.bucket[b]))

insert_node_list(m, n) ==
  LET b    == get_bucket_id(m.key_[n])
      next == m.bucket[b]
  IN  [m EXCEPT !.node_next_[n] = next,
                !.node_prev_ = Put(Put(@, n, INVALID), next, n),
                !.bucket[b] = n,
                !.used_node_num_ = @ + 1]

delete_from_node_list(m, n) ==
  LET next == m.node_next_[n]
      prev == m.node_prev_[n]
  IN  [m EXCEPT !.node_next_ = Put(Put(@, prev, next), n, INVALID),
                !.node_prev_ = Put(Put(@, next, prev), n, INVALID),
                !.bucket[get_bucket_id(m.key_[n])] = IF @ = n THEN next ELSE @,
                !.used_node_num_ = @ - 1]

(* Its early return for a node that is not in the list is no case of its   *)
(* own: without neighbours, head or tail the stores below change nothing.  *)
delete_from_add_list(m, n) ==
  LET next == m.add_next_[n]
      prev == m.add_prev_[n]
  IN  [m EXCEPT !.add_next_ = Put(Put(@, prev, next), n, INVALID),
                !.add_prev_ = Put(Put(@, next, prev), n, INVALID),
                !.add_head_ = IF @ = n THEN next ELSE @,
                !.add_tail_ = IF @ = n THEN prev ELSE @]

insert_add_list_head(m, n) ==
  LET d == delete_from_add_list(m, n)
  IN  [d EXCEPT !.add_next_[n] = d.add_head_,
                !.add_head_ = n,
                !.add_tail_ = IF @ = INVALID THEN n ELSE @,
                !.add_prev_ = Put(Put(@, n, INVALID), d.add_head_, n)]

insert_add_list_tail(m, n) ==
  LET d == delete_from_add_list(m, n)
  IN  [d EXCEPT !.add_prev_[n] = d.add_tail_,
                !.add_tail_ = n,
                !.add_head_ = IF @ = INVALID THEN n ELSE @,
                !.add_next_ = Put(Put(@, n, INVALID), d.add_tail_, n)]

CountBucket(m, k) ==
  [m EXCEPT !.used_bucket_num_ =
      IF get_bucket_list_len(m, get_bucket_id(k)) = 0 THEN @ + 1 ELSE @]
use_node(m, n, k, len, h) ==
  insert_node_list(CountBucket([m EXCEPT !.key_[n] = k, !.chunk_len_[n] = len,
                                         !.chunk_head_[n] = h], k), n)

(* free_node without its allocator_.free, which is the caller's Freed.     *)
free_node(m, n) ==
  LET d == delete_from_node_list(m, n)
  IN  init_node(
        [d EXCEPT !.used_bucket_num_ =
                    IF get_bucket_list_len(d, get_bucket_id(m.key_[n])) = 0
                    THEN @ - 1 ELSE @], n)

-----------------------------------------------------------------------------
(* init_pool_data: node 0 is inserted in the free list first.  Keys are not*)
(* reset.                                                                  *)
NoHandles == [n \in Node |-> INVALID]
init_pool_data(keys) ==
  [used_node_num_ |-> 0, used_bucket_num_ |-> 0,
   add_head_ |-> INVALID, add_tail_ |-> INVALID, free_list_ |-> NodeTotal - 1,
   bucket |-> [b \in Bucket |-> INVALID],
   key_ |-> keys, chunk_len_ |-> [n \in Node |-> 0], chunk_head_ |-> NoHandles,
   node_prev_ |-> NoHandles, node_next_ |-> [n \in Node |-> n - 1],
   add_prev_ |-> NoHandles, add_next_ |-> NoHandles]

NoKey == <<>>

Init ==
  /\ t = init_pool_data([n \in Node |-> NoKey])
  /\ Pool!Init
  /\ ok = TRUE

verify_pool_data ==
  /\ t.used_bucket_num_ = Cardinality({b \in Bucket : t.bucket[b] # INVALID})
  /\ t.used_node_num_ + Len(Walk(t.node_next_, t.free_list_)) = NodeTotal

UsedNodes == Node \ ToSet(Walk(t.node_next_, t.free_list_))

(* find_node without its move to the add list's head: the first node of k. *)
Lookup(k) ==
  LET chain == Walk(t.node_next_, t.bucket[get_bucket_id(k)])
      hits  == {i \in DOMAIN chain : t.key_[chain[i]] = k}
  IN  IF hits = {} THEN INVALID ELSE chain[Min(hits)]

Found_Stays(k) == t   \* mutant: a look-up is no use
Found(k) == insert_add_list_head(t, Lookup(k))

Fail == ok' = FALSE /\ UNCHANGED <<t, stored>>

-----------------------------------------------------------------------------
(* The calls of CShmHashMap.                                               *)
Find(k) ==
  \/ /\ Lookup(k) # INVALID
     /\ t' = Found(k)
     /\ ok' = TRUE /\ UNCHANGED stored
  \/ Lookup(k) = INVALID /\ Fail

(* insert_node: malloc returns INVALID for 0 chunks too, and then the node *)
(* goes back to where it was.                                              *)
CanInsert(len) == t.free_list_ # INVALID /\ len > 0 /\ Pool!Fits(stored, len)
insert_node(k, len, r) ==
  LET n == t.free_list_
  IN  \/ /\ CanInsert(len)
         /\ \E h \in ChunkHandle :
              /\ Pool!Store(h, len, r)
              /\ t' = insert_add_list_head(
                        use_node(free_list_remove(t), n, k, len, h), n)
         /\ ok' = TRUE
      \/ ~CanInsert(len) /\ Fail

(* update_node of node n in table m: free, then malloc, when the number of *)
(* chunks changes; that needs only the difference to be free.              *)
CanUpdate(m, n, len) ==
  LET more == Pool!Need(len) - Pool!Need(m.chunk_len_[n])
  IN  more > 0 => ChunkTotal - Pool!Used(stored) >= more
update_node(m, n, len, r) ==
  LET old  == Pool!Need(m.chunk_len_[n])
      new  == Pool!Need(len)
      head == m.chunk_head_[n]
      rest == IF head = INVALID THEN stored ELSE Pool!Without(stored, head)
      Set(h) == /\ t' = [m EXCEPT !.chunk_len_[n] = len, !.chunk_head_[n] = h]
                /\ stored' = IF h = INVALID THEN rest ELSE Pool!With(rest, h, len, r)
  IN  \/ ~CanUpdate(m, n, len) /\ t' = m /\ UNCHANGED stored
      \/ new = old /\ Set(head)
      \/ new # old /\ CanUpdate(m, n, len) /\ new = 0 /\ Set(INVALID)
      \/ new # old /\ CanUpdate(m, n, len) /\ new > 0
         /\ \E h \in ChunkHandle \ DOMAIN rest : Set(h)

SetValue(k, len, r) ==
  \/ /\ Lookup(k) # INVALID
     /\ update_node(Found(k), Lookup(k), len, r)
     /\ ok' = CanUpdate(t, Lookup(k), len)
  \/ Lookup(k) = INVALID /\ insert_node(k, len, r)

delete_node_Leaks(m, n) ==   \* mutant: the chunks are not freed
  /\ t' = free_list_insert(free_node(delete_from_add_list(m, n), n), n)
  /\ UNCHANGED stored
delete_node(m, n) ==
  /\ t' = free_list_insert(free_node(delete_from_add_list(m, n), n), n)
  /\ stored' = IF m.chunk_head_[n] = INVALID THEN stored
               ELSE Pool!Without(stored, m.chunk_head_[n])

Delete(k) ==
  \/ Lookup(k) # INVALID /\ delete_node(Found(k), Lookup(k)) /\ ok' = TRUE
  \/ Lookup(k) = INVALID /\ Fail

(* Init on a segment that is there: open() with a flag never set.          *)
Reopen ==
  \/ InitGarbage /\ t' = init_pool_data(t.key_)
     /\ stored' = [h \in {} |-> <<>>] /\ UNCHANGED ok
  \/ ok' = (ok /\ verify_pool_data) /\ UNCHANGED <<t, stored>>

(* A program that has the CHashMap itself can also move a node to the tail.*)
ToTail(n) == t' = insert_add_list_tail(t, n) /\ UNCHANGED <<stored, ok>>

(* A vistor, which holds the lock while it lives, walks the add list, so   *)
(* its owner can erase or update any used node; it erases none twice.      *)
VisErase(n) == delete_node(t, n) /\ UNCHANGED ok
VisUpdate(n, len, r) == update_node(t, n, len, r) /\ UNCHANGED ok

Next ==
  \/ \E k \in Key : Find(k) \/ Delete(k)
  \/ \E len \in Lens, r \in Records :
       \/ \E k \in Key : insert_node(k, len, r) \/ SetValue(k, len, r)
       \/ \E n \in UsedNodes : VisUpdate(n, len, r)
  \/ \E n \in UsedNodes : VisErase(n) \/ ToTail(n)
  \/ Reopen

Spec == Init /\ [][Next]_vars

-----------------------------------------------------------------------------
(* Properties.                                                             *)
(* A node is on the free list or on the list of its key's bucket, never on *)
(* both or on another; the nodes in use, which a vistor has to see, are    *)
(* those of the add list; and no list runs in a circle.                    *)
NodesPartitioned ==
  /\ IsInjective(Walk(t.node_next_, t.free_list_))
  /\ \A b \in Bucket :
       /\ IsInjective(Walk(t.node_next_, t.bucket[b]))
       /\ ToSet(Walk(t.node_next_, t.bucket[b])) =
            {n \in UsedNodes : t.key_[n] \in Key /\ get_bucket_id(t.key_[n]) = b}
  /\ UsedNodes = UNION {ToSet(Walk(t.node_next_, t.bucket[b])) : b \in Bucket}
  /\ IsInjective(Walk(t.add_next_, t.add_head_))
  /\ ToSet(Walk(t.add_next_, t.add_head_)) = UsedNodes

(* After any calls, a process that attaches finds the pool as              *)
(* verify_pool_data wants it: the two counters have not drifted.           *)
VerifyAccepts == verify_pool_data

(* Each value belongs to exactly one used node, which knows its length: no *)
(* chunk is lost by an update or a failed insert, and none is freed twice. *)
ValuesOwned ==
  LET owners == {n \in UsedNodes : t.chunk_head_[n] # INVALID}
  IN  /\ DOMAIN stored = {t.chunk_head_[n] : n \in owners}
      /\ Cardinality(DOMAIN stored) = Cardinality(owners)
      /\ \A n \in owners : stored[t.chunk_head_[n]].len = t.chunk_len_[n]
      /\ \A n \in UsedNodes \ owners : t.chunk_len_[n] = 0

(* The table is what its callers think it is.                              *)
Entry(n) ==
  [key |-> t.key_[n], len |-> t.chunk_len_[n],
   rec |-> IF t.chunk_head_[n] = INVALID THEN <<>> ELSE stored[t.chunk_head_[n]].rec]

(* For each node in use, those of its key behind it in its bucket, and     *)
(* those behind it in the add list.                                        *)
Behind(next, n) == ToSet(Walk(next, next[n]))
Under ==
  LET used == UsedNodes
  IN  [n \in Node |-> {m \in Behind(t.node_next_, n) \cap used : t.key_[m] = t.key_[n]}]
Older == [n \in Node |-> Behind(t.add_next_, n)]

Table == INSTANCE HashTable
  WITH Id <- Node,
       entry <- [n \in UsedNodes |-> Entry(n)],
       under <- Under,
       older <- Older

(* Every call does to the entries, their order of last use and its result  *)
(* what the abstract table says.                                           *)
IsTable == Table!Spec

(* An insert of a key that has an entry fails, as the comments on both     *)
(* insert functions say: whatever calls are made, a key has one entry at   *)
(* most, so that a Delete of it leaves none behind.                        *)
OneEntryPerKey ==
  \A m, n \in UsedNodes : t.key_[m] = t.key_[n] => m = n

=============================================================================
