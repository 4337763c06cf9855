# A TLA+ model of toney-baselib

toney-baselib is a C++ library for servers: containers in System V shared
memory that several processes use at once, locks for them, and helpers for
sockets, memory, logs and configuration.  This directory models the parts of it
that keep state between calls, checks them with TLC and proves the most
important facts about them with TLAPS.

Run a check with `tlc -config <run>.cfg <module>.tla`, a proof with
`tlapm <module>.tla`.

## 1. The system

| component | state | operations | interacts with |
|---|---|---|---|
| chunk allocator (`system/ChunkAlloc.*`) | a pool of chunks in shared memory: a free list, a counter, one chain per record | `malloc`, `split`, `merge`, `free`, `open`, `verify_pool_data` | called by the hash table, under its lock; the table keeps the handles in its nodes |
| semaphore lock (`system/lock.*`) | one System V semaphore, with undo counts | `sem_init`, `sem_lock`, `sem_unlock`, `CLockGuard` | taken by every call of the queue, stack and arrays |
| table lock (`system/lock.hpp`, `ShmHashMap.hpp`) | the same, made by the first `Init` | `Init`, `CAutoLock`, the vistor | taken by every call of the hash table |
| hash table (`system/HashMap*.hpp`, `ShmHashMap.hpp`) | buckets, add list, free list, counters in shared memory; values in chunks | `Find`, `Insert`, `SetValue`, `Delete`, the vistor, `Init` | chunk allocator, table lock, `CSVShm` |
| shared-memory queue (`system/shm_queue.h`) | a ring and its header in a segment | `Init`, `Push`, `Pop`, `Clean`, `Size`, `Full`, `Empty` | semaphore lock, `CSVShm` |
| segments (`system/SVShm.*`) | which segment a key names, who has attached it | `force_open_and_attach`, `remove` | the containers |
| stack (`system/shm_stack.h`) | nodes and a count | `Init`, `Push`, `Pop`, `Size`, `Empty` | semaphore lock, `CSVShm` |
| arrays (`system/shm_array.h`) | cells with a flag; in `CShmRWArray` also a pool of reader-writer locks | `Init`, `Length`, `SetValue`, `GetValue`, `Delete` | semaphore lock, `CSVShm`, `pthread_rwlock` |
| memory pool (`system/mempool.*`) | free lists and stubs of blocks per size, a total | `allocate`, `recycle`, `release` | used by the buffers |
| buffers (`net/cache.*`) | a block, a head and a length | `append`, `skip`, `data` | memory pool |
| poller (`net/poller.*`) | slots of attached objects, sequence numbers, epoll's set | `AttachPoller`, `DetachPoller`, `ApplyEvents`, `ProcessPollerEvents` | epoll, the objects' callbacks |
| sockets (`net/base_socket.*`) | a descriptor and its peer's address | `Connect`, `Close`, `Reconnect`, `SendN`, `RecvN`, `RecvPack`, `SendRecv`, `SendRecvWithRetry` | the kernel, a server |
| log (`base/log.*`) | the open file, its number and time, a semaphore | `log_i`, `shift_file` | other processes' rotations |
| time (`base/misc.*`) | a page another process writes | the readers of `time_mgr` | that process |
| configuration (`config/inifile.*`) | the text of a file, twice | `OpenFile`, `CloseFile`, `GetItemValue`, `SetItemValue` | the file |
| algorithms (`algorithm/*`) | none | `md5`, `tea`, `base64`, `hexdump` | none |

What makes this code hard is what happens between processes:

* a process can die between any two stores to shared memory, and the kernel
  then opens its semaphore (`SEM_UNDO`): the next one finds a half-done call;
* semaphores and segments are made, opened, replaced and reset while others use
  them, and every `Init` of a queue sets the semaphore to 1;
* the containers are linked by indices, and nothing but the order of a few
  stores keeps two lists from sharing a node;
* a counter is tested once and trusted afterwards;
* a server answers late, in parts or not at all, and a signal or a time-out ends
  a call in the middle of a packet;
* a file is searched byte by byte and written back as a whole.

`PROJECT.json` lists each of these hazards at the line where it bites, with the
properties that would catch it going wrong, and the components that are not
modelled, each with the reason.

What makes each component correct:

* allocator: no chunk on two lists at any store and no cycle, whoever died before,
  unless a process died in the middle of an update; no chunk lost while nobody died;
  an accepted pool does not run out unexpectedly; records read back as stored;
* locks: one holder, as long as nobody initialises a lock that is held and no signal
  ends a wait; a death gives back exactly what was taken; a waiter is served;
* queue: the calls are those of one FIFO queue, in the order of one store each;
* stack and arrays: the same for a stack and for cells, which are read and set as
  a whole;
* table: each node on exactly one list, counters that a restart accepts, values
  owned by one node, and the meaning of every call in terms of entries and their
  order of use;
* buffers: bytes come out as they went in, each block has one owner;
* poller: an event is handed to the object and the registration it was reported of;
* sockets: packets are cut where they end, an answer belongs to its request, a
  receive ends in time, no descriptor is lost;
* configuration: a get finds what the lines of the file say, a set changes that
  and nothing else.

## 2. The modules

| module | models | role |
|---|---|---|
| `LinkedLists` | handles, walks and cycles | used by the allocator and the table |
| `ChunkAlloc` | `CChunkAllocator` and the calls of it in `CHashMap`, one action per store | refines `ChunkPool` |
| `ChunkPool` | abstract: records that fit | what the table's model uses of the allocator |
| `Semaphore` | the kernel's side of a semaphore with `SEM_UNDO` | used by both locks |
| `SemLock` | `CSemLock`, `CLockGuard` | refined by the queue |
| `AutoLock` | the lock of `CShmHashMap` | |
| `ShmSegment` | what the four classes on a segment share: `Init`, `force_open_and_attach`, the lock, deaths | extended by the next three; refines `SemLock` |
| `ShmQueue` | `CShmQueue`, one action per store | refines `FifoQueue` |
| `ShmStack` | `CShmStack`, one action per store | refines `LifoStack` |
| `ShmArray` | `CShmArray` and `CShmRWArray`, one action per store | refines `CellArray` |
| `ShmStores` | the four on one segment protocol, with their properties | |
| `FifoQueue`, `LifoStack`, `CellArray` | abstract: a bounded queue, a bounded stack, an array of cells, with the results of calls | |
| `HashMap` | `CHashMap` as `CShmHashMap` calls it, one action per call | refines `HashTable`, uses `ChunkPool` |
| `HashTable` | abstract: entries, which were inserted or used before which, results | |
| `MemPool` | `CMemPool` of one thread | used by `RawCache` |
| `RawCache` | `CRawCache`s on one pool: append and skip | refines `ByteQueues` |
| `ByteQueues` | abstract: a queue of bytes per buffer | |
| `Poller` | `CPollerUnit`, `CPollerObject` and the user's handlers | |
| `Socket` | `CBaseSocket` and `CTcpClient`, a server and the streams between them | |
| `IniLines` | reference: what the lines of a file say | compared with `IniFile` |
| `IniFile` | `CIniFile`, its searches byte by byte, its write call by call | refines `ItemStore` |
| `ItemStore` | abstract: items in memory and in the file | |
| `ChunkAllocProofs`, `SemLockProofs`, `AutoLockProofs`, `ShmStoresProofs`, `HashMapProofs`, `RawCacheProofs`, `PollerProofs`, `SocketProofs` | | proofs |
| `MC...` | | small instances for TLC |

**How state and actions correspond to the code.**

*ChunkAlloc.*  `free_list_` and `free_total_` are the fields of
`TChunkAllocator`, `next_` and `data_` those of `TChunk`; a handle is the index
of a chunk instead of a byte offset.  `op` holds the local variables of the call
in progress, and `op.pc` the store it comes to next.  One process is in a call
at a time, because every caller holds the table's lock; it can die at any step
(`Crash`), which leaves the pool as it is at that store.  `MallocNull` is the
store through the null pointer that `free_list_remove` returns on an empty list:
the process dies.  `Open` is a later process that attaches the pool, which
succeeds only if `verify_pool_data` accepts it; between a death and an `Open`,
other processes that had the pool attached go on using it, so calls continue on
an unchecked pool.  The handle of a record is not its caller's own: `CHashMap` keeps
it in a node of the same shared memory, where it outlives the process.  `held` are
those nodes, with `chunk_head_`, `chunk_len_` and the record the node stands for, and
the calls are what `CHashMap` does to them (`HashMapImp.hpp`): an insert stores the
handle when `split` has returned, an update with as many chunks writes over the old
ones, an update with another number frees the old chain (line 248), mallocs, splits,
stores the length and last the handle (line 254), a delete frees.  A death between
those two lines leaves a node that names chunks of the free list; `stale` remembers
that one happened.

*Semaphore, SemLock, AutoLock.*  `semval` is the semaphore's value, `semadj` the
undo count the kernel keeps per process, `at` the place of each process in the
use of the lock.  `SETVAL` and `SETALL` also clear the undo counts, as
`semctl(2)` says.  `sem_init` has no guard (`lock.cpp:23`): any process may
run it at any time and set the value to 1.  A wait in `semop` may end with -1 when
a signal interrupts it, and the process goes on inside (`Interrupted`), since
`CLockGuard` ignores what `Lock()` returned (`lock.h:46`).  `kept` records whether
neither has happened so far: nobody ran `sem_init` while another process held the
lock, and no signal ended a wait.  The code has no such variable; no action reads it,
only the properties do.

*ShmSegment, ShmQueue, ShmStack, ShmArray, ShmStores.*  `setup` says which class
is used, and does not change.  `shm[s]` is a segment (header, nodes, read-write
locks), `key` the segment the IPC key names, `seg[p]` the one process p has
attached.  Every store to a header or a node is an action; the data of an array's
cell are stored and read in two halves, so that a mixture of two values would
show.  `ret[p]` is the result of p's call, from the store at which the call takes
effect to its return.  A process can die at any step and then starts anew; the
kernel undoes its semaphore operation, but nothing undoes its read-write lock,
which becomes `"dead"`.  The semaphore is SemLock's, with everything SemLock allows,
`sem_init` under a holder and interrupted waits included; what the containers do to
their data after that is modelled too.  `SizeMax` caps the counts of a stack that two
processes inside at once drive past its room.  With `Faults`, `shmget` and `shmat` may also fail:
`InitLost` is the case in which the segment is created and then not attached, so
that nobody stores its header.

*HashMap.*  `t` is one record with the fields of `THashMap` and, as functions of
the node, those of the nodes.  The helpers (`insert_node_list`,
`delete_from_add_list`, `use_node`, ...) are operators from table to table with
the code's names, and a call is the composition the code has, one step under the
lock.  `Walk(next, h)` is the list at `h`, as the code's loops visit it.  `stored`
are the values, as ChunkPool keeps them.  For `HashTable` an entry is named by its
node; below it (`under`) are the entries of its key behind it in the bucket, and
older than it are the nodes behind it in the add list.

*MemPool, RawCache.*  `live` maps an address to the size of the block there;
`free` and `stub` are `_free` and `_stub`.  `allocate` is a few actions, one for
each turn of the loop of `release_size(mem_size)`; `op` holds its locals.  One
thread uses a pool, so the buffers' calls do not overlap.  `mem`, `block_size`,
`head` and `len` are the fields of each `CRawCache`, and `buf` the bytes of its
block; bytes that were skipped or moved away are `Blank`, so that reading one
would show as a byte nobody appended.  `new` may return an address that was used
before, for a block of any size, or one that was not.

*Poller.*  `seq` and `poller` are the fields of `CEpollSlot`, `reg` what epoll
knows of each object, `batch` the part of `ep_events` from the event being
handled on.  The user's code is `User`: any calls, up to `MaxCalls` of them, at
any place where the code gives it control, that is between batches and inside
`InputNotify`, `OutputNotify` and `HangupNotify`.  An object is an address, so
`Delete` and `New` of one object are a successor at the same address.  Each
reported event carries a note, `fate`, of what became of its registration; no
action reads it, only the properties do.  An event whose slot has no object
would be a null pointer: `Notify` is then not enabled, and the run would report a
deadlock.

*Socket.*  Each `socket()` gets a new number; `open` are the descriptors the
process has, `m_iSocket` the one the object knows.  `conn[c]` is a connection:
bytes on their way out, bytes the server has read of a request, bytes it has yet
to write, and bytes that have arrived.  A byte carries its request and its place
in the packet.  `call` has the locals of the call in progress: `at` names the
loop (`write` is `WaitWrite`, `send`, `header` and `body` are the loops of `SendN`
and `RecvN`), `left` is what the loop believes to have left of its time-out,
`age` how long the call has waited since `RecvPack` began, `nage` since the loop
began, `waited` in the current `select`.  Time passes only while the client
waits.  `failed` remembers on which connections a try has failed.

*IniLines, IniFile.*  A text is a sequence of bytes, only that a header with its
brackets is one; keys are sequences of bytes, so a key can be a part of another word.
`SearchMarchStr` is `strstr` and the loop around it byte by byte: it finds the key
inside words, tests the byte before and the bytes behind, and goes on behind an
occurrence it refused without a test of the byte before the next one.  An item is
what the code takes for one: the word before the `=` of a line, whatever stands
before that word.  The repository knows no comments: `# k = v` is an item `k`, and
`#k = v` an item `#k`.  `m_pszContent` and `m_pszShadow` are the two copies; a
pointer is an index.  `SetItemValue` changes both at once and then takes a step
for each call of the C library.  `items` and `stored` are what `IniLines` says of
the content and of the file, computed when they change; no action reads them.

## 3. The runs

| run | module, cfg | asks |
|---|---|---|
| `chunk_pool` | `MCChunkAlloc` | Does every sequence of inserts, overwrites, updates and deletes, with a death at any store and a restart, keep the lists apart and acyclic (unless the death was in an update) and complete (without a death), give records back and refine the abstract pool? |
| `sem_lock` | `MCSemLock` | Is the lock exclusive while its rules are kept, and never closed for ever even when they are not? |
| `auto_lock` | `MCAutoLock` | Is the table's lock exclusive whichever processes make or open it and die? |
| `stores` | `MCShmStores` | Are queue, stack and arrays what they promise while the lock's rules are kept, with deaths at any store, failing system calls and a segment replaced under its users; do they use the lock as SemLock says and does every call return, also when the rules are broken? |
| `queue_init` | `MCShmStoresInitRace` | violated: can `Init`'s assertion fail? |
| `table` | `MCHashMap` | Are the lists, counters and values right after any calls, and does each call do what the abstract table says? |
| `table_insert` | `MCHashMapInsert` | violated: does the insert of a key that is there fail? |
| `buffers` | `MCRawCache` | Do buffers stay inside their blocks, does each block have one owner, does the pool's total hold its limit, and do bytes come out in order, also when an append is refused? |
| `poller` | `MCPoller` | Are slots, epoll's list and the batch in step, whatever handlers do to other objects whose events wait? |
| `poller_reattach` | `MCPollerReattach` | violated: is an object that was detached in `InputNotify` spared the rest of the event? |
| `socket` | `MCSocket` | Are packets cut right, answers those of their requests, descriptors never lost, and does a receive end in time, whatever server, network and signals do? |
| `ini` | `MCIniFile` | Does a get find, and a set change, what the lines of the file say, does a set keep every other line, and is a file that was stored complete? |

**Bounds.**  `chunk_pool`: three chunks of two bytes and records of two and three
bytes: a record that fills a chunk exactly, one that begins a second, two nodes
at once, and a pool too full for another; `MaxCrashes` is 1 there, and the proofs
hold for any number.  The constraint `Followed` ends a behaviour at a death in the
middle of an update, of which the properties say nothing but types (section 4 says
what happens after it).  `sem_lock`, `auto_lock`: four processes, so that one can
hold, one wait, one initialise and one die.  `stores`: behaviours in
which a rule of the lock was broken are followed further (`Followed`) in the setups
`Racing`, of one item and the smallest sizes; a ring of three nodes, so
that it wraps and is full with two elements; a stack of two nodes; a stack with
one item and Inits of two sizes, where `MaxSegs` 2 allows one replacement; arrays
of one cell under the semaphore and of two under one read-write lock, asked for
the indices 0 and 1, so that an index is inside and outside.  Two processes,
because a lock lets one in at a time and the other is what can come between; two
items, which tell apart lost, repeated and swapped elements (the second stack and
the read-write array have one item, whose halves differ from those of a new
cell).  `table`: three nodes (a head, a middle and an end
of a list), two buckets, keys that collide and one that does not, and values of
none, one and two chunks in a pool of three, so that an insert and an update can
each fail for want of chunks.  `buffers`: two buffers of up to three bytes; a
small block and a large one, which `fit_extend_set` and `release_size` treat by
different rules (the third rule, for blocks between the slots, is the same code
with another count and is not reached at these sizes); a limit that two large
blocks and a set of small ones pass, so that purges make room, and fail to.
`MaxAddr` 5 is enough for every set of blocks below the limit, so `Extend` never
waits for an address (the run checks for deadlock).
`poller`: two slots and two objects, so that one can take the slot of the other
while its event waits; numbers up to `MaxSeq` 4, enough to attach, change, detach
and attach again, and two calls from each handler.  The code's numbers wrap at
2^32, which would need as many changes within one batch; the proofs are for
numbers without a wrap and any bound.
`socket`: two requests of two bytes, so that a short send splits one and an
answer can meet the next request; answers of one byte (a header alone), three
(what the buffer holds) and four (too big); three connections, for the first, a
reconnect and the one of a retry; no time-out and one of two ticks, which header
and body share, and clocks that go on to three.  A connection takes one byte
ahead of the server (`Window` 1), so that a send can block.
`ini`: seven files of a section `[s]` with two or three more lines, among which are
a second section in upper case, a key in upper case with blanks, a key in a value,
a key `k` that is a part of the key `kj` and of the words `jk`, `kkj` and `#k`, a key
behind another word of its line (`# k=v`, `kj k`), a key that is there twice, an
empty value and an empty line; a set value of several words.  The set value just
fits the buffer and ends in a double-byte character, and one value of a file is cut
in the middle of one.

**Fairness.**  `ChunkAlloc`: weak fairness of the steps inside a call; nothing in
a call waits.  `SemLock`, `AutoLock`, `ShmStores`: weak fairness of a process that
holds the lock (it runs straight-line code to the unlock, or dies) and strong
fairness of getting it for each waiter: Linux serves the waiters of a semaphore in
the order of their arrival, so none is passed over for ever.  `ShmStores` asks the
same for a waiter of a read-write lock that is free again and again: all users
lock it for writing, and the one who unlocks it wakes a waiter.  `Socket`: the
client's receive loop runs when it can, and the clock moves; nothing is asked of
the server or of the network.  Nobody is required
to make a call, to die or not to die.  `AutoLock` also assumes that the process
that made the semaphore goes on to `SETALL`; `MakerDies` is `FALSE` in its run,
because a death exactly there leaves the semaphore at 0 and every later `Init`
waits for ever (hazard at `ShmHashMap.hpp:167`).

## 4. What the checks found

* `queue_init`: `CSemLock::sem_init` (`lock.cpp:26`) runs `SETVAL` on a semaphore
  it may just have opened.  Two `Init`s at once are then both inside the lock,
  and `assert(m_pHead->m_nSize != 0 )` (`shm_queue.h:79`) fails.  With
  `Faults = TRUE` the same model shows a second way to that assertion, with the lock's
  rules kept: a process that dies, or cannot attach, between creating the segment and
  storing `m_nSize` leaves a segment that no later `Init` accepts.
* `table_insert`: `insert_node` never looks for the key, so the second insert of a key
  succeeds, contrary to `HashMap.hpp:98` ("if the old node exists, returns failure") and
  `ShmHashMap.hpp:230` ("fails if the key exists").  `HashTable` describes what the
  calls do instead: a key can have several entries, `Find` sees the last inserted, and
  a `Delete` uncovers the one before.
* `poller_reattach`: after `InputNotify` the loop compares pointers
  (`poller.cpp:315`), which does not tell an object that was detached and attached
  again from one that was left alone; `OutputNotify` is then called for an event
  of the old registration, contrary to the comment at `poller.cpp:345`.

More things the model makes visible.  No property promises that they do not happen;
where a comment of the repository speaks of them, it is named:

* **A death in `update_node`** (`HashMapImp.hpp:248-254`) leaves a node that names
  chunks of the free list, and `verify_pool_data` accepts the pool.  The next malloc
  gives these chunks to a second record: without the condition `~stale` (and with
  `Followed` admitting every pool) `NoAlias` fails after 10 steps.  A later delete of
  the node frees them once more, a chunk then points to itself and `NoCycle` fails
  after 13 steps: `free`, `merge` and `verify_pool_data` would walk for ever.  So every
  property of `chunk_pool` that speaks of lists after a death has the condition that
  none was in an update.
* The comment at `HashMapImp.hpp:250`, that malloc cannot fail once the difference was
  found to be there, holds while nobody died in an update, for any lengths
  (`UpdateFits`, proved).  After such a death it does not: with lengths of one, two and
  three chunks an update of the stale node comes to a malloc that finds too few.
* **Rules of the lock.**  A `sem_init` under a holder and an interrupted wait both put
  two processes inside.  The ring, the stack's count and the cells may then lose or mix
  what is stored, which is why `MutualExclusion`, `Linearizable`, `IsStack` and `Whole`
  have the condition `kept`.  What holds in every case is that the semaphore is not
  closed for ever (`ClosedByHolder`), that the containers use it as SemLock says and
  that their calls return.
* `CShmHashMap::Init` passes an uninitialised `init` (`ShmHashMap.hpp:142`) to `open`
  when the segment is not new; if it is not 0 the table is emptied under its users
  (`Reopen` with `InitGarbage`, `Wipe` in `HashTable`).
* `Length()` of the queue is one more than the queue ever holds, and a death between
  the two stores of `Clean` brings back elements that had been popped (`DieInClean` in
  `FifoQueue`).
* **Words that end in the key twice.**  In `[s]`, `kk=v` a Get of `k` returns `v`, and a
  Set of `k` rewrites that line: `SearchMarchStr` refuses the first `k`, which is not
  followed by blanks or `=`, and does not test the byte before the second
  (`inifile.cpp:1056`).  The same with key `1` and `11=`.  `WellFormed` excludes such
  texts (`Doubled`).

What the abstract specifications had to be weakened to, to describe the code:

* A stack or an array whose maker died, or could not attach, before the header was
  stored keeps a size of 0 for ever (`LifoStack` and `CellArray` begin with no room
  and need not get any).  The queue aborts in that case.
* A death in `SetValue` after the flag leaves a cell set to old or half new data
  (`DieInSet` in `CellArray`).  A death inside a read-write lock blocks its cells
  (the last disjunct of `CallsReturn`).
* After a try that failed on a connection that stays in use, the answer that comes
  too late is taken for the next request's (the exception in `OwnAnswer`).  The
  retry of `SendRecvWithRetry` has a new connection and is spared this, but may
  have the request carried out twice.
* `SendN` and `RecvN` subtract the time since the loop began from what is left at
  every turn (`base_socket.cpp`), so they give up early, never late; a blocking
  `send` does not look at the time at all, and `RecvEnds` therefore speaks of
  `RecvPack` only.
* `Reconnect` of an object whose first connect failed returns 0 without being
  connected, since it does not know an address; the next send fails.
* `SetItemValue` returns true although `fclose` failed (`"lost"` in `ItemStore`), where
  the comments at `inifile.cpp:389` and `:397` say that it writes the file back, and
  false with the memory changed when the file could not be written.
* `GetItemValue` drops the last byte of a value that was not cut, when it just fits the
  buffer and that byte is a high one (`Clipped` in `ItemStore`, the one exception to
  `Fetched`); the comment at `inifile.cpp:373` speaks of cut values only.

## 5. What is proved

All proofs are for any values of the constants: chunks, processes, records, deaths,
slots, nodes, buckets, keys, segments, blocks, connections and time-outs.

* `ChunkAllocProofs`: `TypeCorrect`, `Exclusive` (`NoAlias`), `ListsEnd`
  (`NoCycle`), `Conservation` (`NoLeak`), `NeverRunsOut` (`VerifiedNeverNull`),
  `UpdatesFit` (`UpdateFits`), `LackReal` (`LackIsReal`) and `PoolStores` (the refinement
  `StoresRecords`).  All but the first are about runs in which no process died between
  line 248 and line 254 of `update_node`; deaths anywhere else are included, and any
  number of them.  The inductive invariant is `TypeOK`, what is so of the locals of the
  call (`CallInv`), and, unless `stale`, `ListInv`, `RecordInv` and `FitInv`.
  `NoAlias` alone is not inductive: that `FreeInsert` does
  not close a circle needs `OpInv` (the chunk in hand is on no list, its link already
  points to the free list), and that the free list cannot run out in `malloc` needs
  `CountInv`, which says how far `free_total_` runs ahead of the free list at each
  store.  A list is the least
  set closed under `next_`; the frame and cut lemmas at the head of the module say
  how one store changes it, so no induction over lists is needed.
  `RecordInv` gives each stored record, and the chain that malloc links and split
  fills, a function from positions to chunks: as many as the length needs, linked in
  their order, with their bytes of the record.  The walk of `merge` visits that
  function's chunks (a least position where it does not leads to a contradiction), so
  `merge` returns the record; and as the functions map the parts of all records one
  to one to the chunks of all chains, the chunks in use are counted without a sum.
* `SemLockProofs`: `Exclusion`, `UnitKept`, from the invariant that
  the undo count of a process is 1 exactly while it is inside, and the value of
  the semaphore is 1 exactly while nobody is; `Exclusion` and `UnitKept` speak of
  runs in which the rules (`kept`) have not been broken.  `ClosedByOne`
  (`ClosedByHolder`) does not: its invariant `UnitInv` says
  that the units in the semaphore and with the processes that took them are more than
  those owed by processes that left without having taken one; a unit is a member of a
  set, so the count needs no sum over processes.
* `AutoLockProofs`: `Exclusion` for the table's lock, without provisos.
* `ShmStoresProofs`: `LockUsed` (`LockSpec`), `QueueLinearizable` (`Linearizable`),
  `StackLinearizable` (`IsStack`) and `ArrayWhole` (`Whole`), four refinements, step by
  step and with deaths at any store.  `LockUsed` has no condition.  The other three are
  about the steps of a behaviour up to the first that breaks a rule of the lock
  (`kept'`): nothing in the code keeps these rules, callers must, and `queue_init` shows
  what happens when they do not.  The argument has three layers.  `Guarded` says which call is at
  which step, which with SemLock's own invariant gives that one process at most is
  between the lock and the unlock.  `SegInv` says which segments there are, of which
  shape, and which a process has attached.  `QueueInv` and `StackInv` say that what a
  process has read or stored in its call is still so at its next step; from them
  each store is one step of the abstract object or a stutter.  The queue's abstract
  value is the ring from `m_nFront` to `m_nRear`; the `Ring...` lemmas say what a
  store does to it, wrapped or not.  `ArrayInv` says that who is at a cell of an array
  is alone at it: of `CShmArray` by the semaphore, of `CShmRWArray` because the lock of
  the cell holds the process' name, and no `Init` touches the locks of an array that
  has a length.
* `HashMapProofs`: `Partitioned` (`NodesPartitioned`), `Accepted` (`VerifyAccepts`),
  `EachItsValue` (`ValuesOwned`) and `TableRefined` (the refinement `IsTable`).  What the properties say of walks along handles is
  not inductive, because no walk sees the `prev` handles by which nodes are cut out.
  The invariant `TableInv` says that there are sequences, the free list, one for each
  bucket and the add list, that hold every node as they should, agree with the `next`
  and the `prev` handles and with the two counters, and that each used node has a
  stored value of its own.  Each list function of the code has a lemma that gives the
  sequences after it, and a call composes them as the code does.  That a walk visits
  the sequence is shown from a least step at which they would differ.
  For the refinement `HashTable` is stated without sequences: it sees of a list only
  what lies behind each node (`Later`), which a change of the list at one node alters
  by that node alone, and each list lemma says how.  A look-up finds the node with all
  others of its key behind it (`LookupTop`).  What the code counts as free is what the
  table counts: the chunks by the handles of the values are as many as by the nodes
  that own them (`SameUsed`); and that a value that needs no more chunks always fits
  takes a second invariant, `RoomInv`, that what is stored fits.
* `RawCacheProofs`: `InsideBlocks` (`InBlock`), `OneOwner` (`BlocksOwned`), `BytesInOrder`
  (the refinement `InOrder`) and `InAccount` (`Accounted`, where the size of all blocks
  is that of the set of their bytes).  `BufferInv` adds to the properties that every address on a free list is
  of a live block of that list's size, and what a call has settled when its purge
  begins: the buffer it appends to, whose bytes no step of the purge touches, and the
  size it needs, which is a power of two times the smallest block.
* `PollerProofs`: `TypeCorrect`, `SlotsKept`, `InStep`, `EventsVerified` for any
  number of slots and objects, any batch and any calls of handlers.  `Verified` is
  not inductive: that a stale event can never be accepted again needs `BatchInv`,
  which says that a live event's number is the one in epoll's list and that the
  number of every other event is behind its slot's.
* `SocketProofs`: `TypeCorrect` (for announced lengths of 0 or of at least the header, see
  section 6), `WaitsInTime` (`InTime`), `NoDescriptorLost`
  (`OneDescriptor`), `Framing` (`Framed`) and `AnswersOwn` (`OwnAnswer`) for any number of
  requests and connections, any packets, time-outs and server.
  `InTime` is not inductive: `TimeInv` says that what `RecvN` has left, counted from
  now in `select` and from the start of its loop, ends before `RecvPack`'s time-out.
  `Framed` and `OwnAnswer` follow from `PacketInv`: only the object's own connection
  carries anything (`Streams`), a failed try is remembered and the second try has a
  new connection (`Failures`), and on a connection where no try has failed either the
  request is under way, its bytes in order between what is sent and what the server
  has read, or its answer is, its bytes in order between the buffer, the stream and
  what the server has yet to write (`Flow`).

The assumptions are those the modules name (`PoolAssumption` and the like): sizes
are natural numbers, a chunk has at least one byte, the handle of a stored value is
not the one that means "none", block sizes are powers of two of the smallest, clocks
run past every time-out, and a process is not one of the other values of a read-write
lock (`LockAssumption`).

Only model-checked:

* liveness under fairness, which is out of the prover's reach: `LockGranted`,
  `CallsReturn`, `RecvEnds`;
* the configuration files, whose searches are recursive.

## 6. What is not modelled

* Byte layout: pool sizes, offsets, alignment.  Handles are indices.
* Deaths inside calls of the hash table: its calls are single steps.  Deaths are
  modelled where the code checks for their effects, in the allocator.
* The copies of old values that `update_node` and `delete_node` can return, and the
  time stamps `add_info_1_` and `add_info_2_`.
* Permissions, statistics and detaching of segments; failures of system calls
  other than those named above.
* Attaching an object to a second poller unit (`AttachPoller` refuses it) and
  objects on descriptor 0, which the destructor does not close.
* The destructor of `CMemPool`, and sizes of 2^31 and more, for which
  `fit_block_size` shifts by 32.
* An `Init` of `CShmRWArray` with another number of locks than the segment has, which
  makes the locks again under their users, and one without room for a cell (-3).
* UDP, listening sockets, socket options, host names, `Attach`, and the single
  `Send`, `Recv` and `WaitRdWr` of `CBaseSocket`.
* A caller's function that returns a positive length shorter than the header, against
  the rule for such functions ("the packet's full length", `base_socket.cpp:847`).  The
  length of the body then wraps (`base_socket.cpp:908`) and the receive would run over
  the buffer; `SocketAssumption` excludes these lengths.
* A `Connect` whose `select` is interrupted by a signal (`base_socket.cpp:965-990`): the
  sets stay filled, `SO_ERROR` is 0 and the call returns 0 while the connection is still
  being made.
* Configuration files with two `=` in a line, with a header that does not stand alone
  on its line (`# [s]` is found as a section), with a word before the `=` that ends in
  the key twice (section 4), or with a header at the very end with blanks behind it; a
  buffer of one byte, of which `GetItemValue` reads the byte before; the overloads for
  numbers; `fread` failing.
* The components listed as `not_modelled` in `PROJECT.json`.

## 7. Plan

Done, in this order: the allocator and its proofs; the two locks and their
proofs; the queue; the hash table; the memory pool and the buffers on it; the
poller and its proofs; the sockets and their proofs; the configuration files; the stack and the
arrays beside the queue.

Next, each with its runs: log rotation by several processes; the clock page's
readers; deaths inside calls of the hash table; UDP and listening sockets.

Theorems worth proving next: what the configuration files promise, from versions
of their searches that are not recursive.
