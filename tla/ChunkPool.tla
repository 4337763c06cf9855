------------------------------ MODULE ChunkPool ------------------------------
(***************************************************************************)
(* What the chunk allocator promises: records are stored under handles, as *)
(* long as the chunks they need fit in the pool, and no record touches     *)
(* another.                                                                *)
(***************************************************************************)
EXTENDS Integers, FiniteSets

CONSTANTS
  ChunkTotal,   \* how many chunks the pool has
  ChunkSize,    \* bytes in a chunk
  Lens,         \* the lengths of records
  Records,      \* the records
  Handles       \* the handles

VARIABLE stored \* stored[h]: length and content of the record at h

(* How many chunks a record of len bytes takes.                            *)
Need(len) == (len + ChunkSize - 1) \div ChunkSize

(* The chunks that the records in s take together: one for each part.      *)
Parts(s) == UNION {{h} \X (1 .. Need(s[h].len)) : h \in DOMAIN s}
Used(s) == Cardinality(Parts(s))

Fits(s, len) == Used(s) + Need(len) <= ChunkTotal
With(s, h, len, r) ==
  [g \in DOMAIN s \cup {h} |-> IF g = h THEN [len |-> len, rec |-> r] ELSE s[g]]
Without(s, h) == [g \in DOMAIN s \ {h} |-> s[g]]

-----------------------------------------------------------------------------
Init == stored = [h \in {} |-> <<>>]

Store(h, len, r) ==
  /\ h \notin DOMAIN stored
  /\ Fits(stored, len)
  /\ stored' = With(stored, h, len, r)

Free(h) ==
  /\ h \in DOMAIN stored
  /\ stored' = Without(stored, h)

Next == \E h \in Handles :
  \/ \E len \in Lens, r \in Records : Store(h, len, r)
  \/ Free(h)

Spec == Init /\ [][Next]_stored

=============================================================================
