------------------------------ MODULE HashTable ------------------------------
(***************************************************************************)
(* What CHashMap does for its callers: entries with a key and a value, in  *)
(* the order of their last use.  Insert does not look for its key, so a    *)
(* key can have several entries, and a look-up finds the last inserted.    *)
(***************************************************************************)
EXTENDS Integers

CONSTANTS
  Id,          \* names for entries
  Key,         \* keys
  Lens,        \* lengths of values
  Records,     \* contents of values
  ChunkTotal, ChunkSize   \* the space for values (see ChunkPool)

VARIABLES
  entry,       \* entry[i]: key, length and content of entry i
  under,       \* under[i]: the entries of i's key that were inserted before i
  older,       \* older[i]: the entries that were last used before i
  ok           \* the last call by key succeeded

vars == <<entry, under, older, ok>>

Space == INSTANCE ChunkPool WITH Handles <- Id, stored <- entry

NoEntries == [i \in Id |-> {}]
Entry(k, len, r) ==
  [key |-> k, len |-> len, rec |-> IF len = 0 THEN <<>> ELSE r]

Of(k) == {i \in DOMAIN entry : entry[i].key = k}

(* The last inserted of the entries of k, if there is one.                 *)
Top(k) == LET all == Of(k) IN {i \in all : under[i] = all \ {i}}

(* Of the entries in S, i becomes the last one used, or the first.         *)
UsedLast(i, S) == older' = [j \in Id |-> IF j = i THEN S \ {i} ELSE older[j] \ {i}]
UsedFirst(i, S) ==
  older' = [j \in Id |-> IF j = i \/ j \notin S THEN {} ELSE older[j] \cup {i}]

-----------------------------------------------------------------------------
Init ==
  /\ entry = [i \in {} |-> <<>>]
  /\ under = NoEntries
  /\ older = NoEntries
  /\ ok = TRUE

Fail == ok' = FALSE /\ UNCHANGED <<entry, under, older>>

(* An empty value cannot be inserted.                                      *)
Accepts(len) == Id \ DOMAIN entry # {} /\ len > 0 /\ Space!Fits(entry, len)
Insert(k, len, r) ==
  \/ /\ Accepts(len) /\ ok' = TRUE
     /\ \E i \in Id \ DOMAIN entry :
          /\ entry' = [j \in DOMAIN entry \cup {i} |->
                         IF j = i THEN Entry(k, len, r) ELSE entry[j]]
          /\ under' = [under EXCEPT ![i] = Of(k)]
          /\ UsedLast(i, DOMAIN entry)
  \/ ~Accepts(len) /\ Fail

Find(k) ==
  \/ /\ ok' = TRUE
     /\ \E i \in Top(k) : UsedLast(i, DOMAIN entry)
     /\ UNCHANGED <<entry, under>>
  \/ Of(k) = {} /\ Fail

(* An entry takes a new value if that fits in place of the old one.        *)
CanUpdate(i, len) == Space!Fits(Space!Without(entry, i), len)
Update(i, len, r) ==
  entry' = IF CanUpdate(i, len) THEN [entry EXCEPT ![i] = Entry(@.key, len, r)] ELSE entry

SetValue(k, len, r) ==
  \/ \E i \in Top(k) :
       /\ UsedLast(i, DOMAIN entry)
       /\ ok' = CanUpdate(i, len)
       /\ Update(i, len, r)
       /\ UNCHANGED under
  \/ Of(k) = {} /\ Insert(k, len, r)

Remove(i) ==
  /\ entry' = [j \in DOMAIN entry \ {i} |-> entry[j]]
  /\ under' = [j \in Id |-> IF j = i THEN {} ELSE under[j] \ {i}]
  /\ older' = [j \in Id |-> IF j = i THEN {} ELSE older[j] \ {i}]

Delete(k) ==
  \/ ok' = TRUE /\ \E i \in Top(k) : Remove(i)
  \/ Of(k) = {} /\ Fail

(* What a vistor does, and a caller of the add-list functions.             *)
UpdateData(i, len, r) == Update(i, len, r) /\ UNCHANGED <<under, older, ok>>
Erase(i) == Remove(i) /\ UNCHANGED ok
ToBack(i) == UsedFirst(i, DOMAIN entry) /\ UNCHANGED <<entry, under, ok>>

(* Init with an uninitialised flag empties a table that is in use.         *)
Wipe ==
  /\ entry' = [i \in {} |-> <<>>]
  /\ under' = NoEntries
  /\ older' = NoEntries
  /\ UNCHANGED ok

Next ==
  \/ \E k \in Key : Find(k) \/ Delete(k)
  \/ \E k \in Key, len \in Lens, r \in Records :
       Insert(k, len, r) \/ SetValue(k, len, r)
  \/ \E i \in DOMAIN entry : Erase(i) \/ ToBack(i)
  \/ \E i \in DOMAIN entry, len \in Lens, r \in Records : UpdateData(i, len, r)
  \/ Wipe

Spec == Init /\ [][Next]_vars

=============================================================================
