----------------------------- MODULE ItemStore ------------------------------
(***************************************************************************)
(* What a configuration file promises its user: items by section and key   *)
(* in memory, each changed by its own Set and by nothing else, and a file  *)
(* that has them all after a Set that was stored.                          *)
(***************************************************************************)
EXTENDS Integers, Sequences

CONSTANTS
  Sections,  \* the sections
  Keys,      \* the keys
  Values,    \* what items are set to
  nSize,     \* the size of the buffer values are fetched in
  High,      \* the bytes of double-byte characters
  Default    \* what is fetched of an item that is not there

VARIABLES
  items,     \* items[s][k]: the item of section s and key k in memory
  stored,    \* the items in the file
  busy,      \* a Set is storing the items
  ret        \* the last Get's arguments, and what the last call returned

vars == <<items, stored, busy, ret>>

Closed == <<>>

Init == items = Closed /\ ~busy /\ ret = <<"none">>

Open    == ~busy /\ items' = stored /\ ret' = <<"open">> /\ UNCHANGED <<stored, busy>>
NotOpen == ~busy /\ items' = Closed /\ ret' = <<"closed">> /\ UNCHANGED <<stored, busy>>

(* A value that does not fit is cut, and a byte more where the cut would   *)
(* leave half of a double-byte character.                                  *)
Cut(c) == IF c[Len(c)] \in High THEN SubSeq(c, 1, Len(c) - 1) ELSE c
Fetched(v) == IF Len(v) < nSize THEN v ELSE Cut(SubSeq(v, 1, nSize - 1))

(* The exception: a value that just fits is taken for one that was cut.    *)
Clipped(v) == IF Len(v) = nSize - 1 THEN Cut(v) ELSE Fetched(v)

Get(s, k) ==
  /\ ~busy
  /\ LET v == IF s \in DOMAIN items THEN items[s][k] ELSE <<>>
     IN  \E x \in {Fetched(v), Clipped(v)} : ret' = <<s, k>> \o (IF x = <<>> THEN Default ELSE x)
  /\ UNCHANGED <<items, stored, busy>>

SetNone(s) ==
  /\ ~busy /\ s \notin DOMAIN items
  /\ ret' = <<"failed">>
  /\ UNCHANGED <<items, stored, busy>>

Set(s, k, v) ==
  /\ ~busy /\ s \in DOMAIN items
  /\ items' = [items EXCEPT ![s][k] = v]
  /\ busy' = TRUE
  /\ UNCHANGED <<stored, ret>>

(* Meanwhile the file may have less than all items.                        *)
Storing == busy /\ UNCHANGED <<items, busy, ret>>

(* A Set that failed may have left anything in the file.  The exception: so*)
(* may one that returned true, when the C library had bytes left that the  *)
(* fclose could not write, at which the code does not look ("lost").       *)
SetEnds(r) ==
  /\ busy /\ busy' = FALSE
  /\ r = <<"stored">> => stored' = items
  /\ ret' = r
  /\ UNCHANGED items

(* The process dies.                                                       *)
Die == items' = Closed /\ busy' = FALSE /\ ret' = <<"none">> /\ (~busy => UNCHANGED stored)

Next ==
  \/ Open \/ NotOpen \/ Storing \/ Die
  \/ \E r \in {<<"stored">>, <<"lost">>, <<"failed">>} : SetEnds(r)
  \/ \E s \in Sections :
       \/ SetNone(s)
       \/ \E k \in Keys : Get(s, k) \/ \E v \in Values : Set(s, k, v)

Spec == Init /\ [][Next]_vars
=============================================================================
