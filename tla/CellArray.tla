----------------------------- MODULE CellArray ------------------------------
(***************************************************************************)
(* What the shared-memory arrays promise the processes that use them:      *)
(* cells that are set, read and deleted as a whole, each call in one step. *)
(* The exception is a death inside a Set: a cell then has of its old       *)
(* memory what the call had not yet overwritten, also when it was deleted  *)
(* or never set before.                                                    *)
(***************************************************************************)
EXTENDS Naturals

CONSTANTS
  Proc,     \* the processes
  Item,     \* what is stored
  Index     \* the indices that are asked for

VARIABLES
  length,   \* how many cells there are: 0 until the array is made
  cells,    \* cells[i]: <<v, v>> when it was set to v; <<>>: nothing
  memory,   \* the two halves of what is in the memory of each cell
  ret       \* ret[p]: the result p's call is about to return, or <<>>

vars == <<length, cells, memory, ret>>

Init ==
  /\ length = 0
  /\ cells = [i \in Index |-> <<>>]
  /\ memory = [i \in Index |-> <<"zero", "zero">>]
  /\ ret = [p \in Proc |-> <<>>]

Return(p, r) == ret' = [ret EXCEPT ![p] = r]

Make == length = 0 /\ length' # 0 /\ UNCHANGED <<cells, memory, ret>>

Overflow(p, i) ==
  /\ i >= length
  /\ Return(p, <<"overflow", i>>)
  /\ UNCHANGED <<length, cells, memory>>

Set(p, i, v) ==
  /\ i < length
  /\ cells' = [cells EXCEPT ![i] = <<v, v>>]
  /\ Return(p, <<"set", i>>)
  /\ UNCHANGED <<length, memory>>

(* A half of the cell that p has set reaches the memory.                   *)
Write(p, i, h) ==
  /\ ret[p] = <<"set", i>> /\ cells[i] # <<>>
  /\ memory' = [memory EXCEPT ![i][h] = cells[i][h]]
  /\ UNCHANGED <<length, cells, ret>>

Get(p, i) ==
  /\ i < length
  /\ Return(p, IF cells[i] = <<>> THEN <<"unset", i>> ELSE <<"value", i, cells[i]>>)
  /\ UNCHANGED <<length, cells, memory>>

Delete(p, i) ==
  /\ i < length
  /\ cells' = [cells EXCEPT ![i] = <<>>]
  /\ Return(p, <<"deleted", i>>)
  /\ UNCHANGED <<length, memory>>

Ask(p) == Return(p, <<"is", length>>) /\ UNCHANGED <<length, cells, memory>>

(* A call returns, a Set after all of it is in the memory, or its process  *)
(* dies.                                                                   *)
Done(p) ==
  /\ \A i \in Index : ret[p] = <<"set", i>> => memory[i] = cells[i]
  /\ Return(p, <<>>)
  /\ UNCHANGED <<length, cells, memory>>

DieInSet(p, i) ==
  /\ ret[p] = <<"set", i>>
  /\ cells' = [cells EXCEPT ![i] = memory[i]]
  /\ Return(p, <<>>)
  /\ UNCHANGED <<length, memory>>

Next ==
  \/ Make
  \/ \E p \in Proc : Ask(p) \/ Done(p)
  \/ \E p \in Proc, i \in Index :
       \/ Overflow(p, i) \/ Get(p, i) \/ Delete(p, i) \/ DieInSet(p, i)
       \/ \E v \in Item : Set(p, i, v)
       \/ \E h \in {1, 2} : Write(p, i, h)

Spec == Init /\ [][Next]_vars
=============================================================================
