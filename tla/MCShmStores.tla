---------------------------- MODULE MCShmStores -----------------------------
(* Two processes; of the stack also with two sizes, so that an Init        *)
(* replaces the segment of another.  A behaviour that has broken a rule of *)
(* the lock is followed further with one item only.                        *)
EXTENDS ShmStores
CONSTANTS p1, p2, a, b
MCProc == {p1, p2}
MCItem == {a, b}
Setup(k, i, n) == [kind |-> k, items |-> i, sizes |-> n]
Racing == {Setup("queue", {a}, {2}), Setup("stack", {a}, {1}), Setup("array", {a}, {1})}
AllSetups == Racing \cup
  {Setup("queue", {a, b}, {3}), Setup("stack", {a, b}, {2}), Setup("stack", {a}, {1, 2}),
   Setup("array", {a, b}, {1}), Setup("rwarray", {a}, {2})}
OneSetup == {Setup("queue", {a, b}, {3})}
Followed == kept \/ setup \in Racing
MCIndex == {0, 1}
=============================================================================
