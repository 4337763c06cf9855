----------------------------- MODULE LinkedLists ----------------------------
(***************************************************************************)
(* Lists linked by handles in shared memory.  next[c] is the handle stored *)
(* in node c; INVALID (INVALID_BC_MEM_HANDLER) ends a list.                *)
(***************************************************************************)
EXTENDS Integers

INVALID == -1

(* S has the successor of each of its nodes.                               *)
Closed(next, S) == \A c \in S : next[c] \in S \cup {INVALID}

(* The nodes that a walk along next from h visits: the least closed set    *)
(* that has h.                                                             *)
Reach(N, next, h) ==
  {c \in N : \A S \in SUBSET N :
               Closed(next, S) /\ h \in S \cup {INVALID} => c \in S}

(* The walk from h comes to an end: it never returns to a node.            *)
Acyclic(N, next, h) ==
  \A c \in Reach(N, next, h) : c \notin Reach(N, next, next[c])

=============================================================================
