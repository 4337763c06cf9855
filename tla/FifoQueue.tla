------------------------------ MODULE FifoQueue ------------------------------
(***************************************************************************)
(* What the shared-memory queue promises the processes that use it: one    *)
(* bounded first-in first-out queue, on which every call takes effect in   *)
(* one step.                                                               *)
(***************************************************************************)
EXTENDS Naturals, SequencesExt

CONSTANTS
  Proc,     \* the processes
  Item      \* what is queued

VARIABLES
  cap,      \* how many elements fit; 0 until the queue is made
  queue,    \* the elements, the oldest first
  ret       \* ret[p]: the result p's call is about to return, or <<>>

vars == <<cap, queue, ret>>

Init ==
  /\ cap = 0
  /\ queue = <<>>
  /\ ret = [p \in Proc |-> <<>>]

Return(p, r) == ret' = [ret EXCEPT ![p] = r]

Make == cap = 0 /\ cap' # 0 /\ UNCHANGED <<queue, ret>>

Push(p, v) ==
  /\ Len(queue) < cap
  /\ queue' = Append(queue, v)
  /\ Return(p, <<"pushed">>)

PushFull(p) ==
  /\ Len(queue) = cap
  /\ Return(p, <<"full">>)
  /\ UNCHANGED queue

Pop(p) ==
  /\ queue # <<>>
  /\ queue' = Tail(queue)
  /\ Return(p, <<"popped", Head(queue)>>)

PopEmpty(p) ==
  /\ queue = <<>>
  /\ Return(p, <<"empty">>)
  /\ UNCHANGED queue

Clean(p) ==
  /\ queue' = <<>>
  /\ Return(p, <<"cleaned">>)

(* Size(), Full() and Empty().                                             *)
Ask(p) ==
  /\ Return(p, <<"is", Len(queue), Len(queue) = cap, queue = <<>> >>)
  /\ UNCHANGED queue

(* A call returns, or its process dies: the queue stays as it is, unless   *)
(* the death is in Clean: elements that were in the queue can be back then.*)
Done(p) ==
  /\ Return(p, <<>>)
  /\ UNCHANGED queue
DieInClean(p) ==
  /\ ret[p] = <<"cleaned">> /\ queue = <<>>
  /\ Return(p, <<>>)
  /\ queue' \in BoundedSeq(Item, cap)

Next ==
  \/ Make
  \/ /\ UNCHANGED cap
     /\ \E p \in Proc :
          \/ \E v \in Item : Push(p, v)
          \/ PushFull(p) \/ Pop(p) \/ PopEmpty(p) \/ Clean(p) \/ Ask(p)
          \/ Done(p) \/ DieInClean(p)

Spec == Init /\ [][Next]_vars

=============================================================================
