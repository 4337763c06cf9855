----------------------------- MODULE LifoStack ------------------------------
(***************************************************************************)
(* What the shared-memory stack promises the processes that use it: one    *)
(* bounded stack on which every call takes effect in one step, whoever     *)
(* dies in the middle of one.  It may never be made, when the process that *)
(* makes it dies: then it is empty and full for ever.                      *)
(***************************************************************************)
EXTENDS Naturals, SequencesExt

CONSTANTS
  Proc,     \* the processes
  Item      \* what is stored

VARIABLES
  cap,      \* how many elements fit; 0 until the stack is made
  stack,    \* the elements, the newest last
  ret       \* ret[p]: the result p's call is about to return, or <<>>

vars == <<cap, stack, ret>>

Init == cap = 0 /\ stack = <<>> /\ ret = [p \in Proc |-> <<>>]

Return(p, r) == ret' = [ret EXCEPT ![p] = r]

Make == cap = 0 /\ cap' # 0 /\ UNCHANGED <<stack, ret>>

Push(p, v) ==
  /\ Len(stack) < cap
  /\ stack' = Append(stack, v)
  /\ Return(p, <<"pushed">>)

PushFull(p) ==
  /\ Len(stack) = cap
  /\ Return(p, <<"full">>)
  /\ UNCHANGED stack

Pop(p) ==
  /\ stack # <<>>
  /\ stack' = Front(stack)
  /\ Return(p, <<"popped", Last(stack)>>)

PopEmpty(p) ==
  /\ stack = <<>>
  /\ Return(p, <<"empty">>)
  /\ UNCHANGED stack

Ask(p)  == Return(p, <<"is", Len(stack)>>) /\ UNCHANGED stack
Done(p) == Return(p, <<>>) /\ UNCHANGED stack

Next ==
  \/ Make
  \/ /\ UNCHANGED cap
     /\ \E p \in Proc :
          \/ \E v \in Item : Push(p, v)
          \/ PushFull(p) \/ Pop(p) \/ PopEmpty(p) \/ Ask(p) \/ Done(p)

Spec == Init /\ [][Next]_vars
=============================================================================
