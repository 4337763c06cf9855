------------------------------- MODULE MCPoller -------------------------------
(* Two slots, and two objects or one more than there are slots.            *)
EXTENDS Poller, TLC
CONSTANTS o1, o2
MCObject == {o1, o2}
Symmetry == Permutations(MCObject)
=============================================================================
