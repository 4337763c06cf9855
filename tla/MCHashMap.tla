------------------------------ MODULE MCHashMap ------------------------------
(* Two buckets: the keys k1 and k2 collide, k3 is alone.  Values of none,  *)
(* one and two chunks.                                                     *)
EXTENDS HashMap, TLC

CONSTANTS k1, k2, k3, r1, h1, h2, h3

MCKey     == {k1, k2, k3}
MCHash    == (k1 :> 2) @@ (k2 :> 2) @@ (k3 :> 1)
MCRecords == {r1}
MCHandle  == {h1, h2, h3}
MCLens    == {0, 1, 3}
Symmetry  == Permutations(MCHandle) \cup Permutations({k1, k2})
=============================================================================
