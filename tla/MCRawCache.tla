----------------------------- MODULE MCRawCache ------------------------------
(* Two caches on a pool with a small block, of 2 bytes, and a large one.   *)
EXTENDS RawCache, TLC
CONSTANTS c1, c2, x, y
MCCache  == {c1, c2}
MCData   == {<<>>, <<x>>, <<y, x>>}
Symmetry == Permutations(MCCache)
=============================================================================
