---------------------------- MODULE MCChunkAlloc ----------------------------
(* A small instance of ChunkAlloc: chunks of two bytes, records that fill  *)
(* one chunk and records that begin a second one.                          *)
EXTENDS ChunkAlloc

CONSTANTS r1, r2, n1, n2

MCRecords == {r1, r2}
MCLens    == {2, 3}
MCNodes   == {n1, n2}

(* Bound: a pool on which a process died in an update is not followed      *)
(* further; no property says more of it than its types.                    *)
Followed == ~stale
=============================================================================
