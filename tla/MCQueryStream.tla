--------------------------- MODULE MCQueryStream ---------------------------
(* Small instances of QueryStream for TLC.  Nothing tells one chunk from   *)
(* another.                                                                *)
EXTENDS QueryStream, TLC

ChunkSymmetry == Permutations(Chunk)
=============================================================================
