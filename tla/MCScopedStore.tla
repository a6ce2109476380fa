--------------------------- MODULE MCScopedStore ---------------------------
(* Small instances of ScopedStore for TLC. *)
EXTENDS ScopedStore, TLC

CONSTANTS short, long, empty

(* A document re-chunked at another chunk_size yields fewer or more chunks, *)
(* and one without text yields none.                                        *)
MCChunkCount == [x \in Chunking |-> CASE x = short -> 1 [] x = long -> 2 [] x = empty -> 0]

Symmetry == Permutations(Session) \cup Permutations(Conn)
                \cup Permutations(Namespace) \cup Permutations(Document)
=============================================================================
