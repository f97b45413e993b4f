--------------------------- MODULE MCUIDemoCache ---------------------------
(* Small instances of UIDemoCache: a cache of a few bytes, chunks that can *)
(* overflow it, and lines both shorter and longer than the cache.          *)
EXTENDS UIDemoCache

CONSTANTS ChunkLens  \* the lengths of the chunks a callback may read

MCChunks == UNION {[1..n -> Bytes] : n \in ChunkLens}
=============================================================================
