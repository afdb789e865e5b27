--------------------------- MODULE MCBufferPool ---------------------------
(* Two frames shared by two callers that each hold up to two pages, over  *)
(* three page ids of shard 1 of 2 (ids 1, 3, 5): enough for every page to *)
(* be evicted, re-fetched, deleted and reallocated while others are held. *)
EXTENDS BufferPool

MCPoolSize == 2
MCNumInstances == 2
MCInstanceIndex == 1
MCMaxPageId == 5
MCMaxVersion == 2
MCMaxPins == 2
=============================================================================
