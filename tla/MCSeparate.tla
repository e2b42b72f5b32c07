----------------------------- MODULE MCSeparate -----------------------------
(* The instances of MCHierarchy in which no block is shared between code    *)
(* and data or between cores: they satisfy the assumptions under which      *)
(* every request is answered to the cache that waits for it, and TLC        *)
(* evaluates them.                                                          *)
EXTENDS MCHierarchy, SeparateBlocks
=============================================================================
