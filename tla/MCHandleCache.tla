--------------------------- MODULE MCHandleCache ---------------------------
(* Small instances of HandleCache.                                         *)
EXTENDS HandleCache
=============================================================================
