--------------------------- MODULE MCWatchManager ---------------------------
(* The registry with all its callers, and against what it promises.        *)
EXTENDS WatchManager, TLC
=============================================================================
