--------------------------- MODULE MCDuplicateCache ---------------------------
(***************************************************************************)
(* The duplicate filter alone.  duplicate_cache.cfg gives it one key more  *)
(* than the cache has entries, and sessions long enough for every key to   *)
(* be admitted, refreshed, evicted and met again.                          *)
(***************************************************************************)
EXTENDS DuplicateCache
=============================================================================
