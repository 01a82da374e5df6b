-------------------------- MODULE MCResponseCache --------------------------
(* Two threads, four keys, room for two entries, a time to live of one       *)
(* moment: entries expire while a thread waits for its query, the cache is   *)
(* full with two keys left, and both threads can evict at once.              *)
EXTENDS ResponseCache, TLC

CONSTANTS t1, t2, k1, k2, k3, k4, none

MCThreads == {t1, t2}
MCKeys == {k1, k2, k3, k4}
MCNoKey == none
MCTimeToLive == 1
MCMaximumEntries == 2
MCMaxClock == 2

Interchangeable == Permutations(MCThreads) \cup Permutations(MCKeys)
=============================================================================
