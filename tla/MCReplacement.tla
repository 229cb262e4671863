---------------------------- MODULE MCReplacement ----------------------------
(* Caches for TLC.                                                         *)
EXTENDS ReplacementReversal

Cache(policy, ways) == [policy |-> policy, ways |-> ways]
SmallCaches == {Cache("FIFO", 3), Cache("LRU", 3), Cache("PLRU", 4)}
=============================================================================
