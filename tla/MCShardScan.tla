---------------------------- MODULE MCShardScan ----------------------------
(* Small instances of ShardScan.  One unit of time is 30 seconds.          *)
EXTENDS ShardScan

\* Two items share the first shard.
MCShardOf == [i \in Items |-> IF i = "c" THEN 1 ELSE 0]

\* "a" and "c" are 30 s items with source timestamps; "b" has the scrape's.
MCDelay == [i \in Items |-> IF i = "b" THEN 3 ELSE 1]

\* The second shard's item is inserted once.
MCMaxSequence == [h \in 0 .. NumShards - 1 |-> IF h = 0 THEN 3 ELSE 1]
=============================================================================
