------------------------------ MODULE MCSyncRun ------------------------------
(* Instances of SyncRun for TLC: model values, command lines, fault kinds.  *)
EXTENDS SyncRun, TLC

CONSTANTS s1, s2, p1, p2, r1

\* Shards are interchangeable in every action of SyncRun.
ShardSymmetry == Permutations({s1, s2})

\* `--with-over --with-bm25` and the live-safe default without over.db.
TwoOpts == {[over |-> TRUE, bm25 |-> TRUE, tid |-> TRUE],
            [over |-> FALSE, bm25 |-> FALSE, tid |-> FALSE]}
FullOpts == {[over |-> TRUE, bm25 |-> TRUE, tid |-> TRUE]}
\* With and without the inline tid rebuild, which shares its tier with reindex.
TidOpts == [over : {FALSE}, bm25 : {FALSE}, tid : BOOLEAN]
OverOnly == {[over |-> TRUE, bm25 |-> FALSE, tid |-> FALSE]}

CrashOnly == {"crash"}
OverFault == {"over"}
\* The faults that end a shard or a process early.
ProcessFaults == {"fetch", "ingest", "crash"}
NoFaults == {}
AllFaults == {"fetch", "rewrite", "over", "ingest", "crash"}

==============================================================================
