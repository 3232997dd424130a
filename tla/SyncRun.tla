------------------------------- MODULE SyncRun -------------------------------
(***************************************************************************)
(* One data directory updated by `kernel-lore-sync` runs (bin/sync.rs,     *)
(* ingest.rs) and `kernel-lore-reindex` runs (bin/reindex.rs).             *)
(*                                                                         *)
(* A run fetches the upstream manifest, diffs it with the local cache,     *)
(* takes the writer lock, fetches the changed shard repositories, ingests  *)
(* them in parallel, commits BM25, optionally rebuilds the tid table,      *)
(* bumps the corpus generation, advances the tier markers and saves the    *)
(* manifest cache.  Any step may be the last one of its process.           *)
(*                                                                         *)
(* A shard is an append-only list of messages: message n of shard s is the *)
(* n-th commit of the public-inbox repository, a head is the number of the *)
(* newest commit, 0 stands for "no commit yet".  What a tier holds for a   *)
(* shard is a set of message numbers.                                      *)
(***************************************************************************)
EXTENDS Naturals, FiniteSets

CONSTANTS
    Shards,       \* shard repositories of the upstream manifest
    Procs,        \* processes that may run kernel-lore-sync
    Reindexers,   \* processes that may run kernel-lore-reindex
    NoProc,       \* the writer lock is free
    NoMarker,     \* a tier marker file that does not exist
    OptSet,       \* command lines: [over, bm25, tid : BOOLEAN]
    FaultKinds,   \* the faults the environment may inject
    MaxCommits,   \* bound: commits upstream pushes to one shard
    MaxRetries,   \* --max-retries
    MaxFaults     \* bound: injected faults in a behaviour

ASSUME ShardsAssumption == IsFiniteSet(Shards)
ASSUME ProcsAssumption  == NoProc \notin Procs \cup Reindexers
                           /\ Procs \cap Reindexers = {}
ASSUME MarkerAssumption == NoMarker \notin Nat
ASSUME OptsAssumption   == OptSet \subseteq [over : BOOLEAN, bm25 : BOOLEAN, tid : BOOLEAN]
                           /\ OptSet # {}
ASSUME BoundsAssumption == MaxCommits \in Nat /\ MaxRetries \in Nat /\ MaxFaults \in Nat

Tiers == {"over", "bm25", "trigram", "tid"}
NoOpts == [over |-> FALSE, bm25 |-> FALSE, tid |-> FALSE]
AllProcs == Procs \cup Reindexers

VARIABLES
    upstream,   \* [Shards -> Nat] head of each shard at lore.kernel.org
    \* -- durable state of the data directory
    repo,       \* [Shards -> Nat] head of the local bare clone
    oid,        \* [Shards -> Nat] state/shards/<list>/<shard>.oid
    parquet,    \* [Shards -> SUBSET Nat] rows of metadata/*.parquet
    tier,       \* [Tiers -> [Shards -> SUBSET Nat]] rows of each other tier
    generation, \* state/generation
    marker,     \* [Tiers -> Nat \cup {NoMarker}] state/<tier>.generation
    manifest,   \* [Shards -> Nat] state/manifest.json, 0 = no entry
    \* -- processes
    lock,       \* holder of state/writer.lock
    pc,         \* where each process is before it holds the lock
    remote,     \* [AllProcs -> [Shards -> Nat]] manifest fetched by a run
    local,      \* [AllProcs -> [Shards -> Nat]] manifest cache read by a run
    exit,       \* how the last run of a process ended
    \* -- the run that holds the lock
    phase, opts, ws, batch, attempt, overFailed, segment, pend,
    \* -- observers
    sealed,     \* [Shards -> SUBSET Nat] rows of the corpus at the last bump
    owed,       \* rows a tier was allowed to skip: see OwedRows
    faults      \* faults injected so far

upstreamVars == <<upstream, faults>>
durable  == <<repo, oid, parquet, tier, generation, marker, manifest>>
procVars == <<pc, remote, local, exit>>
runVars  == <<phase, opts, ws, batch, attempt, overFailed, segment, pend>>
ghosts   == <<sealed, owed>>
vars == <<upstreamVars, durable, lock, procVars, runVars, ghosts>>

------------------------------------------------------------------------------
(* State and helpers.                                                       *)

PerShard(v) == [s \in Shards |-> v]

\* The commits a walk of `head` visits with `lo - 1` hidden.
Span(lo, head) == lo .. head

Attempting == {"walk", "walked", "parquet", "over", "trigram"}
WorkStates == Attempting \cup {"out", "fetch", "unfetched", "ok", "failed"}
ReindexPhases == {"reindexTid", "markTid", "reindexBm25", "markBm25"}
Phases == {"none", "fetch", "ingest", "bm25", "tid", "bump", "markers",
           "save"} \cup ReindexPhases

\* What the tally of a run looks at.
Ingested(s) == ws[s] = "ok" /\ batch[s] # {}
CorpusChangedIfClean == ~(\E s \in Shards : ws[s] = "failed") /\ \E s \in Shards : Ingested(s)
CorpusChanged == \E s \in Shards : Ingested(s)
AnyOverFailed == \E s \in Shards : ws[s] = "ok" /\ overFailed[s]
AnyFailed == \E s \in Shards : ws[s] \in {"unfetched", "failed"}

Init ==
    /\ upstream = PerShard(1) /\ faults = 0
    /\ repo = PerShard(0) /\ oid = PerShard(0) /\ parquet = PerShard({})
    /\ tier = [t \in Tiers |-> PerShard({})]
    /\ generation = 0 /\ marker = [t \in Tiers |-> NoMarker]
    /\ manifest = PerShard(0)
    /\ lock = NoProc
    /\ pc = [p \in AllProcs |-> "idle"]
    /\ remote = [p \in AllProcs |-> PerShard(0)]
    /\ local = [p \in AllProcs |-> PerShard(0)]
    /\ exit = [p \in AllProcs |-> "none"]
    /\ phase = "none" /\ opts = NoOpts
    /\ ws = PerShard("out") /\ batch = PerShard({}) /\ attempt = PerShard(0)
    /\ overFailed = PerShard(FALSE) /\ segment = PerShard(FALSE)
    /\ pend = PerShard({})
    /\ sealed = PerShard({}) /\ owed = [t \in {"over", "bm25"} |-> PerShard({})]

Fault(kind) ==
    /\ kind \in FaultKinds /\ faults < MaxFaults
    /\ faults' = faults + 1

\* The end of a process: the kernel drops its flock, its memory is gone.
ReleaseRun(p, how) ==
    /\ lock' = NoProc /\ pc' = [pc EXCEPT ![p] = "idle"]
    /\ exit' = [exit EXCEPT ![p] = how]
    /\ remote' = [remote EXCEPT ![p] = PerShard(0)]
    /\ local' = [local EXCEPT ![p] = PerShard(0)]
    /\ phase' = "none" /\ opts' = NoOpts
    /\ ws' = PerShard("out") /\ batch' = PerShard({}) /\ attempt' = PerShard(0)
    /\ overFailed' = PerShard(FALSE) /\ segment' = PerShard(FALSE)
    /\ pend' = PerShard({})

------------------------------------------------------------------------------
(* Upstream.                                                                *)

\* A message arrives on a list: its shard gets one more commit.
UpstreamPush(s) ==
    /\ upstream[s] < MaxCommits
    /\ upstream' = [upstream EXCEPT ![s] = @ + 1]
    /\ UNCHANGED <<faults, durable, lock, procVars, runVars, ghosts>>

------------------------------------------------------------------------------
(* A sync run before it holds the writer lock.                              *)

\* Step 1: HTTP GET of the manifest.  (A failed GET exits 3 and changes
\* nothing, as if the run had not started.)
FetchManifest(p) ==
    /\ pc[p] = "idle"
    /\ pc' = [pc EXCEPT ![p] = "diff"]
    /\ remote' = [remote EXCEPT ![p] = upstream]
    /\ exit' = [exit EXCEPT ![p] = "none"]
    /\ UNCHANGED <<local, upstreamVars, durable, lock, runVars, ghosts>>

\* Step 2: read the cache and keep the shards whose fingerprint moved; a run
\* that finds none ends there.
DiffManifest(p) ==
    /\ pc[p] = "diff"
    /\ IF remote[p] = manifest
       THEN /\ pc' = [pc EXCEPT ![p] = "idle"]
            /\ exit' = [exit EXCEPT ![p] = "noop"]
            /\ remote' = [remote EXCEPT ![p] = PerShard(0)]
            /\ UNCHANGED local
       ELSE /\ pc' = [pc EXCEPT ![p] = "lock"]
            /\ local' = [local EXCEPT ![p] = manifest]
            /\ UNCHANGED <<exit, remote>>
    /\ UNCHANGED <<upstreamVars, durable, lock, runVars, ghosts>>

\* flock(LOCK_EX | LOCK_NB): one attempt, an error ends the run.
AcquireWriterLock(p) ==
    /\ pc[p] = "lock" /\ lock = NoProc
    /\ lock' = p /\ pc' = [pc EXCEPT ![p] = "run"]
    /\ phase' = "fetch"
    /\ opts' \in OptSet
    /\ ws' = [s \in Shards |-> IF remote[p][s] # local[p][s] THEN "fetch" ELSE "out"]
    /\ UNCHANGED <<batch, attempt, overFailed, segment, pend>>
    /\ UNCHANGED <<upstreamVars, durable, remote, local, exit, ghosts>>

RefusedWriterLock(p) ==
    /\ pc[p] = "lock" /\ lock # NoProc
    /\ pc' = [pc EXCEPT ![p] = "idle"]
    /\ exit' = [exit EXCEPT ![p] = "refused"]
    /\ remote' = [remote EXCEPT ![p] = PerShard(0)]
    /\ local' = [local EXCEPT ![p] = PerShard(0)]
    /\ UNCHANGED <<upstreamVars, durable, lock, runVars, ghosts>>

------------------------------------------------------------------------------
(* Fetch phase: every changed shard, in parallel.                           *)

\* Clone, fetch or reclone: the local repository catches up with upstream,
\* which may have moved since the manifest was read.
FetchShard(s) ==
    /\ phase = "fetch" /\ ws[s] = "fetch"
    /\ repo' = [repo EXCEPT ![s] = upstream[s]]
    /\ ws' = [ws EXCEPT ![s] = "walk"]
    /\ UNCHANGED <<phase, opts, batch, attempt, overFailed, segment, pend>>
    /\ UNCHANGED <<upstreamVars, oid, parquet, tier, generation, marker, manifest>>
    /\ UNCHANGED <<lock, procVars, ghosts>>

FetchFails(s) ==
    /\ phase = "fetch" /\ ws[s] = "fetch"
    /\ Fault("fetch")
    /\ ws' = [ws EXCEPT ![s] = "unfetched"]
    /\ UNCHANGED <<phase, opts, batch, attempt, overFailed, segment, pend>>
    /\ UNCHANGED <<upstream, durable, lock, procVars, ghosts>>

\* The barrier after the fetch phase; a run that fetched nothing exits 2.
FetchPhaseDone(p) ==
    /\ lock = p /\ phase = "fetch"
    /\ \A s \in Shards : ws[s] # "fetch"
    /\ IF \E s \in Shards : ws[s] = "walk"
       THEN /\ phase' = "ingest"
            /\ UNCHANGED <<lock, procVars, opts, ws, batch, attempt,
                           overFailed, segment, pend>>
       ELSE ReleaseRun(p, "partial")
    /\ UNCHANGED <<upstreamVars, durable, ghosts>>

------------------------------------------------------------------------------
(* Ingest phase: ingest_shard_with_bm25 for every fetched shard, in         *)
(* parallel, each with up to MaxRetries further attempts.                   *)

\* The walk from the head with the last indexed oid hidden, or the full walk
\* when that oid is no longer in the repository ("rewrite": upstream
\* rewrote the history).  It feeds the shared BM25 writer and appends to the
\* store.  A walk that finds nothing only saves the oid.
OffByOneResume(s) == oid[s] + 2
ResumePoint(s) == oid[s] + 1

WalkFrom(s, lo) ==
    LET found == Span(lo, repo[s])
    IN  /\ batch' = [batch EXCEPT ![s] = found]
        /\ oid' = [oid EXCEPT ![s] = IF found = {} THEN repo[s] ELSE @]
        /\ ws' = [ws EXCEPT ![s] = IF found = {} THEN "ok" ELSE "walked"]
        /\ pend' = [pend EXCEPT ![s] = IF opts.bm25 THEN @ \cup found ELSE @]

Walk(s) ==
    /\ phase = "ingest" /\ ws[s] = "walk"
    /\ \/ UNCHANGED faults /\ WalkFrom(s, ResumePoint(s))
       \/ Fault("rewrite") /\ WalkFrom(s, 1)
    /\ overFailed' = [overFailed EXCEPT ![s] = FALSE]
    /\ UNCHANGED <<upstream, repo, parquet, tier, generation, marker, manifest>>
    /\ UNCHANGED <<lock, procVars, phase, opts, attempt, segment, ghosts>>

\* The rows of the walk become one Parquet file of this run and shard, renamed
\* into place beside those of older runs and over its own of an earlier attempt.
\* Every attempt has the rows from the saved oid to the same head, and the rows before
\* it are in older files: the corpus is the union.
OverwrittenRows(s) == batch[s]
AddedRows(s) == parquet[s] \cup batch[s]

WriteParquet(s) ==
    /\ phase = "ingest" /\ ws[s] = "walked"
    /\ parquet' = [parquet EXCEPT ![s] = AddedRows(s)]
    /\ ws' = [ws EXCEPT ![s] = "parquet"]
    /\ UNCHANGED <<upstreamVars, repo, oid, tier, generation, marker, manifest>>
    /\ UNCHANGED <<lock, procVars, phase, opts, batch, attempt, overFailed,
                   segment, pend, ghosts>>

\* One SQLite transaction with the shard's rows.  A failure is recorded in
\* the statistics and does not fail the shard.
InsertOver(s) ==
    /\ phase = "ingest" /\ ws[s] = "parquet"
    /\ ws' = [ws EXCEPT ![s] = "over"]
    /\ \/ /\ ~opts.over
          /\ UNCHANGED <<tier, overFailed, faults>>
       \/ /\ opts.over
          /\ tier' = [tier EXCEPT !["over"][s] = @ \cup batch[s]]
          /\ UNCHANGED <<overFailed, faults>>
       \/ /\ opts.over /\ Fault("over")
          /\ overFailed' = [overFailed EXCEPT ![s] = TRUE]
          /\ UNCHANGED tier
    /\ UNCHANGED <<upstream, repo, oid, parquet, generation, marker, manifest>>
    /\ UNCHANGED <<lock, procVars, phase, opts, batch, attempt, segment, pend, ghosts>>

\* A failed attempt is retried from the walk; after the last one the shard
\* has failed.
NextAttempt(s) ==
    IF attempt[s] < MaxRetries
    THEN /\ ws' = [ws EXCEPT ![s] = "walk"]
         /\ attempt' = [attempt EXCEPT ![s] = @ + 1]
    ELSE /\ ws' = [ws EXCEPT ![s] = "failed"]
         /\ UNCHANGED attempt

\* The segment directory of this run is renamed into place, which the file
\* system refuses when an earlier attempt of the same run already did it.
FinalizeTrigram(s) ==
    /\ phase = "ingest" /\ ws[s] = "over"
    /\ IF segment[s]
       THEN /\ NextAttempt(s)
            /\ UNCHANGED <<tier, segment>>
       ELSE /\ tier' = [tier EXCEPT !["trigram"][s] = @ \cup batch[s]]
            /\ segment' = [segment EXCEPT ![s] = TRUE]
            /\ ws' = [ws EXCEPT ![s] = "trigram"]
            /\ UNCHANGED attempt
    /\ UNCHANGED <<upstreamVars, repo, oid, parquet, generation, marker, manifest>>
    /\ UNCHANGED <<lock, procVars, phase, opts, batch, overFailed, pend, ghosts>>

\* The oid file is replaced last, also when the over.db insert failed.
SaveOid(s) ==
    /\ phase = "ingest" /\ ws[s] = "trigram"
    /\ oid' = [oid EXCEPT ![s] = repo[s]]
    /\ ws' = [ws EXCEPT ![s] = "ok"]
    /\ owed' = [t \in {"over", "bm25"} |->
                  IF (t = "over" /\ (overFailed[s] \/ ~opts.over)) \/ (t = "bm25" /\ ~opts.bm25)
                  THEN [owed[t] EXCEPT ![s] = @ \cup batch[s]]
                  ELSE owed[t]]
    /\ UNCHANGED <<upstreamVars, repo, parquet, tier, generation, marker, manifest>>
    /\ UNCHANGED <<lock, procVars, phase, opts, batch, attempt, overFailed, segment, pend, sealed>>

\* An I/O or parse error anywhere in the attempt.
AttemptFails(s) ==
    /\ phase = "ingest" /\ ws[s] \in Attempting
    /\ Fault("ingest")
    /\ NextAttempt(s)
    /\ UNCHANGED <<upstream, durable, lock, procVars, phase, opts, batch,
                   overFailed, segment, pend, ghosts>>

IngestPhaseDone ==
    /\ phase = "ingest"
    /\ \A s \in Shards : ws[s] \in {"out", "unfetched", "ok", "failed"}
    /\ phase' = "bm25"
    /\ UNCHANGED <<upstreamVars, durable, lock, procVars, ghosts>>
    /\ UNCHANGED <<opts, ws, batch, attempt, overFailed, segment, pend>>

------------------------------------------------------------------------------
(* The tail of a run.                                                       *)

\* The shared BM25 writer commits once, the documents of failed shards too.
Bm25CommitsIfClean == opts.bm25 /\ ~AnyFailed
Bm25Commits == opts.bm25

CommitBm25 ==
    /\ phase = "bm25"
    /\ tier' = IF Bm25Commits
               THEN [tier EXCEPT !["bm25"] = [s \in Shards |-> @[s] \cup pend[s]]]
               ELSE tier
    /\ pend' = PerShard({})
    /\ phase' = "tid"
    /\ UNCHANGED <<upstreamVars, repo, oid, parquet, generation, marker, manifest>>
    /\ UNCHANGED <<lock, procVars, opts, ws, batch, attempt, overFailed, segment, ghosts>>

\* tid.parquet is rebuilt from every row of the metadata tier.
RebuildTid ==
    /\ phase = "tid"
    /\ tier' = IF opts.tid THEN [tier EXCEPT !["tid"] = parquet] ELSE tier
    /\ phase' = "bump"
    /\ UNCHANGED <<upstreamVars, repo, oid, parquet, generation, marker, manifest>>
    /\ UNCHANGED <<lock, procVars, opts, ws, batch, attempt, overFailed, segment, pend, ghosts>>

\* The generation moves, once, when a shard that succeeded ingested a message.
BumpPerShard == generation + Cardinality({s \in Shards : Ingested(s)})
NextGeneration == generation + 1

BumpGeneration ==
    /\ phase = "bump"
    /\ IF CorpusChanged
       THEN generation' = NextGeneration /\ sealed' = parquet
       ELSE UNCHANGED <<generation, sealed>>
    /\ phase' = "markers"
    /\ UNCHANGED <<upstreamVars, repo, oid, parquet, tier, marker, manifest, owed>>
    /\ UNCHANGED <<lock, procVars, opts, ws, batch, attempt, overFailed, segment, pend>>

\* Whether the run advances a tier's marker to the current generation.
TidMarkerUnasked(t) == CorpusChanged /\ (t = "over" => opts.over) /\ (t = "bm25" => opts.bm25)
MarkerDue(t) ==
    \/ t = "over" /\ CorpusChanged /\ opts.over /\ ~AnyOverFailed
    \/ t = "bm25" /\ CorpusChanged /\ opts.bm25
    \/ t = "trigram" /\ CorpusChanged
    \/ t = "tid" /\ opts.tid

\* The markers that precede `t` in the code are already written.
MarkerOrder == [over |-> 1, bm25 |-> 2, trigram |-> 3, tid |-> 4]
Pending(t) == MarkerDue(t) /\ marker[t] # generation

SetTierGeneration(t) ==
    /\ phase = "markers" /\ Pending(t)
    /\ \A u \in Tiers : Pending(u) => MarkerOrder[t] <= MarkerOrder[u]
    /\ marker' = [marker EXCEPT ![t] = generation]
    /\ UNCHANGED <<upstreamVars, repo, oid, parquet, tier, generation, manifest>>
    /\ UNCHANGED <<lock, procVars, runVars, ghosts>>

MarkersDone ==
    /\ phase = "markers" /\ \A t \in Tiers : ~Pending(t)
    /\ phase' = "save"
    /\ UNCHANGED <<upstreamVars, durable, lock, procVars, ghosts>>
    /\ UNCHANGED <<opts, ws, batch, attempt, overFailed, segment, pend>>

\* The cache read before the lock, with the entries of the shards that were
\* fetched and ingested, replaces the manifest cache; the run exits 0 or 2.
WholeRemote(p) == remote[p]
SavedManifest(p) == [s \in Shards |-> IF ws[s] = "ok" THEN remote[p][s] ELSE local[p][s]]

SaveManifest(p) ==
    /\ lock = p /\ phase = "save"
    /\ manifest' = SavedManifest(p)
    /\ ReleaseRun(p, IF AnyFailed \/ AnyOverFailed THEN "partial" ELSE "ok")
    /\ UNCHANGED <<upstreamVars, repo, oid, parquet, tier, generation, marker, ghosts>>

\* The process dies, or one of the tail's `?` operators ends it early.  The
\* documents of the BM25 writer that were not committed are lost.
Crash(p) ==
    /\ pc[p] # "idle"
    /\ Fault("crash")
    /\ IF lock = p
       THEN /\ ReleaseRun(p, "crashed")
            /\ owed' = [owed EXCEPT !["bm25"] = [s \in Shards |-> @[s] \cup pend[s]]]
       ELSE /\ pc' = [pc EXCEPT ![p] = "idle"]
            /\ exit' = [exit EXCEPT ![p] = "crashed"]
            /\ remote' = [remote EXCEPT ![p] = PerShard(0)]
            /\ local' = [local EXCEPT ![p] = PerShard(0)]
            /\ UNCHANGED <<lock, runVars, owed>>
    /\ UNCHANGED <<upstream, durable, sealed>>

------------------------------------------------------------------------------
(* kernel-lore-reindex: derived tiers from the local corpus.                *)

StartReindex(p) ==
    /\ pc[p] = "idle" /\ lock = NoProc
    /\ lock' = p /\ pc' = [pc EXCEPT ![p] = "run"]
    /\ exit' = [exit EXCEPT ![p] = "none"]
    /\ phase' \in {"reindexTid", "reindexBm25"}
    /\ UNCHANGED <<remote, local, opts, ws, batch, attempt, overFailed, segment, pend>>
    /\ UNCHANGED <<upstreamVars, durable, ghosts>>

\* Rebuild a tier, then move its marker to the generation read under the
\* lock, then go on with the next tier or stop (`--tier` or `--all`).
ReindexTid(p) ==
    /\ lock = p /\ phase = "reindexTid"
    /\ tier' = [tier EXCEPT !["tid"] = parquet]
    /\ phase' = "markTid"
    /\ UNCHANGED <<upstreamVars, repo, oid, parquet, generation, marker, manifest, ghosts>>
    /\ UNCHANGED <<lock, procVars, opts, ws, batch, attempt, overFailed, segment, pend>>

MarkTid(p) ==
    /\ lock = p /\ phase = "markTid"
    /\ marker' = [marker EXCEPT !["tid"] = generation]
    /\ \/ /\ phase' = "reindexBm25"
          /\ UNCHANGED <<lock, procVars, opts, ws, batch, attempt, overFailed, segment, pend>>
       \/ ReleaseRun(p, "ok")
    /\ UNCHANGED <<upstreamVars, repo, oid, parquet, tier, generation, manifest, ghosts>>

\* rebuild_bm25 deletes every document, adds the corpus again and commits.
ReindexBm25(p) ==
    /\ lock = p /\ phase = "reindexBm25"
    /\ tier' = [tier EXCEPT !["bm25"] = parquet]
    /\ phase' = "markBm25"
    /\ UNCHANGED <<upstreamVars, repo, oid, parquet, generation, marker, manifest, ghosts>>
    /\ UNCHANGED <<lock, procVars, opts, ws, batch, attempt, overFailed, segment, pend>>

MarkBm25(p) ==
    /\ lock = p /\ phase = "markBm25"
    /\ marker' = [marker EXCEPT !["bm25"] = generation]
    /\ ReleaseRun(p, "ok")
    /\ UNCHANGED <<upstreamVars, repo, oid, parquet, tier, generation, manifest, ghosts>>

------------------------------------------------------------------------------
(* The specification.                                                       *)

SyncStart(p) == FetchManifest(p) \/ DiffManifest(p) \/ AcquireWriterLock(p)
                \/ RefusedWriterLock(p)
IngestStep(s) == Walk(s) \/ WriteParquet(s) \/ InsertOver(s)
                 \/ FinalizeTrigram(s) \/ SaveOid(s)
SyncTail(p) == IngestPhaseDone \/ CommitBm25 \/ RebuildTid \/ BumpGeneration
               \/ (\E t \in Tiers : SetTierGeneration(t)) \/ MarkersDone
               \/ SaveManifest(p)
ReindexStep(p) == ReindexTid(p) \/ MarkTid(p) \/ ReindexBm25(p) \/ MarkBm25(p)
Faulty == \/ \E s \in Shards : FetchFails(s) \/ AttemptFails(s)
          \/ \E p \in AllProcs : Crash(p)

RunStep ==
    \/ \E s \in Shards : FetchShard(s) \/ IngestStep(s)
    \/ \E p \in Procs : FetchPhaseDone(p) \/ SyncTail(p)
    \/ \E p \in Reindexers : ReindexStep(p)

Next ==
    \/ \E s \in Shards : UpstreamPush(s)
    \/ \E p \in Procs : SyncStart(p)
    \/ \E p \in Reindexers : StartReindex(p)
    \/ RunStep
    \/ Faulty

Spec == Init /\ [][Next]_vars

\* klmcp-sync.timer starts runs again and again, and a run that holds the
\* lock is scheduled.  Nothing forces a message to arrive, a reindex to be
\* started or a fault to happen.
Fairness == /\ \A p \in Procs : WF_vars(SyncStart(p))
            /\ WF_vars(RunStep)

FairSpec == Spec /\ Fairness

------------------------------------------------------------------------------
(* Properties.                                                              *)

ShardSets == [Shards -> SUBSET Nat]
ShardNats == [Shards -> Nat]

\* Every variable has its type.
TypeOK ==
    /\ upstream \in ShardNats /\ faults \in Nat
    /\ repo \in ShardNats /\ oid \in ShardNats /\ manifest \in ShardNats
    /\ parquet \in ShardSets /\ tier \in [Tiers -> ShardSets]
    /\ generation \in Nat /\ marker \in [Tiers -> Nat \cup {NoMarker}]
    /\ lock \in AllProcs \cup {NoProc}
    /\ pc \in [AllProcs -> {"idle", "diff", "lock", "run"}]
    /\ remote \in [AllProcs -> ShardNats] /\ local \in [AllProcs -> ShardNats]
    /\ exit \in [AllProcs -> {"none", "noop", "refused", "partial", "ok", "crashed"}]
    /\ phase \in Phases
    /\ opts \in [over : BOOLEAN, bm25 : BOOLEAN, tid : BOOLEAN]
    /\ ws \in [Shards -> WorkStates] /\ batch \in ShardSets
    /\ attempt \in ShardNats /\ overFailed \in [Shards -> BOOLEAN]
    /\ segment \in [Shards -> BOOLEAN] /\ pend \in ShardSets
    /\ sealed \in ShardSets /\ owed \in [{"over", "bm25"} -> ShardSets]

\* Resuming after the saved oid skips nothing: whatever the interleaving of
\* shards, retries, crashes and restarts, every message up to a shard's oid
\* file has its Parquet row and its trigram segment (ingest.rs, the order of
\* write_parquet, finalize and save_last_indexed_oid).
OidCovered ==
    \A s \in Shards : Span(1, oid[s]) \subseteq parquet[s] \cap tier["trigram"][s]

\* A manifest entry is a promise that the shard need not be fetched again:
\* the shard has been ingested at least up to that fingerprint, also when
\* the run that saved it had read the cache and the manifest before another
\* run finished (bin/sync.rs, the successful_paths overlay).
ManifestCovered == \A s \in Shards : manifest[s] <= oid[s]

\* The rows below a shard's oid that over.db or the BM25 index lack are the
\* ones the code knowingly leaves out: a run without that tier, a failed
\* over.db insert, or BM25 documents that died with the process before the
\* shared commit.
DerivedHolesOwed ==
    \A s \in Shards :
        /\ Span(1, oid[s]) \subseteq tier["over"][s] \cup owed["over"][s]
        /\ Span(1, oid[s]) \subseteq tier["bm25"][s] \cup owed["bm25"][s] \cup pend[s]

\* A current tid marker means tid.parquet knows every message of the corpus
\* the generation announced, whichever of sync and reindex wrote it.
TidMarkerHonest ==
    marker["tid"] = generation =>
        \A s \in Shards : sealed[s] \subseteq tier["tid"][s]

\* A run that reaches its end has announced what it ingested: past the bump,
\* the rows of every shard that succeeded are in the sealed corpus.
FinishedRunPublished ==
    phase \in {"markers", "save"} =>
        \A s \in Shards : ws[s] = "ok" => batch[s] \subseteq sealed[s]

\* Nothing a reader may have seen is taken back: oids and the generation
\* never decrease, rows never disappear from the metadata tier.
DurableProgress ==
    [][ /\ generation' >= generation
        /\ \A s \in Shards : oid'[s] >= oid[s] /\ parquet[s] \subseteq parquet'[s] ]_vars

\* Once faults, mail and reindex runs stop, every shard is ingested to its
\* upstream head and the manifest cache says so: a failed, refused or killed
\* run is made up for by a later one.
CaughtUp == \A s \in Shards : oid[s] = upstream[s] /\ manifest[s] = upstream[s]
EventuallyCaughtUp == <>[](lock \notin Reindexers) => <>[]CaughtUp

------------------------------------------------------------------------------
(* The promise SyncRun implements: a row is held once both the metadata     *)
(* tier and the trigram tier have it.                                       *)

Corpus == INSTANCE Watermark WITH
    held     <- [s \in Shards |-> parquet[s] \cap tier["trigram"][s]],
    done     <- oid,
    promised <- manifest,
    epoch    <- generation

CorpusSpec == Corpus!Spec

------------------------------------------------------------------------------
(* The inductive invariant.                                                 *)

\* The run variables belong to the holder of the lock.
LockInv ==
    /\ \A p \in AllProcs : pc[p] = "run" <=> lock = p
    /\ lock = NoProc <=> phase = "none"
    /\ phase \in {"none"} \cup ReindexPhases =>
          \A s \in Shards : ws[s] = "out"
    /\ phase = "fetch" => \A s \in Shards : ws[s] \in {"out", "fetch", "walk", "unfetched"}
    /\ \A s \in Shards : ws[s] = "fetch" => phase = "fetch"
    /\ phase \notin {"ingest", "bm25"} => \A s \in Shards : pend[s] = {}

\* Heads only move forward: an oid is behind the clone, a clone behind
\* upstream, a manifest behind the clone it was fetched for.
HeadInv ==
    /\ \A s \in Shards : oid[s] <= repo[s] /\ repo[s] <= upstream[s]
    /\ \A p \in AllProcs, s \in Shards :
          /\ remote[p][s] <= upstream[s]
          /\ local[p][s] <= oid[s]
          /\ lock = p /\ ws[s] \notin {"out", "fetch", "unfetched"} => remote[p][s] <= repo[s]

\* What a worker has done so far covers the gap between oid and clone.
WorkInv ==
    \A s \in Shards :
        /\ ws[s] \in {"walked", "parquet", "over", "trigram"} =>
              Span(oid[s] + 1, repo[s]) \subseteq batch[s]
        /\ ws[s] \in {"parquet", "over", "trigram"} => batch[s] \subseteq parquet[s]
        /\ ws[s] = "trigram" => batch[s] \subseteq tier["trigram"][s]
        /\ ws[s] = "ok" => oid[s] = repo[s]

\* The same for the two tiers a run may leave behind.
DerivedInv ==
    \A s \in Shards :
        /\ ws[s] \in {"over", "trigram"} /\ opts.over /\ ~overFailed[s] =>
              batch[s] \subseteq tier["over"][s]
        /\ ws[s] \in {"walked", "parquet", "over", "trigram"} /\ opts.bm25 =>
              batch[s] \subseteq pend[s]
        /\ ws[s] \in {"walked", "parquet", "over", "trigram"} => phase = "ingest"
        /\ ~opts.bm25 => pend[s] = {}

\* What a generation announces: the sealed corpus is part of the metadata
\* tier, and so is what a worker that succeeded ingested.
SealInv ==
    /\ \A s \in Shards : sealed[s] \subseteq parquet[s]
    /\ \A s \in Shards : ws[s] = "ok" => batch[s] \subseteq parquet[s]
    /\ FinishedRunPublished

\* The rows the tid table must have before its marker is moved.
TidKnows(rows) == \A s \in Shards : rows[s] \subseteq tier["tid"][s]

\* No marker is ahead of the generation; between a rebuild of the tid table
\* and its marker the corpus does not outgrow the table.
MarkInv ==
    /\ marker["tid"] \in Nat => marker["tid"] <= generation
    /\ TidMarkerHonest
    /\ phase = "bump" /\ opts.tid => TidKnows(parquet)
    /\ phase = "markers" /\ opts.tid => TidKnows(sealed)
    /\ phase = "markTid" => TidKnows(sealed)

IInv == /\ TypeOK /\ LockInv /\ HeadInv /\ WorkInv /\ DerivedInv
        /\ OidCovered /\ ManifestCovered /\ DerivedHolesOwed
        /\ SealInv /\ MarkInv

------------------------------------------------------------------------------
(* What the repository says of the program and the code does not do.        *)

\* bin/sync.rs:16 "Bump generation once iff the raw corpus changed": after a
\* run that ended well the generation accounts for the whole corpus.
GenerationReflectsCorpus ==
    (lock = NoProc /\ \E p \in Procs : exit[p] \in {"ok", "noop"}) => parquet = sealed

\* ingest.rs:311 "will be reconciled on next ingest via INSERT OR REPLACE":
\* when the over marker has caught up with the corpus, over.db has the rows.
OverReconciled ==
    (lock = NoProc /\ marker["over"] = generation) =>
        \A s \in Shards : Span(1, oid[s]) \subseteq tier["over"][s]

==============================================================================
