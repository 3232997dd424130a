# TLA+ models of kernel-lore-mcp

kernel-lore-mcp mirrors the public-inbox repositories of lore.kernel.org,
ingests them into a set of index tiers under one data directory, and serves
searches over them to MCP clients. This directory holds TLA+ models of its
write path, of the metadata index and its maintenance, of the queries and the
search that read it, of the thread index, and of the two mechanisms that couple
serving processes to the write path; the TLC configurations that check them on
small instances; and TLAPS proofs of their main properties for every instance. Paths below are relative to the
repository's `src/` directory, which holds both the Rust and the Python code.

## The system

### Components

| Component | Source | State | Operations |
|---|---|---|---|
| durable state | `state.rs` | `state/shards/<list>/<shard>.oid`, `state/generation`, `state/<tier>.generation`, `state/writer.lock` | read, atomic replace, bump, flock |
| sync pipeline | `bin/sync.rs`, `sync.rs` | `state/manifest.json`, bare clones, memory of a run | manifest GET, diff, lock, parallel fetch, parallel ingest with retries, BM25 commit, tid rebuild, bump, markers, manifest save |
| shard ingest | `ingest.rs`, `metadata.rs` | Parquet files, rows buffered for one shard | walk from the last oid, write Parquet, insert into over.db, finalize the trigram segment, save the oid |
| compressed store | `store.rs` | `segment-NNNNNN.zst`, the writer's id and cached position | open, append, roll, flush, read at an offset |
| over.db | `over.rs`, `python.rs` | the table of rows, seven indexed columns and side tables, two completeness markers | insert batch, six backfills, dating of side tables, migration, update tids, indexed SELECTs |
| over.db builder | `bin/build_over.rs` | a file beside the live one | scan Parquet, rename over the live file |
| BM25, trigram, tid, path vocabulary | `bm25.rs`, `trigram.rs`, `tid.rs`, `path_tier.rs` | index files | add, commit, finalize, rebuild |
| offline writers | `bin/reindex.rs`, `bin/ingest.rs`, `bin/doctor.rs` | the same tiers | rebuild a tier, bulk ingest, remove broken clones |
| reader | `reader.rs`, `reader_cache.py` | open handles, generation seen | point lookups, indexed queries, walks over Parquet, hydration of candidates |
| router, lore_search | `router.rs`, `tools/search.py`, `cursor.py` | a signed cursor at the client | parse, three tiers, rank fusion, filters, pages |
| sync status and shedding | `bin/sync.rs`, `health.py`, `routes/status.py` | `state/sync.json`, `state/writer.lock` | report stage, heartbeat, probe, shed |
| tool admission | `cost_class.py`, `timeout.py`, `timeout.rs` | semaphores, thread pool, cancel tokens | admit, reject, run, time out, cancel |
| other MCP tools, prompts, resources | `server.py`, `tools/`, ... | none of their own, but for the cursor key | request handlers over the reader |

### How they interact

A run of `kernel-lore-sync` is a process. It holds `writer.lock` from the fetch
phase to its end; the manifest and its cache are read before. Inside a run the
shards are ingested by parallel workers that share one segment writer per list,
one BM25 writer and one over.db connection. The tiers of a shard are written in
a fixed order and its oid file last; the shared tail (BM25 commit, tid, bump,
markers, manifest) runs once. `kernel-lore-reindex` takes the same lock and
rebuilds derived tiers. Serving processes are others: they read the tiers,
decide by generation and markers which to trust, and learn of a running sync
from `sync.json` and by probing the lock.

### What is hard, and what would make it correct

* **Partial failure and crashes of a run.** Ten durable writes in sequence,
  several shards interleaved, any of them the last of its process. Resuming
  after the saved oid must skip nothing; the manifest cache must not promise a
  shard that was not ingested; what a derived tier lacks must be what the code
  knowingly left out; whatever failed must be made up for by a later run.
* **The announcement.** The generation must follow the tiers, once per run.
* **Files without a database.** The segment writer relies on a cached position
  and on the order of `sync_all` and of the metadata commit.
* **Two processes and two files.** The probe of the lock is itself a lock; the
  status file is removed and the lock released in an order that only the drop
  order of two variables gives.
* **An index rebuilt beside its readers.** Thread ids reach over.db in chunks,
  before and after the side table is renamed, and a thread is answered by two
  SELECTs in which an ingest or a rebuild may fall.
* **Timeouts over code that cannot be interrupted.** A permit is returned while
  the native call still runs.
* **An index that is older than the code.** Rows of an earlier release lack
  side-table entries until a backfill has walked them; walks go by a rowid
  cursor in separate transactions, die in between, meet rows that a later
  ingest replaced, and must not delete what another backfill wrote. A marker
  tells readers when they may trust the result. The builder swaps the whole
  file under whoever has it open.
* **Two stores, several paths.** The same query is answered by a SELECT, by a
  side table or by a walk over Parquet; the paths treat cross-posts, undated
  rows and limits differently, and some queries filter after the limit.
* **Pages without state.** Each page of a search ranks the corpus again and
  continues from a score and a message-id.

`PROJECT.json` lists these hazards at their lines with the properties that
cover them; where a property covers a part of one, or none does, its note says so.

## The modules

Names follow the source where TLA+ allows it. Where a definition is one that is
easily got wrong, a small variant that gets it wrong stands just above it
(`OffByOneResume` above `ResumePoint`, `ReleasedFirst` above `EndSteps`). The
variants are not used by any specification; put in the place of the definition
below them they show that the properties notice.

### SyncRun

One data directory, any number of sync and reindex processes. A shard is an
append-only list of messages: message *n* is its *n*-th commit, a head is a
number, a tier holds a set of numbers per shard.

| State | Code |
|---|---|
| `upstream`, `repo` | head at lore.kernel.org, head of the local clone |
| `oid`, `generation`, `marker` | the files of `state.rs` |
| `parquet`, `tier["over"]`, ... | rows each tier holds |
| `manifest`, `remote`, `local` | `state/manifest.json`; the manifest a run fetched; the cache it read |
| `lock`, `pc`, `exit` | `WriterLock`; where a process is before it holds it; exit status |
| `phase`, `opts`, `ws`, `batch`, `attempt`, `overFailed`, `segment`, `pend` | locals of `main` and `ingest_shard_with_bm25` of the run that holds the lock; `pend` is the uncommitted BM25 writer |
| `sealed`, `owed`, `faults` | observers: corpus at the last bump, rows a tier was allowed to skip, faults so far |

Actions, in the order of the code: `FetchManifest`, `DiffManifest`,
`AcquireWriterLock` / `RefusedWriterLock`, then per shard `FetchShard` /
`FetchFails`, `Walk`, `WriteParquet`, `InsertOver`, `FinalizeTrigram`,
`SaveOid`, `AttemptFails`, and for the run `FetchPhaseDone`, `IngestPhaseDone`,
`CommitBm25`, `RebuildTid`, `BumpGeneration`, `SetTierGeneration`,
`MarkersDone`, `SaveManifest`. `Crash` ends a process between any two of them;
the early returns by `?` of the tail are the same step. `StartReindex`,
`ReindexTid`, `MarkTid`, `ReindexBm25`, `MarkBm25` are `bin/reindex.rs`.

Abstracted: message contents (a tier either has a row or not), messages the
walk skips, include and exclude filters, the path vocabulary (a fifth tier with
the discipline of tid). A walk of rewritten history is a walk of everything.
Two assumptions about the world: a fetch brings at least what the manifest
announced, and renames survive a killed process in the order they were made. The
second speaks of processes, not of the machine: oid files, generation and markers
are synced before their rename (`state.rs:189`), but Parquet files
(`metadata.rs:299`), trigram segments, tid and path tables, the manifest cache
(`sync.rs:174`) and `sync.json` (`bin/sync.rs:1267`) are not, so a power loss that
keeps an oid file and loses the Parquet file before it is not modelled. Power
losses are faults of `SegmentStore` only, whose segments are synced
(`store.rs:181`). A retry renames its Parquet file over that of the same run and
shard (`metadata.rs:281`); it has the rows from the saved oid on again, so
`WriteParquet` adds rows and takes none away.

### Watermark

The abstract promise, without processes, phases, tiers or locks: rows become
readable, a per-shard watermark moves only over readable rows, a "nothing new"
promise never exceeds the watermark, the epoch moves by one. `SyncRun`
implements it with `held` := rows in both the metadata and the trigram tier,
`done` := `oid`, `promised` := `manifest`, `epoch` := `generation`.

### SegmentStore

The store of one list, its shards appending in parallel through one writer.
Offsets are counted in cells, a frame is `FrameCells` cells, so that a torn
write is a proper prefix. `disk` is what the page cache has, `synced` what
`sync_all` reached. `AppendFrame` includes the roll that precedes it in the
code. Faults: an attempt that fails elsewhere, a roll that fails after the id
moved, a kill in the middle of a write, a power loss that keeps any length
between `synced` and `disk`, and (in a run of its own) a write that fails half
way in a process that goes on. Assumed: creating a segment and syncing it
makes its directory entry durable. The messages of every run are the same
walk, as after a run that did not save its oid.

### SyncStatus

`sync.json` and the lock probe. A run reports stages and heartbeats, ends by
removing the file and then releasing the lock, or is killed and leaves the file.
An admission check reads existence (`BeginCall`), probes the lock (`ProbeLock`,
`UnlockProbe`) and reads the file (`ReadStatus`); the status document starts
with the probe (`BeginStatus`). Time is counted in heartbeat intervals; a live
run writes within `BeatEvery` of them, since the heartbeat thread is scheduled
and the stages without one only write small files.

### ToolAdmission

Permits of a cost class, the thread pool of `asyncio.to_thread`, the wall-clock
cap and the cancel token. Semaphore and pool are CPython's, modelled by what the
code relies on. A native call is one entry into the reader; it returns, or ends
at a check of its token, or runs on.

### ThreadIndex

Messages, the headers they carry, and their thread ids. `mail` is the mailbox of
a behaviour and never changes; `parquet` is the deduplicated sequence a scan
visits; `over` is the tid column, `sidetable` is `tid.parquet`, `rebuild` the
locals of `tid::rebuild`, `call` one call of `Reader::thread`.

| Action | Code |
|---|---|
| `Ingest` | a shard's Parquet row and its insert into over.db, which may fail and which resets the tid |
| `StartRebuild` | the scan, `assign_tids` and the propagation to cover letters |
| `UpdateChunk`, `Publish`, `TailChunk` | full chunks to over.db, the rename of the side table, the rest |
| `CrashRebuild` | a rebuild that is killed or returns an error |
| `FetchSeed`, `SelectThread` | the two SELECTs of the fast path |
| `WalkStep`, `WalkDone` | the breadth-first walk, one scan per step |

`Plan` and the operators below it are `assign_tids` and `resolve_tid_lite` as
functions of the rows. List, normalized subject and sender are one value
(`topic`), the files of a message are the message, References is its first
entry (the one the root search uses; the walk uses all of them). Cross-posts,
which give one message several rows of over.db, are not modelled. Writers
exclude each other by the lock of `SyncRun`; each ingest is a file of its own.

### OverTier

over.db under everything that writes it. A row is a key (message-id and list)
with a rowid, the parser version that produced it and whether its payload
carries To: and Cc:; a side table or indexed column is a set of entries
`[key, ver, dated]`.

| State | Code |
|---|---|
| `parquet` | the metadata files the builder reads |
| `exists`, `rows`, `lastId` | the file, the table `over`, its AUTOINCREMENT |
| `side` | `subject_normalized`, the kinds `from`, `trailer`, `env` of `over_involvement`, `over_trailer_ref`, `over_touched_file`, `over_touched_function` |
| `mails` | the legacy table `over_trailer_email` |
| `meta` | `touched_function_index_state`, `trailer_ref_index_state` |
| `job`, `jobs` | the program that holds `writer.lock`: what it does, where, its cursor, and whether its file was replaced under it; how many there have been |
| `build` | the files a running builder listed |

| Action | Code |
|---|---|
| `StartIngest`, `StartMaintenance`, `MarkCreated`, `Begin` | lock, `OverDb::open`, the markers of a new file, a backfill's announcement |
| `WriteParquet`, `InsertBatch` | a shard's Parquet file and its one transaction of rows and side tables |
| `SubjectsChunk`, `EmailsChunk`, `EnvelopesChunk`, `RefsChunk`, `FilesChunk`, `FunctionsChunk`, `BackfillDone` | the backfills, a transaction per chunk |
| `DatesChunk`, `DatesTableDone` | `backfill_side_table_dates` |
| `MigrateMails`, `MigrateFrom`, `MigrateDrop` | `migrate_to_involvement_schema` |
| `BuildStart`, `BuildPublish`, `BuildCrash`, `EndOnOrphan` | `kernel-lore-build-over`, which takes no lock, and a job that goes on writing to the file it replaced |
| `Crash` | a job killed between two transactions, or one whose transaction fails |

A new file gets its two markers in two transactions (`MarkCreated` twice), and a job
that dies between them leaves a file with one. `BuildPublish` is a clean swap: the
code renames the main file only (`build_over.rs:142`), and what SQLite makes of an
`over.db-wal` or `-shm` that a job with the old file open has left beside the new one
(`over.rs:382` sets WAL) is not modelled.
Transactions are SQLite's and atomic. The DELETE and INSERT of a side table are
one operator (`Rewritten`). What the parser finds in a message is not modelled:
each row yields one entry per family, so a missing, stale or doubled entry shows.

### ReaderQueries

One action per query of the reader; an answer is one of the sets of rows the
code may return. A message has a date (or none) and the facts that hold of it;
a file is a sequence of rows; `over` is the set of rows that reached over.db and
`entered` those that the current release wrote, with every column and side-table
entry. An ingest may write cross-posts or lose its insert into over.db. The first one
may be of an older release: opening its file gives it empty tables and columns of
NULL (`over.rs:525`, `over.rs:549`), so the normalized subject and all four side
tables lack its rows until a backfill. Two of these indexes, functions and
references, have a marker (`indexed`) and are not asked while it is not set; subjects,
trailer addresses and touched files are asked regardless (`Unguarded`). The backfills
themselves are in `OverTier`; here an over.db stays as it was opened.
A regex on bodies looks each message up as `fetch_body` does.
`Walk` is the walk with its deduplication by message-id, `Walked` its rows; `ScanEq` and the `By...`
operators are the SELECTs, with NULL dates outside what they find and ties in
any order. Trigram candidates are any superset of the matches, and the rank of
a text match is a parameter (tantivy's).

### Search

Extends `ReaderQueries` with the router and the pages of `lore_search`: `Tiers` is
what `MetadataTier`, `TrigramTier` and `BM25Tier` may answer, `Dispatch` what the
router makes of it (`Fused`, then `PostFilter` and the budget), and a client turns
pages with the cursor while ingest may move the corpus.

Scores are what the code computes: `Contribution` and `Rounded` are the division and
the addition of f32, as integers of unit 2^-30 with 24 bits and ties to even (exact
here, since every sum stays below 1/8). `rrf_merge` walks the tiers in the order of a
`HashMap` that is new for every call: `Met` is that walk for an order out of `Orders`,
and it decides which row of a message is kept (`Hits`) and in which order its
contributions are added (`Score`). Of a session, `served` and `found` are the
messages of its pages and of the last dispatch; three fields observe what the code
does not know: `steady`, that the tiers answered every page alike, `tied`, that
scores were equal or that the order of the map decided on a row or a score
(`Ambiguous`), and `moved`, that ingest came between two pages.

### Rows

Two operators on sequences of rows that the walks of `ThreadIndex`,
`ReaderQueries` and `Search` share: `Select` (what a scan's filter keeps, in
order) and `FirstN` (where a limit stops it). They are recursive functions and
subsequences, so that `RowsProofs` can prove what they return.

## What TLC checks

Bounds are constants of the modules, named in the `.cfg` files.

| Run | Instance | Shows |
|---|---|---|
| `sync_shards` | 2 shards, 1 process, 2 commits per shard, 1 retry, 2 faults of any kind, over/bm25/tid all on or all off | the inductive invariant `IInv`, of which `TypeOK` is a part, `OidCovered`, `DerivedHolesOwed`, `FinishedRunPublished`, `DurableProgress`, and that the run implements `Watermark` |
| `sync_procs` | 1 shard, 2 sync processes, 1 reindex, 2 commits, 1 retry, 1 fault | `ManifestCovered` with manifests read before the lock, `TidMarkerHonest`, `EventuallyCaughtUp` |
| `store_crash` | 2 workers, 2 frames of 2 cells each, a roll every 3 cells, 1 retry, 2 faults, 2 runs | `TypeOK`, `RowsReadable`, `RowsDurable`, `PositionHonest` |
| `status` | 2 runs, 1 other writer, 2 callers, staleness at 2 heartbeats | `StatusOwned`, `HeavyStageSheds`, the inductive invariant `IInv`, `LeftoverExpires` |
| `tools` | 1 cheap and 3 moderate calls, 2 moderate permits, 2 threads | `TypeOK`, `PermitsConserved`, `NoOrphanUntold`, `EveryCallAnswered`, `ThreadsComeBack` |
| `threads` | 3 messages, 54 mailboxes (replies, a cycle, lost parents, one subject or none, a missing date), with and without over.db, 3 ingests, chunks of 2 rows, a limit of 4 rows, 1 fault | `TypeOK`, `RebuildSettles`, `NoStrangers`, `RepliesTogether`, `WalkIsWhole` |
| `over_tier` | 2 messages (one undated), 2 lists, no file or one of an older release with a cross-post, chunks of 1 row, windows of 2 rowids, 3 jobs, 3 Parquet files | `SideTablesFresh`, `TrustedIndexWhole`, `NoTrailerLost`, `EnvelopesKept`, `BackfillEnds` |
| `search` | 2 messages of 3 contents, 2 lists, 2 files of 1 or 2 rows, limits 1 and 3, an over-fetch of 2, pages of 1 hit in the detailed format, 8 queries of which three ask two tiers or more | `TypeOK`, `FiltersHonoured`, `NewestKept`, `NothingElseMissed`, `ProfileLimitTold`, `HitsHonourFilters`, `PagesWhole`, `CursorAdvances` |

Why these are enough to be interesting: two shards give every interleaving of
two workers and a run in which one fails and the other does not; two commits
give a resume that is neither empty nor complete; two faults give a failed
attempt of a run that is then killed, and a fault in the run that repairs one.
Two sync processes are needed for a stale manifest, and a third actor for a tid
marker. A frame of two cells can be torn; a roll every three cells happens in
the middle of each worker's walk, so a worker's frames lie in two segments.
Two callers are needed for probes that meet. Three calls over two permits need
a hand-over. Three messages give a chain with a middle, a cycle with a reply to
it, and two versions of a series with a reply; a chunk of two rows makes a
rebuild of three flush before and after the rename, and of two only before; a
limit of four is met by the walk, which may collect a row twice.

`store_crash` stops when its runs are used up (`MaxRuns`), `over_tier` when its
jobs are (`MaxJobs`), and an answered query of `search` is the end of its
behaviour, so these do not check deadlock; the others do. Pages of one hit are the
smallest that make a client turn them, and with two messages the cursor always
stands at a hit that has a neighbour. The sum of two contributions does not depend
on their order, so `search` has no score that does; `search_overlap.cfg`, an
instance of `MCSearch` beside the runs, has one, with three messages that three
tiers rank differently.

### Disagreements between code and documentation

Each is a run that TLC ends with a counterexample.

* `sync_over_hole`: a failed over.db insert "will be reconciled on next ingest"
  (`ingest.rs:311`). The oid is saved, so the next ingest skips those commits
  and then advances the over marker.
* `store_short`: after a partial `write_all` the position stays and the file has
  grown (`store.rs:165`); rows committed later point into the wrong frame.
* `over_gap`: the migration "picks up where it left off" (`over.rs:1248`) and
  breaks off "when there's no more data in this chunk window" (`over.rs:1298`).
  A gap in the rowids that is wider than a window ends it early, and the legacy
  table is dropped with what was behind the gap.
* `search_crosspost`: a list filter on a text query is said to eliminate false
  negatives (`reader.rs:2023`). The document of the list is found, but its
  message-id is hydrated to the row of another list, and the router drops it.

Seen while modelling and not given a run:

* Generation: a run killed after saving oids and before the bump leaves rows the
  next run does not count, although the bump is "once iff the raw corpus changed"
  (`bin/sync.rs:16`); `GenerationReflectsCorpus` in `SyncRun` states it.
* Lock: query processes "never contend for this lock" (`state.rs:166`), but the
  probe takes it, and a sync that starts then is refused (`RefusedByWriter`).
* Threads: the subject is used "when the chain breaks" (`tid.rs:4`); the code
  uses it for every root (`RootSharesTid`). A re-ingest between the two SELECTs of
  `thread` answers without the seed (`SeedIsAnswered`). The walk counts a row it
  collects twice against `max_messages`, so a thread no longer than the limit may
  come back shortened and not marked `truncated`. The fast path of
  `series_timeline` finds the versions of one tid, its fallback finds all.
* Manifest and cache are read before the lock (`bin/sync.rs:31` says the lock
  covers them); `ManifestCovered` shows that this costs a fetch and loses nothing.
* A run with BM25 after a deferred one advances the BM25 marker over the gap,
  which `reader.rs:419` reads as a complete index.
* Cheap calls, which "stay available as long as the process is up"
  (`health.py:213`), share a thread pool that moderate calls can fill.
* Search: hits come in the order "score DESC, mid ASC" (`search.py:120`), but
  `rrf_merge` leaves equal scores in the order of a hash map and the tool does not
  sort, so a tied hit can be skipped or repeated when a page is turned; pages end after `2 * limit + 1` hits; the
  tiers are a union, where `docs/mcp/query-routing.md:37` says they intersect.
* Search: pagination promises "no overlap between pages"
  (`tests/python/test_cursor.py:8`, `PagesDisjoint`). A message that all three tiers
  find, at ranks 1, 1 and 3, scores 52248172 or 52248168 units of 2^-30, as the map
  of the tiers is met (`router.rs:502`). It may end a page with the higher score and
  come with the lower one when the next page is ranked; `score < last_score`
  (`search.py:129`) lets it pass its own cursor, and it is served twice, although
  every tier answered as before. With two tiers that cannot happen.
  `tlc -config search_overlap.cfg MCSearch` ends with this behaviour.
* Reader: on an over.db of an older release that was not backfilled, a query for a
  trailer address (`over.rs:1970`, `over.rs:1976`), a touched file (`over.rs:2106`) or
  a normalized subject (`over.rs:602`, `over.rs:1840`) answers without the rows of that
  release, and every declared maintainer of a file may be called stale. No marker
  guards these indexes, although NULL dates are called valid there and "the sort
  places them last" (`over.rs:447`). `NothingElseMissed`, `NewestKept` and
  `ProfileLimitTold` name the case (`Unentered`); without it they are violated.
* Reader: a regex on a body looks at the first `4 * limit` rows of the walk only;
  the walk drops a message-id it has seen before it looks at the list, which hides
  cross-posts; a maintainer is declared stale from a sample that may be cut;
  `fetch_message` under a deadline does not look into Parquet after a miss. A
  cached reader decides on over.db once, when it opens, so "until next ingest
  reconciles" (`reader.rs:393`) lasts until the process ends, as does the file it
  has open when the builder replaces it.
* over.db: the builder keeps one row per message-id, so cross-posts disappear, as
  do rows ingested while it runs (`docs/ops/runbook.md:320` describes it as a
  rebuild); it leaves `over.db-wal` and `over.db-shm` of the file it replaces where
  they are; the migration copies entries without a date, and
  `backfill_side_table_dates` does not visit the table it copies them to.

### Fairness

`SyncRun!FairSpec`: `klmcp-sync.timer` restarts runs (`SyncStart`), and a process
that holds the lock is scheduled (`RunStep`). Faults, mail and reindex runs are
not fair, and `EventuallyCaughtUp` assumes that reindex runs end, since a
non-blocking lock attempt can lose against them for ever.
`SyncStatus!FairSpec`: the clock advances and an admission check that began goes
on. `ToolAdmission!FairSpec`: the event loop and its timers run, a free thread
takes work, a native call reaches its next check. That a native call returns is
not assumed, and neither is any caller's next call. `OverTier!Spec`: a process
that holds the lock goes on until it ends or dies (`JobStep`), which `BackfillEnds`
uses: the next job waits for that lock. That anybody starts a job, a crash, and
the builder are not fair.

## What is proved

Eight modules hold TLAPS proofs: `SyncRunProofs`, `SyncStatusProofs`,
`SegmentStoreProofs`, `ToolAdmissionProofs`, `OverTierProofs`,
`ThreadIndexProofs`, `SearchProofs`, and `RowsProofs` with the lemmas the last
two share. They hold for any number of shards, processes, callers, commits,
retries, faults, messages, lists, files, jobs, calls, permits and threads, for
any segment and frame size, chunk, limit and page size. The assumptions are
those named in the modules: `ShardsAssumption`, `ProcsAssumption`,
`MarkerAssumption`, `OptsAssumption`, `BoundsAssumption`; `ActorsAssumption`,
`TimeAssumption`, `FileAssumption`; `StoreAssumption`; `AdmissionAssumption`;
`SetAssumption`, `OldAssumption`, `BoundAssumption`; `ThreadAssumption`;
`ContentAssumption`, `LimitAssumption`, `FetchAssumption`, `OrderAssumption`,
`PageAssumption`.
They give types to the constants and keep null values apart from others. Two
say more: `ContentAssumption`, that a value which is the address of a trailer line
is contained in that line (`reader.rs:2547`, `reader.rs:2863`), and
`OrderAssumption`, that message-ids are listed once in their order, as are the
documents in the order of their relevance.

Every safety invariant and action property of a passing run has its theorem.

### SyncRun

`IInv` is inductive (`Inductive`, one step per action) and checked by
`sync_shards`; `TypeCorrect` is its first part. None of the properties it serves is inductive by itself.

* `OidAlwaysCovered` needs that the batch of a worker covers the gap between the
  oid and the clone (`WorkInv`), which needs that the variables of a run belong
  to the lock holder (`LockInv`). `ManifestAlwaysCovered` needs that a manifest in
  the memory of a run that has no lock yet, or whose shard succeeded, is not
  ahead of the clone (`HeadInv`). `HolesAlwaysOwed` needs what the worker has put
  into over.db and the BM25 writer so far (`DerivedInv`).
* `FinishedRunsPublish`: `sealed`, the corpus at the last bump, is compared with
  what finished runs ingested. `SealInv` adds that it is part of the metadata tier
  and that the batch of a worker that succeeded is too, so that the bump, which
  follows the workers, seals it.
* `TidMarkerAlwaysHonest`: `MarkInv` says what holds between a rebuild of the tid
  table and the write of its marker. Between them the corpus stays what it was
  when the rebuild read it (phase `bump`), and after the bump what the generation
  announces is in the table (`markers`, and `markTid` of the reindexer); no marker
  is ahead of the generation, so a bump leaves an old one visibly behind.
* `ProgressIsDurable`, `ImplementsWatermark`: action by action, every step is a
  step of `Watermark` or leaves its variables alone, using `IInv`.

### SyncStatus

`HeavyCallsAreShed`, `StatusAlwaysOwned` from `HolderInv`, which ties the lock
holder, the status file, its age and the timer together. A probing caller and a
live run exclude each other because both hold the lock; a call that began in a
heavy stage has therefore seen the lock taken. `status` checks the invariant.

### SegmentStore

`RowsAlwaysReadable`, `RowsAlwaysDurable`, `PositionAlwaysHonest`, `TypeCorrect`
from `IInv` of `SegmentStore`. A committed row reads back its message because its
frame lies below `synced` of its segment (`RowInv`), and a frame below `synced`
survives whatever a power loss cuts. That a flush makes a worker's frames durable
although it syncs only the open segment needs that every other segment was
synced to its end before its successor was created (`FileInv`), and that the
open segment is the highest (`WriterInv`: also after a roll that failed with the id
already moved, since the segment is still full and the next append rolls again).
`PtrInv` carries a worker's offsets from append to flush to commit. The proof is
about `Spec`, whose writes are whole unless the process dies; `store_short` is the
other case.

### ToolAdmission

`TypeCorrect`, `PermitsAreConserved` and `NoOrphanGoesUntold` from `IInv`. The
count of permits is preserved only because the waiter that `release` picks is
really waiting and not already in flight (`SemInv`: a semaphore's queue holds
waiting calls of its class, each once), and a thread's call can be trusted to be
submitted or told only because no call is queued and running, or on two threads
(`PoolInv`). `AppendFacts`, `TailFacts` and `RemoveFacts` say what the queue
operations do to the set of queued calls.

### OverTier

* `TypeCorrect`, `SideTablesAreFresh`, `TrustedIndexIsWhole`,
  `EnvelopesAreKept` from one invariant, `IInv`. `TrustedIndexWhole` is not
  inductive: it needs that a backfill of an index has made it whole up to its
  cursor (`WholeInv`), which needs that a chunk is an initial segment of the rows
  beyond the cursor (`PendingFacts`: rowids are distinct and numbered upwards,
  `IdInv`), that an entry is dated as its row is (`SideInv`), that the markers of a
  new file are written while it is empty (`EmptyInv`), and where a job can be
  (`JobInv`). Steps that only write side tables keep `SideKept`, steps that write
  rows keep `RowsKept`; each action is proved to be of one kind.
* `NoTrailerIsLost` assumes `NoGap`: no two neighbouring rowids of the legacy
  table are farther apart than a window. `TrailerInv` says what has been copied
  below the cursor; `EmptyWindow` is where the assumption is used: an empty window
  then lies past the last rowid. Run `over_gap` is an instance without it.

### ThreadIndex

The first half of `ThreadIndexProofs` says what the grouping computes. `Reach` is
the least set that contains a message and that no tie leaves (`ReachClosed`,
`ReachLeast`); the chain of parents, a recursive function, ends at the only
ancestor whose parent is not in the corpus, if there is one (`ChainEnds`: a turn
either visits a new message or stops, so as many turns as there are rows
suffice); the start of a series is a message of the series (`SeriesStarts`, with
`OldestFirst`: of finitely many places one is first); and so the tid of a message
is tied to it (`TidIsTied`).

* `RebuildAlwaysSettles` (`RebuildInv`, inductive without the rest): during a
  rebuild its plan is the grouping of the corpus, and a row of over.db has the
  planned tid or is still in `todo`. `SplitRows` and `FreshenedKeeps` say what
  cutting a chunk off and ingesting a message do to the set of rows.
* `NoStrangersEver`: `GroupInv` says that a published tid is tied to its message.
  Ties only grow with the corpus (`TiesGrow`), so it outlives rebuilds that die
  and ingests that come between the two SELECTs of a call; the seed and an answer
  with the same tid are then tied through it (`CallInv`).
* `WalksAreWhole`: `WalkInv` is the invariant of the breadth-first search. While no
  write disturbs it and its budget lasts, everything linked to a visited message
  is visited or queued, and the rows of a visited message have been taken. With an
  empty queue the visited set is closed, hence all of `Reach`.
* `RepliesStayTogether`: by `SelectInv` an undisturbed answer is cut from the rows
  with the tid of the seed, below the limit it is all of them; replies whose
  ancestors lead to one root have that root as chain end, hence one tid.

### ReaderQueries and Search

The properties speak of the last answer. `Fits` states them for any query and
set of rows, and `Answered` that the last answer fits; while a session has an
answer the stores are frozen (`Frozen`). So for every query it remains to be
shown that each answer it may give, from stores as `StoreInv` describes them, fits:
`EqFits`, `ListFits`, `ActivityFits`, `RefFits`, `ProfileFits` and so on.
These rest on what the access paths return:

* `WalkRows`: the walk visits each message-id once, and every id of a file;
  `FirstOfRows`: a scan stopped at `n` has `n` rows or all matches.
* `NewestRows`: what `ORDER BY date DESC LIMIT n` leaves out is not newer than
  what it returns, and a result below its limit is everything; `IndexRows` and
  `ScanRows` for the side tables, for all rows but those of an older release where the
  index has no marker (`Stale`); `SeedRows` for an index whose rows are filtered
  afterwards, where an over-fetch that was not used up has seen all.
* `HydratedRows`: only rows of files, of the candidates, are hydrated.

From these: `TypeCorrect`, `FiltersAlwaysHonoured`, `NewestAlwaysKept`,
`NothingElseEverMissed`, `ProfileLimitAlwaysTold`.

For `Search`, a `Ranking` is a sequence of hits, one per message. Fusion makes a
ranking of whatever the tiers return (`FusedRanking`), and filters, truncation
and pages keep it one (`RankingSelect`, `RankingFirst`), hence
`HitsAlwaysHonourFilters`. `CursorAlwaysAdvances`: the cursor of a page is signed
from a hit that `After` let pass (`PageCut`), whatever the tiers did this time.

`PagesAlwaysWhole` needs that two dispatches, which share nothing but a cursor, make
the same list of the same answers. `PagesWhole` is not inductive: it says nothing of a
session that has pages to come. `Paged`, a part of `SessionInv`, does: while the
session is steady and untied there is a ranking and a number *k* such that the client
has the messages of its first *k* hits, `found` has those of all, and the cursor is
the *k*-th hit. The page that follows comes from another ranking, and the two must
agree on more than the cursor:

* A dispatch fuses, cuts at `2 * limit`, filters and cuts again, each time among
  whatever ties there are. `DispatchBest`: a hit that passes the filter and
  outscores one in the answer is in the answer, and if the answer is not full, so is
  every passing hit whose score no more than two budgets of hits reach. `SureFirst`
  and `Outscored` count the hits that a cut can have preferred.
* `Agree`: two untied answers over the same hits agree except, perhaps, in the last
  hit of the first. That suffices, since a cursor is signed only when a hit is left
  over. `Untied` and `Following`: in an untied ranking the hits after a cursor are
  those behind its place, so the page continues where the last one ended
  (`PageServes`, `MidsJoin`).
* That the two dispatches see the same hits at all is the negation of `Ambiguous`
  (`ScoreNat`, `HitsTyped` give their type, from `Floats` about the rounding).

`UntiedPagesDisjoint` is `PagesDisjoint` under the condition that `search_overlap.cfg`
lacks. What remains open to overlaps and gaps is thereby exactly what the hash map
decides: an order among equal scores, or a score.

### Rows

`RowsProofs` has what is said of recursive functions and sequences: induction is
stated over a set of numbers (`Induct`, `InductTo`), `Recursion` gives the
function that a recursive definition describes, `SelectRows` and `SelectDistinct`
are the filter of a scan, `FirstNRows` its limit, `FlattenRows` the rows of several
files, `DistinctCount` that a sequence without repetition is as long as its set.

### Only model-checked

* Liveness: `EventuallyCaughtUp`, `LeftoverExpires`, `EveryCallAnswered`,
  `ThreadsComeBack`, `BackfillEnds`. Fairness and `ENABLED` are out of reach of the
  prover.
* The counterexamples of the four violated runs.

## Not modelled

* Mail parser, tokenizer, embedding tier, git sidecar, benchmarks, argument
  parsing, prompts and resources, status and metrics documents: text, numbers or
  files written once, without interaction with the pipeline.
* `path_vocab` and `path_mentions`: a word list rebuilt whole from over.db.
* `doctor`: a one-shot tool of an operator. `--heal` removes a broken clone and
  leaves the manifest cache, so the shard is cloned again when upstream changes
  its entry or the cache is removed with it.
* Bulk ingest as a process of its own: its shards take the steps of `SyncRun`.
* `diff` and `nearest` of the reader: one lookup and formatting.
* Power losses over files that are not synced before their rename, and the `-wal` and
  `-shm` files of an over.db that the builder replaced.
* The key file of the cursor, which the first of several processes creates.
* Inside the modelled parts: worker planning by memory, exponential backoff (a
  retry may come at any time), the fallback for a broken HEAD of a clone, caches
  of open files, connection pool and pragmas of SQLite.

## What is next

1. A serving process beside `SyncRun`: `ReaderQueries` chooses once whether
   over.db is current; composed with the pipeline it would follow the markers.
2. Threads that lack the messages ingested since the last rebuild, which the fast
   path answers without looking at the tid marker (`reader.rs:1933`): no document
   promises more, and `RepliesTogether` is about a settled index.
3. Pages of a session in which a tier's own ties fall differently (two rows of one
   date at the limit of a SELECT): `steady` excludes them, and SQLite leaves them open.
