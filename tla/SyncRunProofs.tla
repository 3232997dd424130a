---------------------------- MODULE SyncRunProofs ----------------------------
(***************************************************************************)
(* The safety of SyncRun, for every set of shards and of processes, every  *)
(* command line and any number of commits, retries and faults: type        *)
(* correctness, the parts of IInv, which are inductive together, and the   *)
(* implementation of Watermark.                                            *)
(***************************************************************************)
EXTENDS SyncRun, TLAPS

\* The names SyncRun gives to parts of its actions are always expanded.
USE DEF ResumePoint, AddedRows, Bm25Commits, NextGeneration, SavedManifest

-----------------------------------------------------------------------------
(* Types.                                                                   *)

\* The initial state is well typed.
LEMMA InitTypes == Init => TypeOK
BY ProcsAssumption, BoundsAssumption, MarkerAssumption
   DEF Init, TypeOK, PerShard, ShardSets, ShardNats,
       Tiers, AllProcs, NoOpts, Phases, ReindexPhases, WorkStates, Attempting

\* The end of a process leaves well-typed process and run variables.
LEMMA ReleaseTypes ==
  ASSUME TypeOK, NEW p \in AllProcs, NEW how \in {"noop", "refused", "partial", "ok", "crashed"},
         ReleaseRun(p, how)
  PROVE  /\ lock' \in AllProcs \cup {NoProc}
         /\ pc' \in [AllProcs -> {"idle", "diff", "lock", "run"}]
         /\ exit' \in [AllProcs -> {"none", "noop", "refused", "partial", "ok", "crashed"}]
         /\ remote' \in [AllProcs -> ShardNats] /\ local' \in [AllProcs -> ShardNats]
         /\ phase' \in Phases
         /\ opts' \in [over : BOOLEAN, bm25 : BOOLEAN, tid : BOOLEAN]
         /\ ws' \in [Shards -> WorkStates] /\ batch' \in ShardSets
         /\ attempt' \in ShardNats /\ overFailed' \in [Shards -> BOOLEAN]
         /\ segment' \in [Shards -> BOOLEAN] /\ pend' \in ShardSets
<1>1. PerShard(0) \in ShardNats /\ PerShard({}) \in ShardSets
      /\ PerShard("out") \in [Shards -> WorkStates] /\ PerShard(FALSE) \in [Shards -> BOOLEAN]
  BY DEF PerShard, ShardNats, ShardSets, WorkStates
<1>2. lock' \in AllProcs \cup {NoProc}
      /\ pc' \in [AllProcs -> {"idle", "diff", "lock", "run"}]
      /\ exit' \in [AllProcs -> {"none", "noop", "refused", "partial", "ok", "crashed"}]
  BY DEF ReleaseRun, TypeOK
<1>3. remote' \in [AllProcs -> ShardNats] /\ local' \in [AllProcs -> ShardNats]
  BY <1>1 DEF ReleaseRun, TypeOK
<1>4. phase' \in Phases /\ opts' \in [over : BOOLEAN, bm25 : BOOLEAN, tid : BOOLEAN]
  BY DEF ReleaseRun, Phases, NoOpts
<1> QED BY <1>1, <1>2, <1>3, <1>4 DEF ReleaseRun

\* Every walk is a set of message numbers.
LEMMA SpanNat == ASSUME NEW lo \in Nat, NEW hi \in Nat PROVE Span(lo, hi) \in SUBSET Nat
BY DEF Span

\* Sync runs before the lock, and the start of a reindex, keep the types.
LEMMA StartTypes ==
  ASSUME TypeOK, NEW p \in AllProcs, SyncStart(p) \/ StartReindex(p)
  PROVE  TypeOK'
<1>1. PerShard(0) \in ShardNats
  BY DEF PerShard, ShardNats
<1>2. CASE FetchManifest(p)
  BY <1>2 DEF FetchManifest, TypeOK, upstreamVars, durable, runVars, ghosts
<1>3. CASE DiffManifest(p)
  BY <1>3, <1>1 DEF DiffManifest, TypeOK, upstreamVars, durable, runVars, ghosts
<1>4. CASE AcquireWriterLock(p)
  <2>1. ws' \in [Shards -> WorkStates]
    BY <1>4 DEF AcquireWriterLock, WorkStates
  <2>2. opts' \in [over : BOOLEAN, bm25 : BOOLEAN, tid : BOOLEAN]
    BY <1>4, OptsAssumption DEF AcquireWriterLock
  <2>3. phase' \in Phases /\ lock' \in AllProcs \cup {NoProc}
        /\ pc' \in [AllProcs -> {"idle", "diff", "lock", "run"}]
    BY <1>4 DEF AcquireWriterLock, Phases, TypeOK
  <2> QED BY <1>4, <2>1, <2>2, <2>3 DEF AcquireWriterLock, TypeOK, upstreamVars, durable, ghosts
<1>5. CASE RefusedWriterLock(p)
  BY <1>5, <1>1 DEF RefusedWriterLock, TypeOK, upstreamVars, durable, runVars, ghosts
<1>6. CASE StartReindex(p)
  BY <1>6 DEF StartReindex, TypeOK, upstreamVars, durable, ghosts, Phases, ReindexPhases
<1> QED BY <1>2, <1>3, <1>4, <1>5, <1>6 DEF SyncStart

\* Fetching and ingesting a shard keep the types.
LEMMA ShardTypes ==
  ASSUME TypeOK, NEW s \in Shards,
         FetchShard(s) \/ IngestStep(s) \/ FetchFails(s) \/ AttemptFails(s)
  PROVE  TypeOK'
<1> USE DEF TypeOK, ShardSets, ShardNats
<1>1. CASE FetchShard(s)
  <2>1. repo' \in [Shards -> Nat] /\ ws' \in [Shards -> WorkStates]
    BY <1>1 DEF FetchShard, WorkStates, Attempting
  <2> QED BY <1>1, <2>1 DEF FetchShard, upstreamVars, procVars, ghosts
<1>2. CASE Walk(s)
  <2>1. PICK lo \in Nat : WalkFrom(s, lo)
    BY <1>2 DEF Walk
  <2>2. Span(lo, repo[s]) \in SUBSET Nat
    BY SpanNat
  <2>3. batch' \in [Shards -> SUBSET Nat]
    BY <2>1, <2>2 DEF WalkFrom
  <2>4. oid' \in [Shards -> Nat]
    BY <2>1 DEF WalkFrom
  <2>5. ws' \in [Shards -> WorkStates]
    BY <2>1 DEF WalkFrom, WorkStates, Attempting
  <2>6. pend' \in [Shards -> SUBSET Nat]
    BY <2>1, <2>2 DEF WalkFrom
  <2>7. faults' \in Nat /\ overFailed' \in [Shards -> BOOLEAN]
    BY <1>2 DEF Walk, Fault
  <2> QED BY <1>2, <2>3, <2>4, <2>5, <2>6, <2>7 DEF Walk, procVars, ghosts
<1>3. CASE WriteParquet(s)
  <2>1. parquet' \in [Shards -> SUBSET Nat]
    BY <1>3 DEF WriteParquet
  <2>2. ws' \in [Shards -> WorkStates]
    BY <1>3 DEF WriteParquet, WorkStates, Attempting
  <2> QED BY <1>3, <2>1, <2>2 DEF WriteParquet, upstreamVars, procVars, ghosts
<1>4. CASE InsertOver(s)
  <2>1. tier' \in [Tiers -> [Shards -> SUBSET Nat]]
    BY <1>4 DEF InsertOver, Tiers
  <2>2. ws' \in [Shards -> WorkStates]
    BY <1>4 DEF InsertOver, WorkStates, Attempting
  <2>3. overFailed' \in [Shards -> BOOLEAN]
    BY <1>4 DEF InsertOver
  <2>4. faults' \in Nat
    BY <1>4 DEF InsertOver, Fault
  <2> QED BY <1>4, <2>1, <2>2, <2>3, <2>4 DEF InsertOver, procVars, ghosts
<1>5. ASSUME NextAttempt(s) PROVE ws' \in [Shards -> WorkStates] /\ attempt' \in [Shards -> Nat]
  <2>1. CASE attempt[s] < MaxRetries
    <3>1. attempt' = [attempt EXCEPT ![s] = @ + 1] /\ ws' = [ws EXCEPT ![s] = "walk"]
      BY <1>5, <2>1 DEF NextAttempt
    <3>2. ws' \in [Shards -> WorkStates]
      BY <3>1 DEF WorkStates, Attempting
    <3>3. attempt' \in [Shards -> Nat]
      BY <3>1
    <3> QED BY <3>2, <3>3
  <2>2. CASE ~(attempt[s] < MaxRetries)
    BY <1>5, <2>2 DEF NextAttempt, WorkStates
  <2> QED BY <2>1, <2>2
<1>6. CASE FinalizeTrigram(s)
  <2>1. tier' \in [Tiers -> [Shards -> SUBSET Nat]]
    <3>1. CASE segment[s]
      BY <1>6, <3>1 DEF FinalizeTrigram
    <3>2. CASE ~segment[s]
      <4>1. tier' = [tier EXCEPT !["trigram"][s] = @ \cup batch[s]]
        BY <1>6, <3>2 DEF FinalizeTrigram
      <4> QED BY <4>1 DEF Tiers
    <3> QED BY <3>1, <3>2
  <2>2. segment' \in [Shards -> BOOLEAN]
    BY <1>6 DEF FinalizeTrigram
  <2>3. ws' \in [Shards -> WorkStates] /\ attempt' \in [Shards -> Nat]
    BY <1>5, <1>6 DEF FinalizeTrigram, WorkStates, Attempting
  <2> QED BY <1>6, <2>1, <2>2, <2>3 DEF FinalizeTrigram, upstreamVars, procVars, ghosts
<1>7. CASE SaveOid(s)
  <2>1. oid' \in [Shards -> Nat] /\ ws' \in [Shards -> WorkStates]
    BY <1>7 DEF SaveOid, WorkStates
  <2>2. \A t \in {"over", "bm25"} :
           [owed[t] EXCEPT ![s] = @ \cup batch[s]] \in [Shards -> SUBSET Nat]
    OBVIOUS
  <2>3. owed' \in [{"over", "bm25"} -> [Shards -> SUBSET Nat]]
    BY <1>7, <2>2 DEF SaveOid
  <2> QED BY <1>7, <2>1, <2>3 DEF SaveOid, upstreamVars, procVars
<1>8. CASE FetchFails(s)
  <2>1. ws' \in [Shards -> WorkStates] /\ faults' \in Nat
    BY <1>8 DEF FetchFails, WorkStates, Fault
  <2> QED BY <1>8, <2>1 DEF FetchFails, durable, procVars, ghosts
<1>9. CASE AttemptFails(s)
  <2>1. faults' \in Nat
    BY <1>9 DEF AttemptFails, Fault
  <2> QED BY <1>5, <1>9, <2>1 DEF AttemptFails, durable, procVars, ghosts
<1> QED BY <1>1, <1>2, <1>3, <1>4, <1>6, <1>7, <1>8, <1>9 DEF IngestStep

\* The barriers and the tail of a run keep the types.
LEMMA TailTypes ==
  ASSUME TypeOK, NEW p \in AllProcs, FetchPhaseDone(p) \/ SyncTail(p) \/ ReindexStep(p)
  PROVE  TypeOK'
<1> DEFINE RunTypes ==
      /\ lock' \in AllProcs \cup {NoProc}
      /\ pc' \in [AllProcs -> {"idle", "diff", "lock", "run"}]
      /\ exit' \in [AllProcs -> {"none", "noop", "refused", "partial", "ok", "crashed"}]
      /\ remote' \in [AllProcs -> ShardNats] /\ local' \in [AllProcs -> ShardNats]
      /\ phase' \in Phases
      /\ opts' \in [over : BOOLEAN, bm25 : BOOLEAN, tid : BOOLEAN]
      /\ ws' \in [Shards -> WorkStates] /\ batch' \in ShardSets
      /\ attempt' \in ShardNats /\ overFailed' \in [Shards -> BOOLEAN]
      /\ segment' \in [Shards -> BOOLEAN] /\ pend' \in ShardSets
<1>1. CASE FetchPhaseDone(p)
  <2>1. RunTypes
    BY <1>1, ReleaseTypes DEF FetchPhaseDone, TypeOK, procVars, Phases
  <2> QED BY <1>1, <2>1 DEF FetchPhaseDone, TypeOK, upstreamVars, durable, ghosts
<1>2. CASE IngestPhaseDone
  BY <1>2 DEF IngestPhaseDone, TypeOK, upstreamVars, durable, procVars, ghosts, Phases
<1>3. CASE CommitBm25
  <2>1. tier' \in [Tiers -> ShardSets] /\ pend' \in ShardSets
    BY <1>3 DEF CommitBm25, TypeOK, Tiers, ShardSets, PerShard
  <2> QED BY <1>3, <2>1 DEF CommitBm25, TypeOK, upstreamVars, procVars, ghosts, Phases
<1>4. CASE RebuildTid
  <2>1. tier' \in [Tiers -> ShardSets]
    BY <1>4 DEF RebuildTid, TypeOK, Tiers
  <2> QED BY <1>4, <2>1 DEF RebuildTid, TypeOK, upstreamVars, procVars, ghosts, Phases
<1>5. CASE BumpGeneration
  BY <1>5 DEF BumpGeneration, TypeOK, upstreamVars, procVars, Phases
<1>6. CASE \E t \in Tiers : SetTierGeneration(t)
  <2>1. marker' \in [Tiers -> Nat \cup {NoMarker}]
    BY <1>6 DEF SetTierGeneration, TypeOK
  <2> QED BY <1>6, <2>1 DEF SetTierGeneration, TypeOK, upstreamVars, procVars, runVars, ghosts
<1>7. CASE MarkersDone
  BY <1>7 DEF MarkersDone, TypeOK, upstreamVars, durable, procVars, ghosts, Phases
<1>8. CASE SaveManifest(p)
  <2>1. manifest' \in ShardNats
    BY <1>8 DEF SaveManifest, TypeOK, ShardNats
  <2>2. RunTypes
    BY <1>8, ReleaseTypes DEF SaveManifest
  <2> QED BY <1>8, <2>1, <2>2 DEF SaveManifest, TypeOK, upstreamVars, ghosts
<1>9. CASE ReindexTid(p)
  <2>1. tier' \in [Tiers -> ShardSets]
    BY <1>9 DEF ReindexTid, TypeOK, Tiers
  <2> QED BY <1>9, <2>1 DEF ReindexTid, TypeOK, upstreamVars, procVars, ghosts, Phases, ReindexPhases
<1>10. CASE MarkTid(p)
  <2>1. marker' \in [Tiers -> Nat \cup {NoMarker}]
    BY <1>10 DEF MarkTid, TypeOK
  <2>2. RunTypes
    BY <1>10, ReleaseTypes DEF MarkTid, TypeOK, procVars, Phases, ReindexPhases
  <2> QED BY <1>10, <2>1, <2>2 DEF MarkTid, TypeOK, upstreamVars, ghosts
<1>11. CASE ReindexBm25(p)
  <2>1. tier' \in [Tiers -> ShardSets]
    BY <1>11 DEF ReindexBm25, TypeOK, Tiers
  <2> QED BY <1>11, <2>1 DEF ReindexBm25, TypeOK, upstreamVars, procVars, ghosts, Phases, ReindexPhases
<1>12. CASE MarkBm25(p)
  <2>1. marker' \in [Tiers -> Nat \cup {NoMarker}]
    BY <1>12 DEF MarkBm25, TypeOK
  <2>2. RunTypes
    BY <1>12, ReleaseTypes DEF MarkBm25
  <2> QED BY <1>12, <2>1, <2>2 DEF MarkBm25, TypeOK, upstreamVars, ghosts
<1> QED BY <1>1, <1>2, <1>3, <1>4, <1>5, <1>6, <1>7, <1>8, <1>9, <1>10, <1>11, <1>12
    DEF SyncTail, ReindexStep

\* A crash keeps the types.
LEMMA CrashTypes == ASSUME TypeOK, NEW p \in AllProcs, Crash(p) PROVE TypeOK'
<1>1. faults' \in Nat /\ PerShard(0) \in ShardNats
  BY DEF Crash, Fault, TypeOK, PerShard, ShardNats
<1>2. CASE lock = p
  <2>1. ReleaseRun(p, "crashed")
    BY <1>2 DEF Crash
  <2>2. owed' \in [{"over", "bm25"} -> ShardSets]
    BY <1>2 DEF Crash, TypeOK, ShardSets
  <2> QED BY <2>1, <2>2, <1>1, ReleaseTypes DEF Crash, TypeOK, durable
<1>3. CASE lock # p
  BY <1>1, <1>3 DEF Crash, TypeOK, durable, runVars
<1> QED BY <1>2, <1>3

\* The types are preserved by every step.
LEMMA NextTypes == TypeOK /\ [Next]_vars => TypeOK'
<1> SUFFICES ASSUME TypeOK, [Next]_vars PROVE TypeOK'
  OBVIOUS
<1>1. ASSUME NEW s \in Shards, UpstreamPush(s) PROVE TypeOK'
  BY <1>1 DEF UpstreamPush, TypeOK, ShardNats, durable, procVars, runVars, ghosts
<1>2. CASE UNCHANGED vars
  BY <1>2 DEF vars, upstreamVars, durable, procVars, runVars, ghosts, TypeOK
<1>3. Procs \subseteq AllProcs /\ Reindexers \subseteq AllProcs
  BY DEF AllProcs
<1> QED BY <1>1, <1>2, <1>3, StartTypes, ShardTypes, TailTypes, CrashTypes
    DEF Next, RunStep, Faulty

\* SyncRun is type correct: whatever runs, crashes and pushes happen, every
\* head is a number, every tier a set of message numbers per shard, every
\* phase and exit status one of those bin/sync.rs and bin/reindex.rs have.
THEOREM TypeCorrect == Spec => []TypeOK
<1>1. Init => TypeOK
  BY InitTypes
<1>2. TypeOK /\ [Next]_vars => TypeOK'
  BY NextTypes
<1> QED BY <1>1, <1>2, PTL DEF Spec

-----------------------------------------------------------------------------
(* IInv.                                                                    *)

\* The initial state satisfies the inductive invariant.
LEMMA InitInv == Init => IInv
<1> SUFFICES ASSUME Init PROVE IInv
  OBVIOUS
<1>1. TypeOK
  BY InitTypes
<1>2. LockInv /\ HeadInv /\ WorkInv /\ DerivedInv
  BY ProcsAssumption DEF Init, LockInv, HeadInv, WorkInv, DerivedInv, PerShard, AllProcs, ReindexPhases
<1>3. OidCovered /\ ManifestCovered /\ DerivedHolesOwed
  BY DEF Init, OidCovered, ManifestCovered, DerivedHolesOwed, PerShard, Span
<1>4. SealInv /\ MarkInv
  BY MarkerAssumption DEF Init, SealInv, FinishedRunPublished, MarkInv, TidMarkerHonest, PerShard,
     Tiers
<1> QED BY <1>1, <1>2, <1>3, <1>4 DEF IInv

-----------------------------------------------------------------------------
(* LockInv: the run variables belong to the holder of the lock.             *)

\* When the holder's process ends, the next holder finds a clean run.
LEMMA ReleaseLock ==
  ASSUME TypeOK, LockInv, NEW p \in AllProcs, lock = p, NEW how, ReleaseRun(p, how)
  PROVE  LockInv'
BY ProcsAssumption DEF ReleaseRun, LockInv, TypeOK, PerShard, AllProcs, ReindexPhases

\* A worker leaves the fetch phase for good and never moves the lock.
LEMMA ShardLock ==
  ASSUME TypeOK, LockInv, NEW s \in Shards,
         FetchShard(s) \/ IngestStep(s) \/ FetchFails(s) \/ AttemptFails(s)
  PROVE  LockInv'
<1> USE DEF LockInv, TypeOK, ReindexPhases
<1>1. CASE FetchShard(s)
  BY <1>1 DEF FetchShard, procVars
<1>2. CASE FetchFails(s)
  BY <1>2 DEF FetchFails, procVars
<1>3. CASE Walk(s)
  <2>1. PICK lo \in Nat : WalkFrom(s, lo)
    BY <1>3 DEF Walk, ShardNats
  <2> QED BY <1>3, <2>1 DEF Walk, WalkFrom, procVars
<1>4. CASE WriteParquet(s)
  BY <1>4 DEF WriteParquet, procVars
<1>5. CASE InsertOver(s)
  BY <1>5 DEF InsertOver, procVars
<1>6. CASE FinalizeTrigram(s)
  BY <1>6 DEF FinalizeTrigram, NextAttempt, procVars
<1>7. CASE SaveOid(s)
  BY <1>7 DEF SaveOid, procVars
<1>8. CASE AttemptFails(s)
  BY <1>8 DEF AttemptFails, NextAttempt, procVars
<1> QED BY <1>1, <1>2, <1>3, <1>4, <1>5, <1>6, <1>7, <1>8 DEF IngestStep

\* Only the free lock is taken, and a refused run never held it.
LEMMA StartLock ==
  ASSUME TypeOK, LockInv, NEW p \in AllProcs, SyncStart(p) \/ StartReindex(p)
  PROVE  LockInv'
<1> USE ProcsAssumption DEF LockInv, TypeOK, ReindexPhases, AllProcs
<1>1. CASE FetchManifest(p)
  BY <1>1 DEF FetchManifest, runVars
<1>2. CASE DiffManifest(p)
  BY <1>2 DEF DiffManifest, runVars
<1>3. CASE AcquireWriterLock(p)
  BY <1>3 DEF AcquireWriterLock
<1>4. CASE RefusedWriterLock(p)
  BY <1>4 DEF RefusedWriterLock, runVars
<1>5. CASE StartReindex(p)
  BY <1>5 DEF StartReindex
<1> QED BY <1>1, <1>2, <1>3, <1>4, <1>5 DEF SyncStart

\* Barriers and tail: the phase advances, or the holder ends.
LEMMA TailLock ==
  ASSUME TypeOK, LockInv, NEW p \in AllProcs,
         FetchPhaseDone(p) \/ SyncTail(p) \/ ReindexStep(p)
  PROVE  LockInv'
<1> USE ProcsAssumption DEF LockInv, ReindexPhases
<1>1. CASE FetchPhaseDone(p)
  BY <1>1, ReleaseLock DEF FetchPhaseDone, procVars
<1>2. CASE IngestPhaseDone
  BY <1>2 DEF IngestPhaseDone, procVars
<1>3. CASE CommitBm25
  BY <1>3 DEF CommitBm25, procVars, PerShard
<1>4. CASE RebuildTid
  BY <1>4 DEF RebuildTid, procVars
<1>5. CASE BumpGeneration
  BY <1>5 DEF BumpGeneration, procVars
<1>6. CASE \E t \in Tiers : SetTierGeneration(t)
  BY <1>6 DEF SetTierGeneration, procVars, runVars
<1>7. CASE MarkersDone
  BY <1>7 DEF MarkersDone, procVars
<1>8. CASE SaveManifest(p)
  BY <1>8, ReleaseLock DEF SaveManifest
<1>9. CASE ReindexTid(p)
  BY <1>9 DEF ReindexTid, procVars
<1>10. CASE MarkTid(p)
  BY <1>10, ReleaseLock DEF MarkTid, procVars
<1>11. CASE ReindexBm25(p)
  BY <1>11 DEF ReindexBm25, procVars
<1>12. CASE MarkBm25(p)
  BY <1>12, ReleaseLock DEF MarkBm25
<1> QED BY <1>1, <1>2, <1>3, <1>4, <1>5, <1>6, <1>7, <1>8, <1>9, <1>10, <1>11, <1>12
    DEF SyncTail, ReindexStep

\* A crash ends the holder, or a process that never was it.
LEMMA CrashLock == ASSUME TypeOK, LockInv, NEW p \in AllProcs, Crash(p) PROVE LockInv'
<1>1. CASE lock = p
  BY <1>1, ReleaseLock DEF Crash
<1>2. CASE lock # p
  BY <1>2 DEF Crash, LockInv, TypeOK, runVars
<1> QED BY <1>1, <1>2

\* Every step keeps the run variables with the holder of the lock.
LEMMA NextLock == TypeOK /\ LockInv /\ [Next]_vars => LockInv'
<1> SUFFICES ASSUME TypeOK, LockInv, [Next]_vars PROVE LockInv'
  OBVIOUS
<1>1. ASSUME NEW s \in Shards, UpstreamPush(s) PROVE LockInv'
  BY <1>1 DEF UpstreamPush, LockInv, procVars, runVars
<1>2. CASE UNCHANGED vars
  BY <1>2 DEF vars, procVars, runVars, LockInv
<1>3. Procs \subseteq AllProcs /\ Reindexers \subseteq AllProcs
  BY DEF AllProcs
<1> QED BY <1>1, <1>2, <1>3, StartLock, ShardLock, TailLock, CrashLock
    DEF Next, RunStep, Faulty

-----------------------------------------------------------------------------
(* HeadInv, WorkInv and OidCovered: what a worker does to its shard.  The   *)
(* other shards keep their values.                                          *)

\* A reading of the arithmetic of a walk: the commits up to the new head are
\* the ones up to the old oid and the ones a walk from there visits.
LEMMA SpanSplit ==
  ASSUME NEW o \in Nat, NEW h \in Nat, NEW lo \in Nat, lo <= o + 1
  PROVE  /\ Span(o + 1, h) \subseteq Span(lo, h)
         /\ Span(1, h) \subseteq Span(1, o) \cup Span(o + 1, h)
         /\ h <= o \/ h \in Span(lo, h)
BY DEF Span

\* A walk that finds nothing has nothing to find.
LEMMA EmptyWalk ==
  ASSUME NEW o \in Nat, NEW h \in Nat, NEW lo \in Nat, lo <= o + 1, o <= h, Span(lo, h) = {}
  PROVE  h = o
<1>1. h <= o
  BY SpanSplit
<1> QED BY <1>1

\* An update of one shard's trigram rows only adds rows.
LEMMA TrigramGrows ==
  ASSUME NEW s \in Shards, TypeOK,
         tier' = tier \/ tier' = [tier EXCEPT !["trigram"][s] = @ \cup batch[s]]
  PROVE  \A z \in Shards : tier["trigram"][z] \subseteq tier'["trigram"][z]
<1>1. tier \in [Tiers -> [Shards -> SUBSET Nat]]
  BY DEF TypeOK, ShardSets
<1> QED BY <1>1 DEF Tiers

\* The part of the invariant that speaks of heads, oids and rows.
CorpusInv == HeadInv /\ WorkInv /\ OidCovered /\ ManifestCovered

\* A walk starts at most one commit after the oid, so it visits the whole
\* gap; an empty one leaves the oid at the clone's head, where it was.
LEMMA WalkCorpus ==
  ASSUME TypeOK, LockInv, CorpusInv, NEW s \in Shards, Walk(s)
  PROVE  CorpusInv'
<1> USE DEF TypeOK, ShardNats, ShardSets
<1>1. PICK lo \in Nat : WalkFrom(s, lo) /\ lo <= oid[s] + 1
  BY DEF Walk
<1>2. /\ Span(oid[s] + 1, repo[s]) \subseteq Span(lo, repo[s])
      /\ Span(lo, repo[s]) = {} => repo[s] = oid[s]
  <2>1. oid[s] \in Nat /\ repo[s] \in Nat /\ oid[s] <= repo[s]
    BY DEF CorpusInv, HeadInv
  <2>2. ASSUME Span(lo, repo[s]) = {} PROVE repo[s] = oid[s]
    BY <1>1, <2>1, <2>2, EmptyWalk
  <2>3. Span(oid[s] + 1, repo[s]) \subseteq Span(lo, repo[s])
    BY <1>1, <2>1, SpanSplit
  <2> QED BY <2>1, <2>2, <2>3
<1>3. oid' = oid
  BY <1>1, <1>2 DEF WalkFrom
<1>4. HeadInv'
  BY <1>1, <1>3 DEF Walk, WalkFrom, CorpusInv, HeadInv, procVars
<1>5. WorkInv'
  BY <1>1, <1>2, <1>3 DEF Walk, WalkFrom, CorpusInv, WorkInv
<1>6. OidCovered' /\ ManifestCovered'
  BY <1>3 DEF Walk, CorpusInv, OidCovered, ManifestCovered
<1> QED BY <1>4, <1>5, <1>6 DEF CorpusInv

\* The steps of a worker keep the corpus invariant: rows are written before
\* the oid that covers them.
LEMMA ShardCorpus ==
  ASSUME TypeOK, LockInv, CorpusInv, NEW s \in Shards,
         FetchShard(s) \/ IngestStep(s) \/ FetchFails(s) \/ AttemptFails(s)
  PROVE  CorpusInv'
<1> USE DEF TypeOK, ShardNats, ShardSets, CorpusInv
<1>1. CASE FetchShard(s)
  <2>1. HeadInv'
    BY <1>1 DEF FetchShard, HeadInv, upstreamVars, procVars
  <2>2. WorkInv'
    BY <1>1 DEF FetchShard, WorkInv
  <2>3. OidCovered' /\ ManifestCovered'
    BY <1>1 DEF FetchShard, OidCovered, ManifestCovered
  <2> QED BY <2>1, <2>2, <2>3
<1>2. CASE FetchFails(s)
  BY <1>2 DEF FetchFails, HeadInv, WorkInv, OidCovered, ManifestCovered, durable, procVars
<1>3. CASE WriteParquet(s)
  <2>1. HeadInv' /\ ManifestCovered'
    BY <1>3 DEF WriteParquet, HeadInv, ManifestCovered, upstreamVars, procVars
  <2>2. WorkInv'
    BY <1>3 DEF WriteParquet, WorkInv
  <2>3. OidCovered'
    BY <1>3 DEF WriteParquet, OidCovered
  <2> QED BY <2>1, <2>2, <2>3
<1>4. CASE InsertOver(s)
  <2>1. tier'["trigram"] = tier["trigram"]
    BY <1>4 DEF InsertOver, Tiers
  <2>2. HeadInv' /\ ManifestCovered'
    BY <1>4 DEF InsertOver, HeadInv, ManifestCovered, procVars
  <2>3. WorkInv' /\ OidCovered'
    BY <1>4, <2>1 DEF InsertOver, WorkInv, OidCovered
  <2> QED BY <2>2, <2>3
<1>5. CASE FinalizeTrigram(s)
  <2>1. \A z \in Shards : tier["trigram"][z] \subseteq tier'["trigram"][z]
    <3>1. tier' = tier \/ tier' = [tier EXCEPT !["trigram"][s] = @ \cup batch[s]]
      BY <1>5 DEF FinalizeTrigram
    <3> QED BY <3>1, TrigramGrows
  <2>2. HeadInv' /\ ManifestCovered'
    BY <1>5 DEF FinalizeTrigram, NextAttempt, HeadInv, ManifestCovered, upstreamVars, procVars
  <2>3. ws'[s] = "trigram" => batch[s] \subseteq tier'["trigram"][s]
    BY <1>5 DEF FinalizeTrigram, NextAttempt, Tiers
  <2>4. WorkInv'
    BY <1>5, <2>1, <2>3 DEF FinalizeTrigram, NextAttempt, WorkInv
  <2>5. OidCovered'
    BY <1>5, <2>1 DEF FinalizeTrigram, OidCovered
  <2> QED BY <2>2, <2>4, <2>5
<1>6. CASE SaveOid(s)
  <2>1. Span(1, repo[s]) \subseteq parquet[s] \cap tier["trigram"][s]
    <3>1. Span(1, repo[s]) \subseteq Span(1, oid[s]) \cup Span(oid[s] + 1, repo[s])
      BY SpanSplit
    <3> QED BY <1>6, <3>1 DEF SaveOid, WorkInv, OidCovered
  <2>2. HeadInv' /\ ManifestCovered'
    BY <1>6 DEF SaveOid, HeadInv, ManifestCovered, upstreamVars, procVars
  <2>3. WorkInv'
    BY <1>6 DEF SaveOid, WorkInv
  <2>4. OidCovered'
    BY <1>6, <2>1 DEF SaveOid, OidCovered
  <2> QED BY <2>2, <2>3, <2>4
<1>7. CASE AttemptFails(s)
  <2>1. HeadInv'
    BY <1>7 DEF AttemptFails, NextAttempt, HeadInv, durable, procVars, Attempting
  <2>2. WorkInv'
    BY <1>7 DEF AttemptFails, NextAttempt, WorkInv, durable
  <2>3. OidCovered' /\ ManifestCovered'
    BY <1>7 DEF AttemptFails, OidCovered, ManifestCovered, durable
  <2> QED BY <2>1, <2>2, <2>3
<1> QED BY <1>1, <1>2, <1>3, <1>4, <1>5, <1>6, <1>7, WalkCorpus DEF IngestStep

\* The end of a process forgets its copies of the manifest and its workers.
LEMMA ReleaseCorpus ==
  ASSUME TypeOK, LockInv, CorpusInv, NEW p \in AllProcs, lock = p, NEW how, ReleaseRun(p, how),
         UNCHANGED <<upstream, repo, oid>>
  PROVE  HeadInv' /\ WorkInv'
<1>1. HeadInv'
  BY DEF ReleaseRun, CorpusInv, HeadInv, TypeOK, ShardNats, PerShard
<1>2. WorkInv'
  BY DEF ReleaseRun, WorkInv, PerShard
<1> QED BY <1>1, <1>2

\* A run before the lock reads the cache, which is behind the oids.
LEMMA StartCorpus ==
  ASSUME TypeOK, LockInv, CorpusInv, NEW p \in AllProcs, SyncStart(p) \/ StartReindex(p)
  PROVE  CorpusInv'
<1> USE DEF CorpusInv
<1>1. UNCHANGED <<upstream, repo, oid, parquet, tier, manifest>>
  BY DEF SyncStart, FetchManifest, DiffManifest, AcquireWriterLock, RefusedWriterLock,
         StartReindex, upstreamVars, durable
<1>2. OidCovered' /\ ManifestCovered'
  BY <1>1 DEF OidCovered, ManifestCovered
<1>3. HeadInv'
  <2> USE DEF HeadInv, TypeOK, ShardNats
  <2>1. CASE FetchManifest(p)
    BY <2>1, <1>1 DEF FetchManifest, runVars, LockInv
  <2>2. CASE DiffManifest(p)
    <3>1. lock # p /\ UNCHANGED <<lock, ws>>
      BY <2>2 DEF DiffManifest, LockInv, runVars
    <3>2. \A q \in AllProcs, z \in Shards : local'[q][z] <= oid[z]
      <4>1. local' = local \/ local' = [local EXCEPT ![p] = manifest]
        BY <2>2 DEF DiffManifest
      <4> QED BY <4>1 DEF ManifestCovered
    <3>3. \A q \in AllProcs, z \in Shards :
             remote'[q][z] <= upstream[z] /\ (q # p => remote'[q] = remote[q])
      <4>1. remote' = remote \/ remote' = [remote EXCEPT ![p] = PerShard(0)]
        BY <2>2 DEF DiffManifest
      <4> QED BY <4>1 DEF PerShard
    <3> QED BY <3>1, <3>2, <3>3, <1>1
  <2>3. CASE AcquireWriterLock(p)
    BY <2>3, <1>1 DEF AcquireWriterLock
  <2>4. CASE RefusedWriterLock(p)
    BY <2>4, <1>1 DEF RefusedWriterLock, runVars, PerShard, LockInv
  <2>5. CASE StartReindex(p)
    BY <2>5, <1>1 DEF StartReindex, LockInv
  <2> QED BY <2>1, <2>2, <2>3, <2>4, <2>5 DEF SyncStart
<1>4. WorkInv'
  <2>1. CASE AcquireWriterLock(p)
    BY <2>1, <1>1 DEF AcquireWriterLock, WorkInv
  <2>2. CASE ~AcquireWriterLock(p)
    BY <2>2, <1>1 DEF SyncStart, FetchManifest, DiffManifest, RefusedWriterLock,
       StartReindex, runVars, WorkInv
  <2> QED BY <2>1, <2>2
<1> QED BY <1>2, <1>3, <1>4

\* The tail of a run and a reindex change neither heads nor rows that oids
\* cover; the saved manifest takes entries of shards that are ingested.
LEMMA TailCorpus ==
  ASSUME TypeOK, LockInv, CorpusInv, NEW p \in AllProcs,
         FetchPhaseDone(p) \/ SyncTail(p) \/ ReindexStep(p)
  PROVE  CorpusInv'
<1> USE DEF CorpusInv
<1>1. UNCHANGED <<upstream, repo, oid, parquet>>
  BY DEF FetchPhaseDone, SyncTail, ReindexStep, IngestPhaseDone, CommitBm25, RebuildTid,
         BumpGeneration, SetTierGeneration, MarkersDone, SaveManifest, ReindexTid,
         MarkTid, ReindexBm25, MarkBm25, upstreamVars, durable
<1>2. tier'["trigram"] = tier["trigram"]
  <2>1. \/ tier' = tier
        \/ \E v : tier' = [tier EXCEPT !["bm25"] = v]
        \/ \E v : tier' = [tier EXCEPT !["tid"] = v]
    BY DEF FetchPhaseDone, SyncTail, ReindexStep, IngestPhaseDone, CommitBm25, RebuildTid,
           BumpGeneration, SetTierGeneration, MarkersDone, SaveManifest, ReindexTid,
           MarkTid, ReindexBm25, MarkBm25, durable
  <2> QED BY <2>1 DEF TypeOK, Tiers
<1>3. OidCovered'
  BY <1>1, <1>2 DEF OidCovered
<1>4. ManifestCovered'
  <2>1. CASE SaveManifest(p)
    BY <1>1, <2>1 DEF SaveManifest, ManifestCovered, HeadInv, WorkInv, TypeOK, ShardNats
  <2>2. CASE ~SaveManifest(p)
    <3>1. manifest' = manifest
      BY <2>2 DEF FetchPhaseDone, SyncTail, ReindexStep, IngestPhaseDone, CommitBm25,
         RebuildTid, BumpGeneration, SetTierGeneration, MarkersDone, ReindexTid, MarkTid,
         ReindexBm25, MarkBm25, durable
    <3> QED BY <1>1, <3>1 DEF ManifestCovered
  <2> QED BY <2>1, <2>2
<1>5. HeadInv' /\ WorkInv'
  <2>1. CASE lock = p /\ \E how : ReleaseRun(p, how)
    BY <1>1, <2>1, ReleaseCorpus
  <2>2. CASE UNCHANGED <<lock, remote, local, ws, batch>>
    BY <1>1, <1>2, <2>2 DEF HeadInv, WorkInv
  <2>3. \/ lock = p /\ \E how : ReleaseRun(p, how)
        \/ UNCHANGED <<lock, remote, local, ws, batch>>
    BY DEF FetchPhaseDone, SyncTail, ReindexStep, IngestPhaseDone, CommitBm25,
       RebuildTid, BumpGeneration, SetTierGeneration, MarkersDone, SaveManifest, ReindexTid,
       MarkTid, ReindexBm25, MarkBm25, procVars, runVars
  <2> QED BY <2>1, <2>2, <2>3
<1> QED BY <1>3, <1>4, <1>5

\* A crash takes no file back.
LEMMA CrashCorpus ==
  ASSUME TypeOK, LockInv, CorpusInv, NEW p \in AllProcs, Crash(p) PROVE CorpusInv'
<1> USE DEF CorpusInv
<1>1. OidCovered' /\ ManifestCovered'
  BY DEF Crash, durable, OidCovered, ManifestCovered
<1>2. CASE lock = p
  BY <1>1, <1>2, ReleaseCorpus DEF Crash, durable
<1>3. CASE lock # p
  <2>1. HeadInv'
    BY <1>3 DEF Crash, durable, runVars, HeadInv, TypeOK, ShardNats, PerShard
  <2>2. WorkInv'
    BY <1>3 DEF Crash, durable, runVars, WorkInv
  <2> QED BY <1>1, <2>1, <2>2
<1> QED BY <1>2, <1>3

\* Every step keeps the corpus invariant.
LEMMA NextCorpus == TypeOK /\ LockInv /\ CorpusInv /\ [Next]_vars => CorpusInv'
<1> SUFFICES ASSUME TypeOK, LockInv, CorpusInv, [Next]_vars PROVE CorpusInv'
  OBVIOUS
<1>1. ASSUME NEW s \in Shards, UpstreamPush(s) PROVE CorpusInv'
  BY <1>1 DEF UpstreamPush, CorpusInv, HeadInv, WorkInv, OidCovered, ManifestCovered,
     TypeOK, ShardNats, durable, procVars, runVars
<1>2. CASE UNCHANGED vars
  BY <1>2 DEF vars, upstreamVars, durable, procVars, runVars, CorpusInv, HeadInv, WorkInv,
     OidCovered, ManifestCovered
<1>3. Procs \subseteq AllProcs /\ Reindexers \subseteq AllProcs
  BY DEF AllProcs
<1> QED BY <1>1, <1>2, <1>3, StartCorpus, ShardCorpus, TailCorpus, CrashCorpus
    DEF Next, RunStep, Faulty

-----------------------------------------------------------------------------
(* DerivedHolesOwed: the two tiers a run may leave behind.                  *)

DerivedAll == DerivedInv /\ DerivedHolesOwed
CInv == TypeOK /\ LockInv /\ CorpusInv

\* The steps of a worker: a row below the oid is in over.db and in the BM25
\* writer, or the run owes it.
LEMMA ShardDerived ==
  ASSUME CInv, DerivedAll, NEW s \in Shards,
         FetchShard(s) \/ IngestStep(s) \/ FetchFails(s) \/ AttemptFails(s)
  PROVE  DerivedAll'
<1> USE DEF CInv, DerivedAll, DerivedInv, DerivedHolesOwed
<1>0. /\ tier \in [Tiers -> [Shards -> SUBSET Nat]] /\ owed \in [{"over", "bm25"} -> [Shards -> SUBSET Nat]]
      /\ ws \in [Shards -> WorkStates] /\ batch \in [Shards -> SUBSET Nat]
      /\ pend \in [Shards -> SUBSET Nat] /\ overFailed \in [Shards -> BOOLEAN]
      /\ oid \in [Shards -> Nat] /\ repo \in [Shards -> Nat]
  BY DEF TypeOK, ShardNats, ShardSets
<1>1. CASE FetchShard(s)
  BY <1>0, <1>1 DEF FetchShard, ghosts
<1>2. CASE FetchFails(s)
  BY <1>0, <1>2 DEF FetchFails, durable, ghosts
<1>3. CASE Walk(s)
  <2>1. PICK lo \in Nat : WalkFrom(s, lo) /\ lo <= oid[s] + 1
    BY <1>0, <1>3 DEF Walk
  <2>2. oid' = oid
    <3>1. Span(lo, repo[s]) = {} => repo[s] = oid[s]
      BY <1>0, <2>1, EmptyWalk DEF CorpusInv, HeadInv
    <3> QED BY <1>0, <2>1, <3>1 DEF WalkFrom
  <2>3. \A z \in Shards : pend[z] \subseteq pend'[z]
    BY <1>0, <2>1 DEF WalkFrom
  <2>4. DerivedHolesOwed'
    BY <1>3, <2>2, <2>3 DEF Walk, ghosts
  <2>5. DerivedInv'
    BY <1>0, <1>3, <2>1 DEF Walk, WalkFrom
  <2> QED BY <2>4, <2>5
<1>4. CASE WriteParquet(s)
  BY <1>0, <1>4 DEF WriteParquet, ghosts
<1>5. CASE InsertOver(s)
  <2>1. /\ \A t \in Tiers, z \in Shards : tier[t][z] \subseteq tier'[t][z]
        /\ opts.over /\ ~overFailed'[s] => batch[s] \subseteq tier'["over"][s]
    <3>1. \/ tier' = tier
          \/ tier' = [tier EXCEPT !["over"][s] = @ \cup batch[s]]
      BY <1>5 DEF InsertOver
    <3>2. opts.over /\ ~overFailed'[s] => tier' = [tier EXCEPT !["over"][s] = @ \cup batch[s]]
      BY <1>0, <1>5 DEF InsertOver
    <3>3. /\ \A t \in Tiers, z \in Shards : tier[t][z] \subseteq tier'[t][z]
      BY <1>0, <3>1 DEF Tiers
    <3>4. opts.over /\ ~overFailed'[s] => batch[s] \subseteq tier'["over"][s]
      BY <1>0, <3>2 DEF Tiers
    <3> QED BY <3>3, <3>4
  <2>2. \A z \in Shards : z # s => overFailed'[z] = overFailed[z] /\ ws'[z] = ws[z]
    BY <1>0, <1>5 DEF InsertOver
  <2>3. DerivedHolesOwed'
    BY <1>5, <2>1 DEF InsertOver, ghosts, Tiers
  <2>4. DerivedInv'
    BY <1>0, <1>5, <2>1, <2>2 DEF InsertOver, Tiers
  <2> QED BY <2>3, <2>4
<1>6. CASE FinalizeTrigram(s)
  <2>1. tier'["over"] = tier["over"] /\ tier'["bm25"] = tier["bm25"]
    <3>1. tier' = tier \/ tier' = [tier EXCEPT !["trigram"][s] = @ \cup batch[s]]
      BY <1>6 DEF FinalizeTrigram
    <3> QED BY <1>0, <3>1 DEF Tiers
  <2>2. DerivedHolesOwed'
    BY <1>6, <2>1 DEF FinalizeTrigram, ghosts
  <2>3. DerivedInv'
    BY <1>0, <1>6, <2>1 DEF FinalizeTrigram, NextAttempt
  <2> QED BY <2>2, <2>3
<1>7. CASE SaveOid(s)
  <2>1. /\ Span(1, repo[s]) \subseteq Span(1, oid[s]) \cup Span(oid[s] + 1, repo[s])
        /\ Span(oid[s] + 1, repo[s]) \subseteq batch[s]
    BY <1>0, <1>7, SpanSplit DEF SaveOid, CorpusInv, WorkInv
  <2>2. /\ \A z \in Shards : owed["over"][z] \subseteq owed'["over"][z]
                             /\ owed["bm25"][z] \subseteq owed'["bm25"][z]
        /\ overFailed[s] \/ ~opts.over => batch[s] \subseteq owed'["over"][s]
        /\ ~opts.bm25 => batch[s] \subseteq owed'["bm25"][s]
    <3>1. /\ owed'["over"] = IF overFailed[s] \/ ~opts.over
                             THEN [owed["over"] EXCEPT ![s] = @ \cup batch[s]] ELSE owed["over"]
          /\ owed'["bm25"] = IF ~opts.bm25
                             THEN [owed["bm25"] EXCEPT ![s] = @ \cup batch[s]] ELSE owed["bm25"]
      BY <1>7 DEF SaveOid
    <3> QED BY <1>0, <3>1
  <2>3. DerivedHolesOwed'
    BY <1>0, <1>7, <2>1, <2>2 DEF SaveOid
  <2>4. DerivedInv'
    BY <1>0, <1>7 DEF SaveOid
  <2> QED BY <2>3, <2>4
<1>8. CASE AttemptFails(s)
  BY <1>0, <1>8 DEF AttemptFails, NextAttempt, durable, ghosts
<1> QED BY <1>1, <1>2, <1>3, <1>4, <1>5, <1>6, <1>7, <1>8 DEF IngestStep

\* A run that has not started owes nothing new.
LEMMA StartDerived ==
  ASSUME CInv, DerivedAll, NEW p \in AllProcs, SyncStart(p) \/ StartReindex(p)
  PROVE  DerivedAll'
<1> USE DEF CInv, DerivedAll
<1>1. DerivedHolesOwed'
  BY DEF SyncStart, FetchManifest, DiffManifest, AcquireWriterLock, RefusedWriterLock,
     StartReindex, upstreamVars, durable, runVars, ghosts, DerivedHolesOwed
<1>2. DerivedInv'
  <2>1. CASE AcquireWriterLock(p)
    BY <2>1 DEF AcquireWriterLock, DerivedInv, LockInv, durable
  <2>2. CASE StartReindex(p)
    BY <2>2 DEF StartReindex, DerivedInv, LockInv, durable
  <2>3. CASE FetchManifest(p) \/ DiffManifest(p) \/ RefusedWriterLock(p)
    BY <2>3 DEF FetchManifest, DiffManifest, RefusedWriterLock, DerivedInv, durable, runVars
  <2> QED BY <2>1, <2>2, <2>3 DEF SyncStart
<1> QED BY <1>1, <1>2

\* The end of a process leaves no worker behind.
LEMMA ReleaseDerived ==
  ASSUME NEW p, NEW how, ReleaseRun(p, how) PROVE DerivedInv'
BY DEF ReleaseRun, DerivedInv, PerShard

\* The tail of a run hands the uncommitted documents to the index; a reindex
\* replaces a tier by the whole corpus.
LEMMA TailDerived ==
  ASSUME CInv, DerivedAll, NEW p \in AllProcs,
         FetchPhaseDone(p) \/ SyncTail(p) \/ ReindexStep(p)
  PROVE  DerivedAll'
<1> USE DEF CInv, DerivedAll
<1>0. tier \in [Tiers -> [Shards -> SUBSET Nat]]
  BY DEF TypeOK, ShardSets
<1>1. CASE FetchPhaseDone(p)
  <2>1. DerivedHolesOwed'
    BY <1>1 DEF FetchPhaseDone, ReleaseRun, durable, ghosts, DerivedHolesOwed, LockInv
  <2>2. DerivedInv'
    BY <1>1, ReleaseDerived DEF FetchPhaseDone, DerivedInv, durable, LockInv
  <2> QED BY <2>1, <2>2
<1>2. CASE IngestPhaseDone
  BY <1>2 DEF IngestPhaseDone, durable, ghosts, DerivedInv, DerivedHolesOwed
<1>3. CASE CommitBm25
  <2>1. /\ tier'["over"] = tier["over"]
        /\ \A z \in Shards : tier["bm25"][z] \cup pend[z] \subseteq tier'["bm25"][z]
    <3>1. CASE opts.bm25
      BY <1>0, <1>3, <3>1 DEF CommitBm25, Tiers
    <3>2. CASE ~opts.bm25
      BY <1>3, <3>2 DEF CommitBm25, DerivedInv
    <3> QED BY <3>1, <3>2
  <2>2. DerivedHolesOwed'
    BY <1>3, <2>1 DEF CommitBm25, ghosts, DerivedHolesOwed
  <2>3. DerivedInv'
    BY <1>3 DEF CommitBm25, DerivedInv, PerShard
  <2> QED BY <2>2, <2>3
<1>4. CASE RebuildTid
  <2>1. tier'["over"] = tier["over"] /\ tier'["bm25"] = tier["bm25"]
    BY <1>0, <1>4 DEF RebuildTid, Tiers
  <2> QED BY <1>4, <2>1 DEF RebuildTid, ghosts, DerivedInv, DerivedHolesOwed
<1>5. CASE BumpGeneration
  BY <1>5 DEF BumpGeneration, DerivedInv, DerivedHolesOwed
<1>6. CASE \E t \in Tiers : SetTierGeneration(t)
  BY <1>6 DEF SetTierGeneration, DerivedInv, DerivedHolesOwed, runVars, ghosts
<1>7. CASE MarkersDone
  BY <1>7 DEF MarkersDone, durable, ghosts, DerivedInv, DerivedHolesOwed
<1>8. CASE SaveManifest(p)
  <2>1. DerivedHolesOwed'
    BY <1>8 DEF SaveManifest, ghosts, DerivedHolesOwed, LockInv
  <2> QED BY <1>8, <2>1, ReleaseDerived DEF SaveManifest
<1>9. CASE ReindexTid(p)
  <2>1. tier'["over"] = tier["over"] /\ tier'["bm25"] = tier["bm25"]
    BY <1>0, <1>9 DEF ReindexTid, Tiers
  <2> QED BY <1>9, <2>1 DEF ReindexTid, ghosts, DerivedInv, DerivedHolesOwed, LockInv, ReindexPhases
<1>10. CASE MarkTid(p)
  <2>1. DerivedHolesOwed'
    BY <1>10 DEF MarkTid, ReleaseRun, ghosts, DerivedHolesOwed, LockInv
  <2>2. DerivedInv'
    BY <1>10, ReleaseDerived DEF MarkTid, DerivedInv, LockInv, ReindexPhases
  <2> QED BY <2>1, <2>2
<1>11. CASE ReindexBm25(p)
  <2>1. tier'["over"] = tier["over"] /\ tier'["bm25"] = parquet
    BY <1>0, <1>11 DEF ReindexBm25, Tiers
  <2>2. DerivedHolesOwed'
    BY <1>11, <2>1 DEF ReindexBm25, ghosts, DerivedHolesOwed, CorpusInv, OidCovered
  <2>3. DerivedInv'
    BY <1>11 DEF ReindexBm25, DerivedInv, LockInv, ReindexPhases
  <2> QED BY <2>2, <2>3
<1>12. CASE MarkBm25(p)
  <2>1. DerivedHolesOwed'
    BY <1>12 DEF MarkBm25, ReleaseRun, ghosts, DerivedHolesOwed, LockInv
  <2> QED BY <1>12, <2>1, ReleaseDerived DEF MarkBm25
<1> QED BY <1>1, <1>2, <1>3, <1>4, <1>5, <1>6, <1>7, <1>8, <1>9, <1>10, <1>11, <1>12
    DEF SyncTail, ReindexStep

\* What dies with the process is owed.
LEMMA CrashDerived ==
  ASSUME CInv, DerivedAll, NEW p \in AllProcs, Crash(p) PROVE DerivedAll'
<1> USE DEF CInv, DerivedAll
<1>1. CASE lock = p
  <2>1. /\ owed'["over"] = owed["over"]
        /\ \A z \in Shards : owed'["bm25"][z] = owed["bm25"][z] \cup pend[z]
    BY <1>1 DEF Crash, TypeOK
  <2>2. DerivedHolesOwed'
    BY <1>1, <2>1 DEF Crash, durable, DerivedHolesOwed
  <2> QED BY <1>1, <2>2, ReleaseDerived DEF Crash
<1>2. CASE lock # p
  BY <1>2 DEF Crash, durable, runVars, DerivedInv, DerivedHolesOwed
<1> QED BY <1>1, <1>2

\* Every step keeps the derived-tier invariant.
LEMMA NextDerived == CInv /\ DerivedAll /\ [Next]_vars => DerivedAll'
<1> SUFFICES ASSUME CInv, DerivedAll, [Next]_vars PROVE DerivedAll'
  OBVIOUS
<1>1. ASSUME NEW s \in Shards, UpstreamPush(s) PROVE DerivedAll'
  BY <1>1 DEF UpstreamPush, DerivedAll, DerivedInv, DerivedHolesOwed, durable, runVars, ghosts
<1>2. CASE UNCHANGED vars
  BY <1>2 DEF vars, durable, runVars, ghosts, DerivedAll, DerivedInv, DerivedHolesOwed
<1>3. Procs \subseteq AllProcs /\ Reindexers \subseteq AllProcs
  BY DEF AllProcs
<1> QED BY <1>1, <1>2, <1>3, StartDerived, ShardDerived, TailDerived, CrashDerived
    DEF Next, RunStep, Faulty

-----------------------------------------------------------------------------
(* SealInv and MarkInv: what a generation announces.                        *)

PublishInv == SealInv /\ MarkInv

\* A worker changes neither the generation nor what it announced, and its
\* rows are in the metadata tier before it succeeds.
LEMMA ShardPublish ==
  ASSUME CInv, PublishInv, NEW s \in Shards,
         FetchShard(s) \/ IngestStep(s) \/ FetchFails(s) \/ AttemptFails(s)
  PROVE  PublishInv'
<1> USE DEF CInv, PublishInv
<1>0. /\ tier \in [Tiers -> [Shards -> SUBSET Nat]] /\ parquet \in [Shards -> SUBSET Nat]
      /\ ws \in [Shards -> WorkStates] /\ batch \in [Shards -> SUBSET Nat]
  BY DEF TypeOK, ShardSets
<1>1. /\ UNCHANGED <<sealed, generation, marker, phase, opts>>
      /\ phase \in {"fetch", "ingest"}
  BY DEF FetchShard, IngestStep, Walk, WriteParquet, InsertOver, FinalizeTrigram, SaveOid,
         FetchFails, AttemptFails, durable, ghosts
<1>2. tier'["tid"] = tier["tid"]
  <2>1. \/ tier' = tier
        \/ tier' = [tier EXCEPT !["over"][s] = @ \cup batch[s]]
        \/ tier' = [tier EXCEPT !["trigram"][s] = @ \cup batch[s]]
    BY DEF FetchShard, IngestStep, Walk, WriteParquet, InsertOver, FinalizeTrigram, SaveOid,
           FetchFails, AttemptFails, durable
  <2> QED BY <1>0, <2>1 DEF Tiers
<1>3. \A z \in Shards : parquet[z] \subseteq parquet'[z]
  <2>1. parquet' = parquet \/ parquet' = [parquet EXCEPT ![s] = @ \cup batch[s]]
    BY DEF FetchShard, IngestStep, Walk, WriteParquet, InsertOver, FinalizeTrigram, SaveOid,
           FetchFails, AttemptFails, durable
  <2> QED BY <1>0, <2>1
<1>4. \A z \in Shards : z # s => ws'[z] = ws[z] /\ batch'[z] = batch[z]
  BY <1>0 DEF FetchShard, IngestStep, Walk, WalkFrom, WriteParquet, InsertOver,
     FinalizeTrigram, NextAttempt, SaveOid, FetchFails, AttemptFails
<1>5. ws'[s] = "ok" => batch'[s] \subseteq parquet'[s]
  <2>1. CASE Walk(s)
    <3>1. PICK lo \in Nat : WalkFrom(s, lo)
      BY <2>1 DEF Walk, TypeOK, ShardNats
    <3> QED BY <1>0, <3>1 DEF WalkFrom
  <2>2. CASE SaveOid(s)
    BY <2>2 DEF SaveOid, CorpusInv, WorkInv
  <2>3. CASE ~ Walk(s) /\ ~ SaveOid(s)
    BY <1>0, <2>3 DEF FetchShard, IngestStep, WriteParquet, InsertOver, FinalizeTrigram,
       NextAttempt, FetchFails, AttemptFails
  <2> QED BY <2>1, <2>2, <2>3
<1>6. SealInv'
  BY <1>1, <1>3, <1>4, <1>5 DEF SealInv, FinishedRunPublished
<1>7. MarkInv'
  BY <1>1, <1>2 DEF MarkInv, TidMarkerHonest, TidKnows
<1> QED BY <1>6, <1>7

\* A run that starts announces nothing.
LEMMA StartPublish ==
  ASSUME CInv, PublishInv, NEW p \in AllProcs, SyncStart(p) \/ StartReindex(p)
  PROVE  PublishInv'
<1> USE DEF CInv, PublishInv
<1>1. UNCHANGED <<sealed, parquet, tier, generation, marker, batch>>
  BY DEF SyncStart, FetchManifest, DiffManifest, AcquireWriterLock, RefusedWriterLock,
         StartReindex, durable, runVars, ghosts
<1>2. \/ UNCHANGED <<phase, opts, ws>>
      \/ /\ phase' \in {"fetch", "reindexTid", "reindexBm25"}
         /\ \A z \in Shards : ws'[z] # "ok"
  <2>1. CASE AcquireWriterLock(p)
    BY <2>1 DEF AcquireWriterLock
  <2>2. CASE StartReindex(p)
    BY <2>2 DEF StartReindex, LockInv
  <2>3. CASE FetchManifest(p) \/ DiffManifest(p) \/ RefusedWriterLock(p)
    BY <2>3 DEF FetchManifest, DiffManifest, RefusedWriterLock, runVars
  <2> QED BY <2>1, <2>2, <2>3 DEF SyncStart
<1>3. SealInv'
  BY <1>1, <1>2 DEF SealInv, FinishedRunPublished
<1>4. MarkInv'
  BY <1>1, <1>2 DEF MarkInv, TidMarkerHonest, TidKnows
<1> QED BY <1>3, <1>4

\* The end of a process leaves what was announced.
LEMMA ReleasePublish ==
  ASSUME PublishInv, NEW p, NEW how, ReleaseRun(p, how),
         UNCHANGED <<sealed, parquet, tier, generation>>,
         marker'["tid"] \in Nat => marker'["tid"] <= generation,
         TidMarkerHonest'
  PROVE  PublishInv'
<1>1. SealInv'
  BY DEF PublishInv, SealInv, FinishedRunPublished, ReleaseRun, PerShard
<1>2. MarkInv'
  BY DEF MarkInv, ReleaseRun
<1> QED BY <1>1, <1>2 DEF PublishInv

\* The tid marker moves to the generation only over a table that knows the
\* sealed corpus.
LEMMA MarkerMoves ==
  ASSUME TypeOK, TidKnows(sealed), marker' = [marker EXCEPT !["tid"] = generation],
         UNCHANGED <<sealed, tier, generation>>
  PROVE  /\ marker'["tid"] \in Nat => marker'["tid"] <= generation
         /\ TidMarkerHonest'
<1>1. generation \in Nat /\ marker'["tid"] = generation
  BY DEF TypeOK, Tiers
<1> QED BY <1>1 DEF TidMarkerHonest, TidKnows

\* A marker that did not move stays as honest as it was.
LEMMA MarkerStays ==
  ASSUME PublishInv, UNCHANGED <<sealed, generation>>, marker'["tid"] = marker["tid"],
         tier'["tid"] = tier["tid"]
  PROVE  /\ marker'["tid"] \in Nat => marker'["tid"] <= generation
         /\ TidMarkerHonest'
BY DEF PublishInv, MarkInv, TidMarkerHonest

\* The bump seals the corpus, the markers follow it.
LEMMA BumpPublish ==
  ASSUME CInv, PublishInv, BumpGeneration PROVE PublishInv'
<1> USE DEF CInv, PublishInv
<1>0. UNCHANGED <<parquet, tier, marker, opts, ws, batch>> /\ phase' = "markers"
  BY DEF BumpGeneration
<1>1. CASE CorpusChanged
  <2>1. generation' = generation + 1 /\ sealed' = parquet
    BY <1>1 DEF BumpGeneration
  <2>2. generation \in Nat /\ marker["tid"] \in Nat \cup {NoMarker}
    BY DEF TypeOK, Tiers
  <2>3. SealInv'
    BY <1>0, <2>1 DEF SealInv, FinishedRunPublished
  <2>4. marker'["tid"] # generation' /\ (marker'["tid"] \in Nat => marker'["tid"] <= generation')
    BY <1>0, <2>1, <2>2, MarkerAssumption DEF MarkInv
  <2>5. MarkInv'
    BY <1>0, <2>1, <2>4 DEF BumpGeneration, MarkInv, TidMarkerHonest, TidKnows
  <2> QED BY <2>3, <2>5
<1>2. CASE ~CorpusChanged
  <2>1. UNCHANGED <<generation, sealed>>
    BY <1>2 DEF BumpGeneration
  <2>2. \A z \in Shards : ws[z] = "ok" => batch[z] = {}
    BY <1>2 DEF CorpusChanged, Ingested
  <2>3. SealInv'
    BY <1>0, <2>1, <2>2 DEF SealInv, FinishedRunPublished
  <2>4. MarkInv'
    BY <1>0, <2>1 DEF BumpGeneration, SealInv, MarkInv, TidMarkerHonest, TidKnows
  <2> QED BY <2>3, <2>4
<1> QED BY <1>1, <1>2

\* The barriers and the tail of a run, and a reindex.
LEMMA TailPublish ==
  ASSUME CInv, PublishInv, NEW p \in AllProcs,
         FetchPhaseDone(p) \/ SyncTail(p) \/ ReindexStep(p)
  PROVE  PublishInv'
<1> USE DEF CInv, PublishInv
<1>0. tier \in [Tiers -> [Shards -> SUBSET Nat]]
  BY DEF TypeOK, ShardSets
<1>1. ASSUME UNCHANGED <<sealed, parquet, generation, marker, opts, ws, batch>>,
             tier'["tid"] = tier["tid"],
             phase' \in {"ingest", "bm25", "tid", "save", "markBm25"},
             phase' = "save" => phase = "markers"
      PROVE  PublishInv'
  <2>1. SealInv'
    BY <1>1 DEF SealInv, FinishedRunPublished
  <2>2. MarkInv'
    BY <1>1, MarkerStays DEF MarkInv
  <2> QED BY <2>1, <2>2
<1>2. ASSUME UNCHANGED <<sealed, parquet, tier, generation, marker>>, \E how : ReleaseRun(p, how)
      PROVE  PublishInv'
  BY <1>2, MarkerStays, ReleasePublish
<1>3. CASE FetchPhaseDone(p)
  BY <1>1, <1>2, <1>3 DEF FetchPhaseDone, durable, ghosts
<1>4. CASE IngestPhaseDone
  BY <1>1, <1>4 DEF IngestPhaseDone, durable, ghosts
<1>5. CASE CommitBm25
  <2>1. tier'["tid"] = tier["tid"]
    BY <1>0, <1>5 DEF CommitBm25, Tiers
  <2> QED BY <1>1, <1>5, <2>1 DEF CommitBm25, ghosts
<1>6. CASE RebuildTid
  <2>1. /\ UNCHANGED <<sealed, parquet, generation, marker, opts, ws, batch>>
        /\ phase' = "bump"
    BY <1>6 DEF RebuildTid, ghosts
  <2>2. (tier'["tid"] = tier["tid"] /\ ~opts.tid) \/ tier'["tid"] = parquet
    BY <1>0, <1>6 DEF RebuildTid, Tiers
  <2>3. SealInv'
    BY <2>1 DEF SealInv, FinishedRunPublished
  <2>4. MarkInv'
    BY <2>1, <2>2 DEF SealInv, MarkInv, TidMarkerHonest, TidKnows
  <2> QED BY <2>3, <2>4
<1>7. CASE BumpGeneration
  BY <1>7, BumpPublish
<1>8. ASSUME NEW t \in Tiers, SetTierGeneration(t) PROVE PublishInv'
  <2>1. UNCHANGED <<sealed, parquet, tier, generation, phase, opts, ws, batch>> /\ phase = "markers"
    BY <1>8 DEF SetTierGeneration, runVars, ghosts
  <2>2. SealInv'
    BY <2>1 DEF SealInv, FinishedRunPublished
  <2>3. /\ marker'["tid"] \in Nat => marker'["tid"] <= generation
        /\ TidMarkerHonest'
    <3>1. CASE t = "tid"
      <4>1. opts.tid /\ TidKnows(sealed)
        BY <1>8, <2>1, <3>1 DEF SetTierGeneration, Pending, MarkerDue, MarkInv
      <4> QED BY <1>8, <2>1, <3>1, <4>1, MarkerMoves DEF SetTierGeneration
    <3>2. CASE t # "tid"
      <4>1. marker'["tid"] = marker["tid"]
        BY <1>8, <3>2 DEF SetTierGeneration, TypeOK, Tiers
      <4> QED BY <2>1, <4>1, MarkerStays
    <3> QED BY <3>1, <3>2
  <2>4. MarkInv'
    BY <2>1, <2>3 DEF MarkInv, TidKnows
  <2> QED BY <2>2, <2>4
<1>9. CASE MarkersDone
  BY <1>1, <1>9 DEF MarkersDone, durable, ghosts
<1>10. CASE SaveManifest(p)
  BY <1>2, <1>10 DEF SaveManifest, ghosts
<1>11. CASE ReindexTid(p)
  <2>1. /\ UNCHANGED <<sealed, parquet, generation, marker, opts, ws, batch>>
        /\ phase' = "markTid"
    BY <1>11 DEF ReindexTid, ghosts
  <2>2. tier'["tid"] = parquet
    BY <1>0, <1>11 DEF ReindexTid, Tiers
  <2>3. SealInv'
    BY <2>1 DEF SealInv, FinishedRunPublished
  <2>4. MarkInv'
    BY <2>1, <2>2 DEF SealInv, MarkInv, TidMarkerHonest, TidKnows
  <2> QED BY <2>3, <2>4
<1>12. CASE MarkTid(p)
  <2>1. UNCHANGED <<sealed, parquet, tier, generation>>
    BY <1>12 DEF MarkTid, ghosts
  <2>2. /\ marker'["tid"] \in Nat => marker'["tid"] <= generation
        /\ TidMarkerHonest'
    <3>1. TidKnows(sealed) /\ marker' = [marker EXCEPT !["tid"] = generation]
      BY <1>12 DEF MarkTid, MarkInv
    <3> QED BY <2>1, <3>1, MarkerMoves
  <2>3. CASE ReleaseRun(p, "ok")
    BY <2>1, <2>2, <2>3, ReleasePublish
  <2>4. CASE phase' = "reindexBm25" /\ UNCHANGED <<opts, ws, batch>>
    <3>1. SealInv'
      BY <2>1, <2>4 DEF SealInv, FinishedRunPublished
    <3>2. MarkInv'
      BY <2>1, <2>2, <2>4 DEF MarkInv
    <3> QED BY <3>1, <3>2
  <2> QED BY <1>12, <2>3, <2>4 DEF MarkTid
<1>13. CASE ReindexBm25(p)
  <2>1. tier'["tid"] = tier["tid"]
    BY <1>0, <1>13 DEF ReindexBm25, Tiers
  <2> QED BY <1>1, <1>13, <2>1 DEF ReindexBm25, ghosts
<1>14. CASE MarkBm25(p)
  <2>1. UNCHANGED <<sealed, parquet, tier, generation>> /\ ReleaseRun(p, "ok")
    BY <1>14 DEF MarkBm25, ghosts
  <2>2. marker'["tid"] = marker["tid"]
    BY <1>14 DEF MarkBm25, TypeOK, Tiers
  <2> QED BY <2>1, <2>2, MarkerStays, ReleasePublish
<1> QED BY <1>3, <1>4, <1>5, <1>6, <1>7, <1>8, <1>9, <1>10, <1>11, <1>12, <1>13, <1>14
    DEF SyncTail, ReindexStep

\* A crash takes no announcement back.
LEMMA CrashPublish == ASSUME CInv, PublishInv, NEW p \in AllProcs, Crash(p) PROVE PublishInv'
<1>1. UNCHANGED <<sealed, parquet, tier, generation, marker>>
  BY DEF Crash, durable
<1>2. CASE lock = p
  BY <1>1, <1>2, MarkerStays, ReleasePublish DEF Crash
<1>3. CASE lock # p
  BY <1>1, <1>3 DEF Crash, runVars, PublishInv, SealInv, FinishedRunPublished, MarkInv,
     TidMarkerHonest, TidKnows
<1> QED BY <1>2, <1>3

\* Every step keeps what a generation announces.
LEMMA NextPublish == CInv /\ PublishInv /\ [Next]_vars => PublishInv'
<1> SUFFICES ASSUME CInv, PublishInv, [Next]_vars PROVE PublishInv'
  OBVIOUS
<1>1. CASE UNCHANGED vars \/ \E s \in Shards : UpstreamPush(s)
  <2>1. UNCHANGED <<durable, runVars, ghosts>>
    BY <1>1 DEF vars, UpstreamPush
  <2> QED BY <2>1 DEF durable, runVars, ghosts, PublishInv, SealInv, FinishedRunPublished,
     MarkInv, TidMarkerHonest, TidKnows
<1>2. Procs \subseteq AllProcs /\ Reindexers \subseteq AllProcs
  BY DEF AllProcs
<1> QED BY <1>1, <1>2, StartPublish, ShardPublish, TailPublish, CrashPublish
    DEF Next, RunStep, Faulty

-----------------------------------------------------------------------------
(* The theorems.                                                            *)

\* IInv is an inductive invariant of SyncRun: the lock owns the run, heads
\* only move forward, and what a worker, a marker or a generation has done is
\* in the tiers it speaks of.
THEOREM Inductive == Spec => []IInv
<1>1. Init => IInv
  BY InitInv
<1>2. IInv /\ [Next]_vars => IInv'
  BY NextTypes, NextLock, NextCorpus, NextDerived, NextPublish
     DEF IInv, CInv, CorpusInv, DerivedAll, PublishInv
<1> QED BY <1>1, <1>2, PTL DEF Spec

\* Resuming after a shard's saved oid skips no message, whatever sync and
\* reindex runs, retries, crashes and pushes came before.
THEOREM OidAlwaysCovered == Spec => []OidCovered
<1>1. IInv => OidCovered
  BY DEF IInv
<1> QED BY <1>1, Inductive, PTL

\* A manifest entry is never ahead of the ingested corpus: a shard the diff
\* skips has nothing that its fingerprint announced and the corpus lacks.
THEOREM ManifestAlwaysCovered == Spec => []ManifestCovered
<1>1. IInv => ManifestCovered
  BY DEF IInv
<1> QED BY <1>1, Inductive, PTL

\* The only rows below a shard's oid that over.db or the BM25 index lack are
\* those a run knowingly left out.
THEOREM HolesAlwaysOwed == Spec => []DerivedHolesOwed
<1>1. IInv => DerivedHolesOwed
  BY DEF IInv
<1> QED BY <1>1, Inductive, PTL

\* A tid marker that equals the generation is never stale, whichever of sync
\* and reindex moved it and whatever died in between.
THEOREM TidMarkerAlwaysHonest == Spec => []TidMarkerHonest
<1>1. IInv => TidMarkerHonest
  BY DEF IInv, MarkInv
<1> QED BY <1>1, Inductive, PTL

\* A run past its bump has announced every row its workers ingested.
THEOREM FinishedRunsPublish == Spec => []FinishedRunPublished
<1>1. IInv => FinishedRunPublished
  BY DEF IInv, SealInv
<1> QED BY <1>1, Inductive, PTL

-----------------------------------------------------------------------------
(* What SyncRun takes back and what it promises.                            *)

\* The rows of a shard that both tiers of the corpus have.
Rows == [s \in Shards |-> parquet[s] \cap tier["trigram"][s]]

\* An update of one shard's trigram rows leaves the other shards alone.
LEMMA TrigramLocal ==
  ASSUME NEW s \in Shards, TypeOK,
         tier' = tier \/ tier' = [tier EXCEPT !["trigram"][s] = @ \cup batch[s]]
  PROVE  \A z \in Shards : z # s => tier'["trigram"][z] = tier["trigram"][z]
<1>1. tier \in [Tiers -> [Shards -> SUBSET Nat]]
  BY DEF TypeOK, ShardSets
<1> QED BY <1>1 DEF Tiers

\* What a step of a worker changes of the durable state.
LEMMA ShardEffect ==
  ASSUME IInv, NEW s \in Shards,
         FetchShard(s) \/ IngestStep(s) \/ FetchFails(s) \/ AttemptFails(s)
  PROVE  /\ UNCHANGED <<generation, manifest, upstream>>
         /\ \/ UNCHANGED <<oid, parquet>> /\ tier'["trigram"] = tier["trigram"]
            \/ WriteParquet(s) \/ FinalizeTrigram(s) \/ SaveOid(s)
<1> USE DEF IInv, TypeOK, ShardNats, ShardSets
<1>1. CASE FetchShard(s) \/ FetchFails(s) \/ AttemptFails(s)
  BY <1>1 DEF FetchShard, FetchFails, AttemptFails, durable, upstreamVars
<1>2. CASE Walk(s)
  <2>1. PICK lo \in Nat : WalkFrom(s, lo) /\ lo <= oid[s] + 1
    BY <1>2 DEF Walk
  <2>2. Span(lo, repo[s]) = {} => repo[s] = oid[s]
    BY <2>1, EmptyWalk DEF HeadInv
  <2>3. oid' = oid
    BY <2>1, <2>2 DEF WalkFrom
  <2> QED BY <1>2, <2>3 DEF Walk
<1>3. CASE InsertOver(s)
  <2>1. tier'["trigram"] = tier["trigram"]
    BY <1>3 DEF InsertOver, Tiers
  <2> QED BY <1>3, <2>1 DEF InsertOver
<1>4. CASE WriteParquet(s) \/ FinalizeTrigram(s) \/ SaveOid(s)
  BY <1>4 DEF WriteParquet, FinalizeTrigram, SaveOid, upstreamVars
<1> QED BY <1>1, <1>2, <1>3, <1>4 DEF IngestStep

\* Every other step leaves the rows and the oids of the corpus alone.
LEMMA OtherEffect ==
  ASSUME IInv, [Next]_vars,
         ~ \E s \in Shards : FetchShard(s) \/ IngestStep(s) \/ FetchFails(s) \/ AttemptFails(s)
  PROVE  /\ UNCHANGED <<oid, parquet>> /\ tier'["trigram"] = tier["trigram"]
         /\ \/ UNCHANGED <<generation, manifest>>
            \/ generation' = generation + 1 /\ UNCHANGED manifest
            \/ UNCHANGED generation /\ \E p \in AllProcs : SaveManifest(p)
<1> DEFINE Goal == /\ UNCHANGED <<oid, parquet>> /\ tier'["trigram"] = tier["trigram"]
                   /\ \/ UNCHANGED <<generation, manifest>>
                      \/ generation' = generation + 1 /\ UNCHANGED manifest
                      \/ UNCHANGED generation /\ \E p \in AllProcs : SaveManifest(p)
<1>1. CASE UNCHANGED vars
  BY <1>1 DEF vars, durable
<1>2. ASSUME NEW s \in Shards, UpstreamPush(s) PROVE Goal
  BY <1>2 DEF UpstreamPush, durable
<1>3. ASSUME NEW p \in AllProcs, SyncStart(p) \/ StartReindex(p) \/ Crash(p) PROVE Goal
  BY <1>3 DEF SyncStart, FetchManifest, DiffManifest, AcquireWriterLock, RefusedWriterLock,
     StartReindex, Crash, durable
<1>4. ASSUME NEW p \in AllProcs, FetchPhaseDone(p) \/ SyncTail(p) \/ ReindexStep(p) PROVE Goal
  <2>1. \/ tier' = tier
        \/ \E v : tier' = [tier EXCEPT !["bm25"] = v]
        \/ \E v : tier' = [tier EXCEPT !["tid"] = v]
    BY <1>4 DEF FetchPhaseDone, SyncTail, ReindexStep, IngestPhaseDone, CommitBm25, RebuildTid,
           BumpGeneration, SetTierGeneration, MarkersDone, SaveManifest, ReindexTid,
           MarkTid, ReindexBm25, MarkBm25, durable
  <2>2. tier'["trigram"] = tier["trigram"]
    BY <2>1 DEF IInv, TypeOK, Tiers
  <2> QED BY <1>4, <2>2 DEF FetchPhaseDone, SyncTail, ReindexStep, IngestPhaseDone,
     CommitBm25, RebuildTid, BumpGeneration, SetTierGeneration, MarkersDone, SaveManifest,
     ReindexTid, MarkTid, ReindexBm25, MarkBm25, durable
<1>5. Procs \subseteq AllProcs /\ Reindexers \subseteq AllProcs
  BY DEF AllProcs
<1> QED BY <1>1, <1>2, <1>3, <1>4, <1>5 DEF Next, RunStep, Faulty

\* An oid file is replaced by a newer one, over rows that are there.
LEMMA SaveOidEffect ==
  ASSUME IInv, NEW s \in Shards, SaveOid(s)
  PROVE  /\ oid' = [oid EXCEPT ![s] = repo[s]] /\ oid[s] <= repo[s]
         /\ UNCHANGED <<parquet, tier>>
         /\ 1 .. repo[s] \subseteq parquet[s] \cap tier["trigram"][s]
<1>1. oid[s] \in Nat /\ repo[s] \in Nat /\ oid[s] <= repo[s]
  BY DEF IInv, TypeOK, ShardNats, HeadInv
<1>2. Span(1, repo[s]) \subseteq Span(1, oid[s]) \cup Span(oid[s] + 1, repo[s])
  BY <1>1, SpanSplit
<1>3. Span(1, repo[s]) \subseteq parquet[s] \cap tier["trigram"][s]
  BY <1>2 DEF SaveOid, IInv, WorkInv, OidCovered
<1> QED BY <1>1, <1>3 DEF SaveOid, Span

\* Oids and the generation never decrease and metadata rows never disappear,
\* whichever process crashes, retries or reindexes.
THEOREM ProgressIsDurable == Spec => DurableProgress
<1> DEFINE Kept == /\ generation' >= generation
                   /\ \A s \in Shards : oid'[s] >= oid[s] /\ parquet[s] \subseteq parquet'[s]
<1>1. IInv /\ [Next]_vars => Kept
  <2> SUFFICES ASSUME IInv, [Next]_vars PROVE Kept
    OBVIOUS
  <2> USE DEF IInv, TypeOK, ShardNats, ShardSets
  <2>1. ASSUME NEW s \in Shards,
               FetchShard(s) \/ IngestStep(s) \/ FetchFails(s) \/ AttemptFails(s)
        PROVE  Kept
    <3>1. CASE UNCHANGED <<generation, oid, parquet>>
      BY <3>1
    <3>2. CASE WriteParquet(s)
      BY <3>2 DEF WriteParquet
    <3>3. CASE FinalizeTrigram(s)
      BY <3>3 DEF FinalizeTrigram
    <3>4. CASE SaveOid(s)
      <4>1. UNCHANGED <<generation, parquet>>
        BY <3>4 DEF SaveOid
      <4>2. oid' = [oid EXCEPT ![s] = repo[s]] /\ oid[s] <= repo[s]
        BY <3>4, SaveOidEffect
      <4>3. \A z \in Shards : oid'[z] >= oid[z]
        BY <4>2
      <4> QED BY <4>1, <4>3
    <3> QED BY <2>1, <3>1, <3>2, <3>3, <3>4, ShardEffect
  <2>2. CASE ~ \E s \in Shards : FetchShard(s) \/ IngestStep(s) \/ FetchFails(s) \/ AttemptFails(s)
    BY <2>2, OtherEffect
  <2> QED BY <2>1, <2>2
<1> QED BY <1>1, Inductive, PTL DEF Spec, DurableProgress

\* A worker's step makes rows of its shard readable, moves its watermark over
\* readable rows, or is invisible.
LEMMA ShardRefines ==
  ASSUME IInv, NEW s \in Shards,
         FetchShard(s) \/ IngestStep(s) \/ FetchFails(s) \/ AttemptFails(s)
  PROVE  [Corpus!Next]_(Corpus!vars)
<1>0. TypeOK /\ parquet \in [Shards -> SUBSET Nat] /\ oid \in [Shards -> Nat] /\ repo \in [Shards -> Nat]
  BY DEF IInv, TypeOK, ShardNats, ShardSets
<1>1. CASE UNCHANGED <<oid, parquet>> /\ tier'["trigram"] = tier["trigram"]
  BY <1>1, ShardEffect DEF Corpus!vars
<1>2. CASE WriteParquet(s) \/ FinalizeTrigram(s)
  <2>1. /\ \A z \in Shards : parquet[z] \subseteq parquet'[z]
        /\ \A z \in Shards : z # s => parquet'[z] = parquet[z]
        /\ UNCHANGED oid
    <3>1. UNCHANGED oid /\ (parquet' = parquet \/ parquet' = [parquet EXCEPT ![s] = @ \cup batch[s]])
      BY <1>2 DEF WriteParquet, FinalizeTrigram
    <3> QED BY <1>0, <3>1
  <2>2. /\ \A z \in Shards : tier["trigram"][z] \subseteq tier'["trigram"][z]
        /\ \A z \in Shards : z # s => tier'["trigram"][z] = tier["trigram"][z]
    <3>1. tier' = tier \/ tier' = [tier EXCEPT !["trigram"][s] = @ \cup batch[s]]
      BY <1>2 DEF WriteParquet, FinalizeTrigram
    <3>2. \A z \in Shards : z # s => tier'["trigram"][z] = tier["trigram"][z]
      BY <1>0, <3>1, TrigramLocal
    <3> QED BY <1>0, <3>1, <3>2, TrigramGrows
  <2>3. Rows[s] \subseteq Rows'[s] /\ Rows' = [Rows EXCEPT ![s] = Rows'[s]]
    BY <2>1, <2>2 DEF Rows
  <2>4. UNCHANGED <<oid, manifest, generation>>
    BY <2>1, ShardEffect
  <2>5. Corpus!Hold(s)
    BY <2>3, <2>4 DEF Corpus!Hold, Rows
  <2> QED BY <2>5 DEF Corpus!Next
<1>3. CASE SaveOid(s)
  <2>1. CASE repo[s] = oid[s]
    <3>1. oid' = oid
      BY <1>0, <1>3, <2>1, SaveOidEffect
    <3> QED BY <1>3, <3>1, SaveOidEffect, ShardEffect DEF Corpus!vars
  <2>2. CASE repo[s] # oid[s]
    <3>1. repo[s] > oid[s] /\ oid'[s] = repo[s]
      <4>1. oid' = [oid EXCEPT ![s] = repo[s]] /\ oid[s] <= repo[s]
        BY <1>3, SaveOidEffect
      <4> QED BY <1>0, <2>2, <4>1
    <3>2. oid' = [oid EXCEPT ![s] = oid'[s]]
      BY <1>3, <3>1, SaveOidEffect
    <3>3. UNCHANGED <<parquet, tier, manifest, generation>>
      BY <1>3, SaveOidEffect, ShardEffect
    <3>4. 1 .. oid'[s] \subseteq parquet[s] \cap tier["trigram"][s]
      BY <1>3, <3>1, SaveOidEffect
    <3>5. Corpus!Advance(s)
      BY <3>1, <3>2, <3>3, <3>4 DEF Corpus!Advance
    <3> QED BY <3>5 DEF Corpus!Next
  <2> QED BY <2>1, <2>2
<1> QED BY <1>1, <1>2, <1>3, ShardEffect

\* SyncRun implements Watermark: rows become readable in both tiers of the
\* corpus, a shard's oid moves only over readable rows, the manifest cache
\* promises only what the oids cover, and the generation moves by one.
THEOREM ImplementsWatermark == Spec => CorpusSpec
<1>1. Init => Corpus!Init
  BY DEF Init, Corpus!Init, PerShard, Tiers
<1>2. IInv /\ IInv' /\ [Next]_vars => [Corpus!Next]_(Corpus!vars)
  <2> SUFFICES ASSUME IInv, IInv', [Next]_vars PROVE [Corpus!Next]_(Corpus!vars)
    OBVIOUS
  <2>1. ASSUME NEW s \in Shards,
               FetchShard(s) \/ IngestStep(s) \/ FetchFails(s) \/ AttemptFails(s)
        PROVE  [Corpus!Next]_(Corpus!vars)
    BY <2>1, ShardRefines
  <2>2. CASE ~ \E s \in Shards : FetchShard(s) \/ IngestStep(s) \/ FetchFails(s) \/ AttemptFails(s)
    <3>1. UNCHANGED <<oid, parquet>> /\ tier'["trigram"] = tier["trigram"]
      BY <2>2, OtherEffect
    <3>2. CASE UNCHANGED <<generation, manifest>>
      BY <3>1, <3>2 DEF Corpus!vars
    <3>3. CASE generation' = generation + 1 /\ UNCHANGED manifest
      BY <3>1, <3>3 DEF Corpus!Next, Corpus!Announce
    <3>4. CASE UNCHANGED generation /\ \E p \in AllProcs : SaveManifest(p)
      <4>1. Corpus!Promise
        BY <3>1, <3>4 DEF Corpus!Promise, SaveManifest, IInv, ManifestCovered
      <4> QED BY <4>1 DEF Corpus!Next
    <3> QED BY <2>2, OtherEffect, <3>2, <3>3, <3>4
  <2> QED BY <2>1, <2>2
<1> QED BY <1>1, <1>2, Inductive, PTL DEF Spec, CorpusSpec, Corpus!Spec

=============================================================================
