----------------------------- MODULE SyncStatus -----------------------------
(***************************************************************************)
(* Serving processes shed moderate and expensive tool calls while a sync   *)
(* run is in a writer-heavy stage (health.py, cost_class.py).  They learn  *)
(* it from two files of the data directory: state/sync.json, which the run *)
(* rewrites at every stage and from a heartbeat thread (bin/sync.rs,       *)
(* SyncStateReporter), and state/writer.lock, which they probe by taking   *)
(* it for a moment.  Neither read is atomic with the other.                *)
(*                                                                         *)
(* Time is counted in heartbeat intervals.  The calls are those of the     *)
(* moderate and expensive classes; a cheap call returns before any probe.  *)
(* The data directory has been written to before: the lock file exists.    *)
(***************************************************************************)
EXTENDS Naturals

CONSTANTS
    Syncs,       \* processes that run kernel-lore-sync
    Others,      \* processes that hold the lock and report nothing
    Callers,     \* serving processes, each with one call or probe at a time
    Free,        \* nobody holds the writer lock
    NoFile,      \* state/sync.json does not exist
    BeatEvery,   \* bound on the time between two writes of a live run
    StaleAfter   \* _ACTIVE_SYNC_STALE_AFTER_SECONDS

ASSUME ActorsAssumption ==
    /\ Free \notin Syncs \cup Others \cup Callers
    /\ Syncs \cap Others = {} /\ Syncs \cap Callers = {} /\ Others \cap Callers = {}
ASSUME TimeAssumption ==
    BeatEvery \in Nat /\ StaleAfter \in Nat /\ BeatEvery <= StaleAfter

Stages == {"starting", "fetch", "ingest", "bm25_commit", "tid_rebuild",
           "path_vocab_rebuild", "generation_bump", "save_manifest"}
\* _SYNC_SHED_STAGES.
ShedStages == Stages \ {"starting", "fetch"}
\* The stages that keep a heartbeat thread.
BeatStages == Stages \ {"starting", "generation_bump", "save_manifest"}

Reports == [stage : Stages, age : Nat]
ASSUME FileAssumption == NoFile \notin Reports

VARIABLES
    lock,    \* holder of state/writer.lock
    json,    \* state/sync.json: stage and age of its last heartbeat
    run,     \* [Syncs -> where the run is]
    timer,   \* time since the live run last wrote its status
    call,    \* [Callers -> where the call's admission check is]
    saw,     \* [Callers -> what the probe of the lock returned]
    answer,  \* [Callers -> outcome of the last admission check]
    \* -- observers
    heavy,   \* [Callers -> a heavy stage has lasted since the call began]
    refused  \* [Syncs -> kind of process that refused the last attempt]

callVars == <<call, saw, answer>>
vars == <<lock, json, run, timer, callVars, heavy, refused>>

Init ==
    /\ lock = Free /\ json = NoFile /\ timer = 0
    /\ run = [p \in Syncs |-> "idle"]
    /\ call = [c \in Callers |-> "idle"] /\ saw = [c \in Callers |-> FALSE]
    /\ answer = [c \in Callers |-> "none"]
    /\ heavy = [c \in Callers |-> FALSE] /\ refused = [p \in Syncs |-> "nobody"]

SyncAlive == \E p \in Syncs : run[p] \in Stages
HeavyRun == \E p \in Syncs : run[p] \in ShedStages

------------------------------------------------------------------------------
(* Processes that write.                                                    *)

\* One non-blocking attempt; a refused run exits and a timer starts another.
TryLock(p) ==
    /\ run[p] = "idle"
    /\ IF lock = Free
       THEN /\ lock' = p /\ run' = [run EXCEPT ![p] = "locked"]
            /\ UNCHANGED refused
       ELSE /\ refused' = [refused EXCEPT ![p] =
                              IF lock \in Callers THEN "reader" ELSE "writer"]
            /\ UNCHANGED <<lock, run>>
    /\ UNCHANGED <<json, timer, callVars, heavy>>

\* The stages of a run in order; the rebuilds and the bump are optional.
Follows(t) ==
    CASE t = "starting"    -> {"fetch"}
      [] t = "fetch"       -> {"ingest"}
      [] t = "ingest"      -> ShedStages \ {"ingest"}
      [] t = "bm25_commit" -> ShedStages \ {"ingest", "bm25_commit"}
      [] t = "tid_rebuild" -> {"path_vocab_rebuild", "generation_bump", "save_manifest"}
      [] t = "path_vocab_rebuild" -> {"generation_bump", "save_manifest"}
      [] t = "generation_bump"    -> {"save_manifest"}
      [] OTHER -> {}

\* Every write of the status replaces the file by rename.
Report(stage) == /\ json' = [stage |-> stage, age |-> 0] /\ timer' = 0

StartStatus(p) ==
    /\ run[p] = "locked"
    /\ run' = [run EXCEPT ![p] = "starting"]
    /\ Report("starting")
    /\ UNCHANGED <<lock, callVars, heavy, refused>>

SetStage(p) ==
    /\ run[p] \in Stages
    /\ \E t \in Follows(run[p]) : run' = [run EXCEPT ![p] = t] /\ Report(t)
    /\ UNCHANGED <<lock, callVars, heavy, refused>>

\* The heartbeat thread writes the stage it was started for; it is joined
\* before the run sets the next stage.
ForgottenTimestamp(p) == /\ json' = [json EXCEPT !.stage = run[p]] /\ timer' = 0
HeartbeatReport(p) == Report(run[p])

Heartbeat(p) ==
    /\ run[p] \in BeatStages /\ timer > 0
    /\ HeartbeatReport(p)
    /\ UNCHANGED <<lock, run, callVars, heavy, refused>>

\* The run ends, after its last stage, after a fetch phase without a shard or
\* by an error of any stage: the status file is removed, then the lock is
\* released.
ReleasedFirst(p) ==
    \/ /\ run[p] \in Stages
       /\ run' = [run EXCEPT ![p] = "cleared"]
       /\ lock' = Free /\ UNCHANGED json
    \/ /\ run[p] = "cleared"
       /\ run' = [run EXCEPT ![p] = "idle"]
       /\ json' = NoFile /\ UNCHANGED lock

EndSteps(p) ==
    \/ /\ run[p] \in Stages
       /\ run' = [run EXCEPT ![p] = "cleared"]
       /\ json' = NoFile /\ UNCHANGED lock
    \/ /\ run[p] = "cleared"
       /\ run' = [run EXCEPT ![p] = "idle"]
       /\ lock' = Free /\ UNCHANGED json

NoLongerHeavy == heavy' = [c \in Callers |-> heavy[c] /\ HeavyRun']

FinishRun(p) ==
    /\ EndSteps(p)
    /\ NoLongerHeavy
    /\ UNCHANGED <<timer, callVars, refused>>

\* SIGKILL: the kernel drops the lock, the status file stays behind.
Killed(p) ==
    /\ run[p] # "idle"
    /\ run' = [run EXCEPT ![p] = "idle"]
    /\ lock' = Free
    /\ NoLongerHeavy
    /\ UNCHANGED <<json, timer, callVars, refused>>

\* kernel-lore-reindex, kernel-lore-ingest, kernel-lore-doctor.
OtherTakesLock(o) ==
    /\ lock = Free /\ lock' = o
    /\ UNCHANGED <<json, run, timer, callVars, heavy, refused>>

OtherReleases(o) ==
    /\ lock = o /\ lock' = Free
    /\ UNCHANGED <<json, run, timer, callVars, heavy, refused>>

------------------------------------------------------------------------------
(* Processes that serve: should_shed_tool_call.                             *)

\* read_sync_state without a file is None: the call is admitted.
BeginCall(c) ==
    /\ call[c] = "idle"
    /\ heavy' = [heavy EXCEPT ![c] = HeavyRun]
    /\ IF json = NoFile
       THEN answer' = [answer EXCEPT ![c] = "served"] /\ UNCHANGED call
       ELSE answer' = [answer EXCEPT ![c] = "none"]
            /\ call' = [call EXCEPT ![c] = "exists"]
    /\ UNCHANGED <<lock, json, run, timer, saw, refused>>

\* GET /status, the freshness envelope and retry hints probe the lock first,
\* whether there is a status file or not.
BeginStatus(c) ==
    /\ call[c] = "idle"
    /\ heavy' = [heavy EXCEPT ![c] = HeavyRun]
    /\ answer' = [answer EXCEPT ![c] = "none"]
    /\ call' = [call EXCEPT ![c] = "exists"]
    /\ UNCHANGED <<lock, json, run, timer, saw, refused>>

\* writer_lock_present: a free lock is taken, and given back in a next step.
ProbeLock(c) ==
    /\ call[c] = "exists"
    /\ saw' = [saw EXCEPT ![c] = lock # Free]
    /\ IF lock = Free
       THEN lock' = c /\ call' = [call EXCEPT ![c] = "probing"]
       ELSE UNCHANGED lock /\ call' = [call EXCEPT ![c] = "probed"]
    /\ UNCHANGED <<json, run, timer, answer, heavy, refused>>

UnlockProbe(c) ==
    /\ call[c] = "probing"
    /\ lock' = Free /\ call' = [call EXCEPT ![c] = "probed"]
    /\ UNCHANGED <<json, run, timer, saw, answer, heavy, refused>>

\* The file is read now, and may be gone or another run's.
LockAndStage(c) == /\ json # NoFile /\ saw[c] /\ json.stage \in ShedStages
Sheds(c) == /\ json # NoFile /\ saw[c] /\ json.age <= StaleAfter
            /\ json.stage \in ShedStages

ReadStatus(c) ==
    /\ call[c] = "probed"
    /\ call' = [call EXCEPT ![c] = "idle"]
    /\ answer' = [answer EXCEPT ![c] = IF Sheds(c) THEN "shed" ELSE "served"]
    /\ UNCHANGED <<lock, json, run, timer, saw, heavy, refused>>

------------------------------------------------------------------------------
\* Time passes, for a live run only until its next write is due: the
\* heartbeat thread is scheduled, and the stages without one are short.
Tick ==
    /\ SyncAlive => timer < BeatEvery
    /\ timer' = IF SyncAlive THEN timer + 1 ELSE 0
    /\ json' = IF json # NoFile /\ json.age <= StaleAfter
               THEN [json EXCEPT !.age = @ + 1] ELSE json
    /\ UNCHANGED <<lock, run, callVars, heavy, refused>>

CallStep(c) == ProbeLock(c) \/ UnlockProbe(c) \/ ReadStatus(c)

Next ==
    \/ \E p \in Syncs : \/ TryLock(p) \/ StartStatus(p) \/ SetStage(p)
                        \/ Heartbeat(p) \/ FinishRun(p) \/ Killed(p)
    \/ \E o \in Others : OtherTakesLock(o) \/ OtherReleases(o)
    \/ \E c \in Callers : BeginCall(c) \/ BeginStatus(c) \/ CallStep(c)
    \/ Tick

Spec == Init /\ [][Next]_vars

\* Clocks advance and an admission check that has begun is carried on.
FairSpec == Spec /\ WF_vars(Tick) /\ \A c \in Callers : WF_vars(CallStep(c))

------------------------------------------------------------------------------
(* Properties.                                                              *)

\* Every variable has its type.
TypeOK ==
    /\ lock \in Syncs \cup Others \cup Callers \cup {Free}
    /\ json \in Reports \cup {NoFile}
    /\ run \in [Syncs -> Stages \cup {"idle", "locked", "cleared"}]
    /\ timer \in Nat
    /\ call \in [Callers -> {"idle", "exists", "probing", "probed"}]
    /\ saw \in [Callers -> BOOLEAN] /\ answer \in [Callers -> {"none", "served", "shed"}]
    /\ heavy \in [Callers -> BOOLEAN]
    /\ refused \in [Syncs -> {"nobody", "reader", "writer"}]

\* While a run is in a stage the status file is its own, names that stage
\* and is fresh: no other run, ending or starting, removes or replaces it
\* (bin/sync.rs, the order in which the cleaner and the lock are dropped).
StatusOwned ==
    \A p \in Syncs : run[p] \in Stages =>
        json # NoFile /\ json.stage = run[p] /\ json.age <= StaleAfter

\* A call whose whole admission check falls in a writer-heavy stage is shed,
\* whatever other probes, runs and writers do between its three reads
\* (health.py, should_shed_tool_call).
HeavyStageSheds == \A c \in Callers : answer[c] = "served" => ~heavy[c]

\* A status file left behind does not shed calls for ever: once no run is
\* alive, some call is the last one shed, even if another writer keeps the
\* lock or probes keep meeting each other (health.py, the heartbeat age).
ShedStep == \E c \in Callers : answer[c] # "shed" /\ answer'[c] = "shed"
LeftoverExpires == <>[](~SyncAlive) => <>[][~ShedStep]_vars

\* What makes the two hold: a live run holds the lock and writes in time.
HolderInv ==
    /\ \A p \in Syncs : run[p] # "idle" <=> lock = p
    /\ \A c \in Callers : call[c] = "probing" <=> lock = c
    /\ SyncAlive => timer <= BeatEvery /\ json # NoFile /\ json.age <= timer
    /\ \A p \in Syncs : run[p] \in Stages => json.stage = run[p]
    /\ \A c \in Callers :
          /\ heavy[c] => HeavyRun
          /\ heavy[c] /\ call[c] \in {"probing", "probed"} => saw[c]

IInv == TypeOK /\ HolderInv /\ HeavyStageSheds

\* state.rs:166-168 "Query processes may open readers freely; they never
\* contend for this lock": a sync run is refused by another writer only.
RefusedByWriter == \A p \in Syncs : refused[p] # "reader"

==============================================================================
