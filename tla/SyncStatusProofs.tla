-------------------------- MODULE SyncStatusProofs --------------------------
(***************************************************************************)
(* Proofs about SyncStatus, for any number of runs, writers and callers    *)
(* and any heartbeat and staleness bounds with BeatEvery <= StaleAfter.    *)
(***************************************************************************)
EXTENDS SyncStatus, TLAPS

USE DEF HeartbeatReport

\* Stages follow stages, and a heavy stage is followed by heavy stages only.
LEMMA FollowsStages ==
    ASSUME NEW t \in Stages
    PROVE  /\ Follows(t) \subseteq Stages
           /\ t \in ShedStages => Follows(t) \subseteq ShedStages
  BY DEF Follows, Stages, ShedStages

\* The type invariant holds at the start.
LEMMA InitInv == Init => IInv
  BY ActorsAssumption, TimeAssumption, FileAssumption
     DEF Init, IInv, TypeOK, HolderInv, HeavyStageSheds, SyncAlive, HeavyRun, Stages, ShedStages

\* Types are preserved by every step.
LEMMA TypeStep == TypeOK /\ [Next]_vars => TypeOK'
<1> SUFFICES ASSUME TypeOK, [Next]_vars PROVE TypeOK'
  OBVIOUS
<1> USE DEF TypeOK
<1>1. ASSUME NEW p \in Syncs, TryLock(p) PROVE TypeOK'
  BY <1>1 DEF TryLock, callVars
<1>2. ASSUME NEW p \in Syncs, StartStatus(p) \/ SetStage(p) \/ Heartbeat(p) PROVE TypeOK'
  <2>1. PICK t \in Stages : /\ run' = run \/ run' = [run EXCEPT ![p] = t]
                            /\ json' = [stage |-> t, age |-> 0] /\ timer' = 0
    BY <1>2, FollowsStages DEF StartStatus, SetStage, Heartbeat, Report, Stages, BeatStages
  <2>2. json' \in Reports
    BY <2>1 DEF Reports
  <2>3. UNCHANGED <<lock, callVars, heavy, refused>>
    BY <1>2 DEF StartStatus, SetStage, Heartbeat
  <2> QED BY <2>1, <2>2, <2>3 DEF callVars
<1>3. ASSUME NEW p \in Syncs, FinishRun(p) \/ Killed(p) PROVE TypeOK'
  <2>1. heavy' \in [Callers -> BOOLEAN]
    <3>1. heavy' = [c \in Callers |-> heavy[c] /\ HeavyRun']
      BY <1>3 DEF FinishRun, Killed, NoLongerHeavy
    <3>2. \A c \in Callers : (heavy[c] /\ HeavyRun') \in BOOLEAN
      OBVIOUS
    <3> QED BY <3>1, <3>2, Zenon
  <2> QED BY <1>3, <2>1 DEF FinishRun, EndSteps, Killed, callVars, Stages
<1>4. ASSUME NEW o \in Others, OtherTakesLock(o) \/ OtherReleases(o) PROVE TypeOK'
  BY <1>4 DEF OtherTakesLock, OtherReleases, callVars
<1>5. ASSUME NEW c \in Callers, BeginCall(c) \/ BeginStatus(c) PROVE TypeOK'
  <2>1. heavy' \in [Callers -> BOOLEAN]
    BY <1>5, Zenon DEF BeginCall, BeginStatus, HeavyRun
  <2> QED BY <1>5, <2>1 DEF BeginCall, BeginStatus
<1>6. ASSUME NEW c \in Callers, CallStep(c) PROVE TypeOK'
  <2>1. saw' \in [Callers -> BOOLEAN]
    BY <1>6, Zenon DEF CallStep, ProbeLock, UnlockProbe, ReadStatus
  <2> QED BY <1>6, <2>1 DEF CallStep, ProbeLock, UnlockProbe, ReadStatus
<1>7. ASSUME Tick PROVE TypeOK'
  BY <1>7 DEF Tick, Reports, callVars
<1>8. CASE UNCHANGED vars
  BY <1>8 DEF vars, callVars
<1> QED BY <1>1, <1>2, <1>3, <1>4, <1>5, <1>6, <1>7, <1>8 DEF Next

\* HolderInv and HeavyStageSheds are preserved by every step.
LEMMA HolderStep == IInv /\ [Next]_vars => HolderInv' /\ HeavyStageSheds'
<1> SUFFICES ASSUME IInv, [Next]_vars PROVE HolderInv' /\ HeavyStageSheds'
  OBVIOUS
<1> USE ActorsAssumption, TimeAssumption, FileAssumption
<1>0. TypeOK /\ HolderInv /\ HeavyStageSheds /\ TypeOK'
  BY TypeStep DEF IInv
<1>a. \A c \in Callers : heavy[c] => lock \in Syncs /\ run[lock] \in ShedStages
  BY <1>0 DEF HolderInv, HeavyRun, ShedStages, Stages
<1>1. ASSUME NEW p \in Syncs, TryLock(p) PROVE HolderInv' /\ HeavyStageSheds'
  BY <1>0, <1>1 DEF TryLock, callVars, TypeOK, HolderInv, HeavyStageSheds, SyncAlive,
                    HeavyRun, Stages, ShedStages
<1>2. ASSUME NEW p \in Syncs, StartStatus(p) \/ SetStage(p) \/ Heartbeat(p)
      PROVE HolderInv' /\ HeavyStageSheds'
  <2>1. PICK t \in Stages : /\ run' = [run EXCEPT ![p] = t]
                            /\ run[p] \in ShedStages => t \in ShedStages
                            /\ json' = [stage |-> t, age |-> 0] /\ timer' = 0
    <3>1. CASE StartStatus(p)
      BY <3>1 DEF StartStatus, Report, Stages, ShedStages
    <3>2. CASE SetStage(p)
      BY <3>2, FollowsStages DEF SetStage, Report
    <3>3. CASE Heartbeat(p)
      BY <3>3, <1>0 DEF Heartbeat, Report, Stages, BeatStages, TypeOK
    <3> QED BY <1>2, <3>1, <3>2, <3>3
  <2>2. UNCHANGED <<lock, callVars, heavy, refused>>
    BY <1>2 DEF StartStatus, SetStage, Heartbeat
  <2>3. lock = p
    BY <1>2, <1>0 DEF StartStatus, SetStage, Heartbeat, HolderInv, Stages, BeatStages
  <2>4. json' # NoFile /\ json'.stage = t /\ json'.age = 0
    BY <2>1 DEF Reports
  <2>5. /\ \A q \in Syncs : run'[q] = IF q = p THEN t ELSE run[q]
        /\ \A q \in Syncs \ {p} : run[q] = "idle"
    BY <2>1, <2>3, <1>0 DEF TypeOK, HolderInv
  <2>6. \A c \in Callers : heavy[c] => run'[p] \in ShedStages
    BY <1>a, <2>1, <2>3, <2>5
  <2>7. HolderInv'
    BY <1>0, <2>1, <2>2, <2>3, <2>4, <2>5, <2>6
       DEF HolderInv, callVars, HeavyRun, Stages, SyncAlive
  <2> QED BY <1>0, <2>2, <2>7 DEF HeavyStageSheds, callVars
<1>3. ASSUME NEW p \in Syncs, FinishRun(p) \/ Killed(p) PROVE HolderInv' /\ HeavyStageSheds'
  <2>1. /\ \A c \in Callers : heavy'[c] = (heavy[c] /\ HeavyRun')
        /\ UNCHANGED <<timer, callVars>>
    BY <1>3 DEF FinishRun, Killed, NoLongerHeavy
  <2>2. lock = p /\ run[p] # "idle"
    BY <1>3, <1>0 DEF FinishRun, EndSteps, Killed, HolderInv, Stages
  <2>3. /\ run' \in [Syncs -> Stages \cup {"idle", "locked", "cleared"}]
        /\ \A q \in Syncs : run'[q] \notin Stages
        /\ \A q \in Syncs : run'[q] # "idle" <=> lock' = q
        /\ lock' \in {p, Free}
    <3>1. \A q \in Syncs \ {p} : run[q] = "idle"
      BY <1>0, <2>2 DEF HolderInv
    <3>2. run' \in [Syncs -> Stages \cup {"idle", "locked", "cleared"}]
      BY <1>0 DEF TypeOK
    <3> QED BY <1>3, <1>0, <2>2, <3>1, <3>2 DEF FinishRun, EndSteps, Killed, TypeOK, Stages
  <2>4. ~SyncAlive' /\ ~HeavyRun'
    BY <2>3 DEF SyncAlive, HeavyRun, ShedStages
  <2> QED BY <1>0, <2>1, <2>2, <2>3, <2>4 DEF HolderInv, HeavyStageSheds, callVars
<1>4. ASSUME NEW o \in Others, OtherTakesLock(o) \/ OtherReleases(o)
      PROVE HolderInv' /\ HeavyStageSheds'
  BY <1>0, <1>4 DEF OtherTakesLock, OtherReleases, callVars, TypeOK, HolderInv,
                    HeavyStageSheds, SyncAlive, HeavyRun
<1>5. ASSUME NEW c \in Callers, BeginCall(c) \/ BeginStatus(c)
      PROVE HolderInv' /\ HeavyStageSheds'
  <2>1. UNCHANGED <<lock, json, run, timer, saw>>
    BY <1>5 DEF BeginCall, BeginStatus
  <2>2. HeavyRun' = HeavyRun /\ SyncAlive' = SyncAlive
    BY <2>1 DEF HeavyRun, SyncAlive
  <2>3. call[c] = "idle" /\ call'[c] \in {"idle", "exists"}
    BY <1>0, <1>5 DEF BeginCall, BeginStatus, TypeOK
  <2>4. /\ heavy'[c] = HeavyRun
        /\ \A d \in Callers \ {c} : /\ heavy'[d] = heavy[d] /\ call'[d] = call[d]
                                    /\ answer'[d] = answer[d]
    BY <1>0, <1>5 DEF BeginCall, BeginStatus, TypeOK
  <2>5. answer'[c] = "served" => ~HeavyRun
    <3> SUFFICES ASSUME answer'[c] = "served" PROVE ~HeavyRun
      OBVIOUS
    <3>1. json = NoFile
      BY <1>0, <1>5 DEF BeginCall, BeginStatus, TypeOK
    <3> QED BY <1>0, <3>1 DEF HolderInv, HeavyRun, SyncAlive, ShedStages
  <2>6. HolderInv'
    BY <1>0, <2>1, <2>2, <2>3, <2>4 DEF HolderInv
  <2> QED BY <1>0, <2>4, <2>5, <2>6 DEF HeavyStageSheds
<1>6. ASSUME NEW c \in Callers, CallStep(c) PROVE HolderInv' /\ HeavyStageSheds'
  <2>1. UNCHANGED <<json, run, timer, heavy>>
    BY <1>6 DEF CallStep, ProbeLock, UnlockProbe, ReadStatus
  <2>2. HeavyRun' = HeavyRun /\ SyncAlive' = SyncAlive
    BY <2>1 DEF HeavyRun, SyncAlive
  <2>3. CASE ProbeLock(c)
    <3>1. heavy[c] => lock # Free
      BY <1>a
    <3>2. answer' = answer /\ saw'[c] = (lock # Free)
          /\ \A d \in Callers \ {c} : saw'[d] = saw[d] /\ call'[d] = call[d]
      BY <1>0, <2>3 DEF ProbeLock, TypeOK
    <3>3. (\A d \in Callers : call'[d] = "probing" <=> lock' = d)
          /\ (lock' = lock \/ (lock = Free /\ lock' = c))
      BY <1>0, <2>3 DEF ProbeLock, TypeOK, HolderInv
    <3>4. HolderInv'
      BY <1>0, <2>1, <2>2, <3>1, <3>2, <3>3 DEF HolderInv
    <3> QED BY <1>0, <2>1, <3>2, <3>4 DEF HeavyStageSheds
  <2>4. CASE UnlockProbe(c)
    BY <1>0, <2>1, <2>2, <2>4 DEF UnlockProbe, TypeOK, HolderInv, HeavyStageSheds
  <2>5. CASE ReadStatus(c)
    <3>1. heavy[c] => Sheds(c)
      <4> SUFFICES ASSUME heavy[c] PROVE Sheds(c)
        OBVIOUS
      <4>1. saw[c]
        BY <1>0, <2>5 DEF ReadStatus, HolderInv
      <4>2. lock \in Syncs /\ run[lock] \in ShedStages /\ run[lock] \in Stages
        BY <1>a DEF ShedStages
      <4>3. SyncAlive
        BY <4>2 DEF SyncAlive
      <4>4. json # NoFile /\ json.age <= timer /\ timer <= BeatEvery
            /\ json.stage \in ShedStages
        BY <1>0, <4>2, <4>3 DEF HolderInv
      <4>5. json.age \in Nat /\ timer \in Nat
        BY <1>0, <4>4 DEF TypeOK, Reports
      <4> QED BY <4>1, <4>4, <4>5 DEF Sheds
    <3>2. HolderInv'
      BY <1>0, <2>1, <2>2, <2>5 DEF ReadStatus, TypeOK, HolderInv
    <3> QED BY <1>0, <2>1, <2>5, <3>1, <3>2 DEF ReadStatus, TypeOK, HeavyStageSheds
  <2> QED BY <1>6, <2>3, <2>4, <2>5 DEF CallStep
<1>7. ASSUME Tick PROVE HolderInv' /\ HeavyStageSheds'
  <2>1. UNCHANGED <<lock, run, callVars, heavy>> /\ (SyncAlive => timer < BeatEvery)
    BY <1>7 DEF Tick
  <2>2. HeavyRun' = HeavyRun /\ SyncAlive' = SyncAlive
    BY <2>1 DEF HeavyRun, SyncAlive
  <2>3. SyncAlive => timer' = timer + 1 /\ timer' <= BeatEvery
    BY <1>0, <1>7 DEF Tick, TypeOK
  <2>4. json # NoFile => /\ json' # NoFile /\ json'.stage = json.stage
                         /\ json'.age <= json.age + 1
    BY <1>0, <1>7 DEF Tick, TypeOK, Reports
  <2>5. SyncAlive => json' # NoFile /\ json'.age <= timer'
    <3> SUFFICES ASSUME SyncAlive PROVE json' # NoFile /\ json'.age <= timer'
      OBVIOUS
    <3>1. json # NoFile /\ json.age <= timer
      BY <1>0 DEF HolderInv
    <3>2. json.age \in Nat /\ json'.age \in Nat /\ timer \in Nat
      BY <1>0, <3>1, <2>4 DEF TypeOK, Reports
    <3> QED BY <2>3, <2>4, <3>1, <3>2
  <2>6. \A p \in Syncs : run[p] \in Stages => json'.stage = run[p]
    BY <1>0, <2>4 DEF HolderInv, SyncAlive
  <2>7. HolderInv'
    BY <1>0, <2>1, <2>2, <2>3, <2>5, <2>6 DEF HolderInv, callVars
  <2> QED BY <1>0, <2>1, <2>7 DEF HeavyStageSheds, callVars
<1>8. CASE UNCHANGED vars
  BY <1>0, <1>8 DEF vars, callVars, HolderInv, HeavyStageSheds, SyncAlive, HeavyRun
<1> QED BY <1>1, <1>2, <1>3, <1>4, <1>5, <1>6, <1>7, <1>8 DEF Next

\* IInv is an inductive invariant of SyncStatus: at most one run holds the
\* lock, only its reports are on disk, and they are as fresh as its timer.
THEOREM Inductive == Spec => []IInv
<1>1. IInv /\ [Next]_vars => IInv'
  BY TypeStep, HolderStep DEF IInv
<1> QED BY InitInv, <1>1, PTL DEF Spec

\* For any number of callers, probes, runs and other writers: a moderate or
\* expensive call whose admission check falls inside a writer-heavy stage is
\* never served (health.py, should_shed_tool_call).
THEOREM HeavyCallsAreShed == Spec => []HeavyStageSheds
<1>1. IInv => HeavyStageSheds
  BY DEF IInv
<1> QED BY Inductive, <1>1, PTL

\* The status file of a live run is its own and fresh: no run ever removes,
\* replaces or outlives the status of another (bin/sync.rs, drop order).
THEOREM StatusAlwaysOwned == Spec => []StatusOwned
<1>1. IInv => StatusOwned
  <2> SUFFICES ASSUME IInv, NEW p \in Syncs, run[p] \in Stages
               PROVE  json # NoFile /\ json.stage = run[p] /\ json.age <= StaleAfter
    BY DEF StatusOwned
  <2>1. json # NoFile /\ json.stage = run[p] /\ json.age <= timer /\ timer <= BeatEvery
    BY DEF IInv, HolderInv, SyncAlive
  <2>2. json.age \in Nat /\ timer \in Nat
    BY <2>1 DEF IInv, TypeOK, Reports
  <2> QED BY <2>1, <2>2, TimeAssumption
<1> QED BY Inductive, <1>1, PTL

==============================================================================
