---------------------------- MODULE SegmentStore ----------------------------
(***************************************************************************)
(* The compressed message store of one list (store.rs) as the shards of    *)
(* that list use it during sync runs (ingest.rs, bin/sync.rs): parallel    *)
(* workers append frames through one SegmentWriter behind a mutex, flush,  *)
(* and then commit metadata rows that point at their frames.               *)
(*                                                                         *)
(* A byte offset is counted in cells: the frame of a message is FrameCells *)
(* cells, and a write that fails half way leaves a proper prefix of them.  *)
(* What the page cache holds is `disk`; what survives a power loss is the  *)
(* `synced` prefix of each segment and whatever else happened to be        *)
(* written back.                                                           *)
(***************************************************************************)
EXTENDS Naturals, Sequences, FiniteSets

CONSTANTS
    Workers,     \* shards of the list, ingested in parallel
    Walk,        \* messages of one shard's walk, 1 .. Walk
    FrameCells,  \* cells of a compressed frame
    RollAt,      \* SEGMENT_ROLL_BYTES, in cells
    MaxRetries,  \* --max-retries
    FaultKinds,  \* the faults the environment may inject
    MaxFaults,   \* bound: injected faults in a behaviour
    MaxRuns      \* bound: runs that open the store

ASSUME StoreAssumption ==
    /\ Walk \in Nat /\ FrameCells \in Nat \ {0} /\ RollAt \in Nat \ {0}
    /\ MaxRetries \in Nat /\ MaxFaults \in Nat /\ MaxRuns \in Nat

VARIABLES
    disk,     \* [segment ids -> Seq(Cells)] segment-NNNNNN.zst
    synced,   \* [segment ids -> Nat] cells that sync_all has reached
    writer,   \* the SegmentWriter: its id, the id of its open file, position
    work,     \* [Workers -> state of the shard's ingest]
    ptrs,     \* [Workers -> offsets appended by the current attempt]
    attempt,  \* [Workers -> Nat]
    rows,     \* metadata rows: message and pointer
    runs, faults

fileVars == <<disk, synced>>
workVars == <<work, ptrs, attempt>>
vars == <<fileVars, writer, workVars, rows, runs, faults>>

------------------------------------------------------------------------------
Messages == Workers \X (1 .. Walk)
Frame(m) == [k \in 1 .. FrameCells |-> <<m, k>>]
Closed == [id |-> 0, file |-> 0, position |-> 0, open |-> FALSE]
Broken == <<>>

\* The one frame read_at decodes from a segment at an offset.
ReadAt(seg, off) ==
    IF seg \in DOMAIN disk /\ off + FrameCells <= Len(disk[seg])
    THEN LET got == SubSeq(disk[seg], off + 1, off + FrameCells)
         IN  IF \E m \in Messages : got = Frame(m)
             THEN got[1][1] ELSE Broken
    ELSE Broken

Init ==
    /\ disk = <<>> /\ synced = <<>>
    /\ writer = Closed
    /\ work = [w \in Workers |-> "idle"] /\ ptrs = [w \in Workers |-> <<>>]
    /\ attempt = [w \in Workers |-> 0]
    /\ rows = {} /\ runs = 0 /\ faults = 0

Fault(kind) ==
    /\ kind \in FaultKinds /\ faults < MaxFaults
    /\ faults' = faults + 1

\* A map extended or updated at one key.
Put(f, k, v) == [i \in DOMAIN f \cup {k} |-> IF i = k THEN v ELSE f[i]]

------------------------------------------------------------------------------
(* A run.                                                                   *)

\* Store::open: the highest segment, created when there is none, appended to
\* from its length.
HighestSegment == CHOOSE i \in DOMAIN disk : \A j \in DOMAIN disk : j <= i

SyncedLength == synced[HighestSegment]
LengthOnDisk == Len(disk[HighestSegment])

OpenStore ==
    /\ ~writer.open /\ runs < MaxRuns
    /\ runs' = runs + 1
    /\ IF DOMAIN disk = {}
       THEN /\ disk' = Put(disk, 0, <<>>) /\ synced' = Put(synced, 0, 0)
            /\ writer' = [id |-> 0, file |-> 0, position |-> 0, open |-> TRUE]
       ELSE /\ writer' = [id |-> HighestSegment, file |-> HighestSegment,
                          position |-> LengthOnDisk, open |-> TRUE]
            /\ UNCHANGED fileVars
    /\ work' = [w \in Workers |-> "walk"]
    /\ UNCHANGED <<ptrs, attempt, rows, faults>>

\* What `append` does before it writes: past the threshold the old file is
\* synced and the next id is created.
Full == writer.position >= RollAt
RolledTo(durable, position) ==
    IF Full
    THEN [disk |-> Put(disk, writer.id + 1, <<>>),
          synced |-> Put(Put(synced, writer.file, durable), writer.id + 1, 0),
          writer |-> [id |-> writer.id + 1, file |-> writer.id + 1,
                      position |-> position, open |-> TRUE]]
    ELSE [disk |-> disk, synced |-> synced, writer |-> writer]
UnsyncedRoll == RolledTo(synced[writer.file], 0)
KeptPositionRoll == RolledTo(Len(disk[writer.file]), writer.position)
RollStep == RolledTo(Len(disk[writer.file]), 0)

\* The file is opened for append: cells go to its end, wherever the writer
\* believes the end to be.
Appended(r, cells) == Put(r.disk, r.writer.file, r.disk[r.writer.file] \o cells)

AppendFrame(w) ==
    /\ work[w] = "walk" /\ Len(ptrs[w]) < Walk
    /\ LET r == RollStep
       IN  /\ disk' = Appended(r, Frame(<<w, Len(ptrs[w]) + 1>>))
           /\ synced' = r.synced
           /\ writer' = [r.writer EXCEPT !.position = @ + FrameCells]
           /\ ptrs' = [ptrs EXCEPT ![w] = Append(@, <<r.writer.id, r.writer.position>>)]
    /\ UNCHANGED <<work, attempt, rows, runs, faults>>

\* A failed attempt starts over with the same writer.
NextAttempt(w) ==
    /\ ptrs' = [ptrs EXCEPT ![w] = <<>>]
    /\ IF attempt[w] < MaxRetries
       THEN /\ work' = [work EXCEPT ![w] = "walk"]
            /\ attempt' = [attempt EXCEPT ![w] = @ + 1]
       ELSE /\ work' = [work EXCEPT ![w] = "failed"]
            /\ UNCHANGED attempt

\* write_all fails after some cells (a full disk): the position stays.
ShortWrite(w) ==
    /\ work[w] = "walk" /\ Len(ptrs[w]) < Walk
    /\ Fault("short")
    /\ \E k \in 0 .. FrameCells - 1 :
          LET r == RollStep
          IN  /\ disk' = Appended(r, SubSeq(Frame(<<w, Len(ptrs[w]) + 1>>), 1, k))
              /\ synced' = r.synced /\ writer' = r.writer
    /\ NextAttempt(w)
    /\ UNCHANGED <<rows, runs>>

\* The roll fails after the id was advanced: the next file was not created.
RollFails(w) ==
    /\ work[w] = "walk" /\ Len(ptrs[w]) < Walk /\ Full
    /\ Fault("roll")
    /\ writer' = [writer EXCEPT !.id = @ + 1]
    /\ synced' = Put(synced, writer.file, Len(disk[writer.file]))
    /\ NextAttempt(w)
    /\ UNCHANGED <<disk, rows, runs>>

\* Any other error of the attempt: git, the parser, Parquet.
AttemptFails(w) ==
    /\ work[w] \in {"walk", "flushed"}
    /\ Fault("attempt")
    /\ NextAttempt(w)
    /\ UNCHANGED <<fileVars, writer, rows, runs>>

\* After the walk, sync_all on the file that is active by then.
FlushedId == Put(synced, writer.id, writer.position)
FlushedActive == Put(synced, writer.file, Len(disk[writer.file]))

Flush(w) ==
    /\ work[w] = "walk" /\ Len(ptrs[w]) = Walk
    /\ synced' = FlushedActive
    /\ work' = [work EXCEPT ![w] = "flushed"]
    /\ UNCHANGED <<disk, writer, ptrs, attempt, rows, runs, faults>>

\* The Parquet rows of the attempt.
CommitRows(w) ==
    /\ work[w] = "flushed"
    /\ rows' = rows \cup {[msg |-> <<w, n>>, seg |-> ptrs[w][n][1], off |-> ptrs[w][n][2]] :
                           n \in 1 .. Walk}
    /\ work' = [work EXCEPT ![w] = "done"]
    /\ ptrs' = [ptrs EXCEPT ![w] = <<>>]
    /\ UNCHANGED <<fileVars, writer, attempt, runs, faults>>

EndOfProcess ==
    /\ writer' = Closed
    /\ work' = [w \in Workers |-> "idle"] /\ ptrs' = [w \in Workers |-> <<>>]
    /\ attempt' = [w \in Workers |-> 0]

EndRun ==
    /\ writer.open /\ \A w \in Workers : work[w] \in {"done", "failed"}
    /\ EndOfProcess
    /\ UNCHANGED <<fileVars, rows, runs, faults>>

\* The process is killed, possibly in the middle of a write.
Crash ==
    /\ writer.open /\ Fault("crash")
    /\ \/ UNCHANGED fileVars
       \/ \E w \in Workers, k \in 1 .. FrameCells - 1 :
             /\ work[w] = "walk" /\ Len(ptrs[w]) < Walk
             /\ disk' = Appended(RollStep, SubSeq(Frame(<<w, Len(ptrs[w]) + 1>>), 1, k))
             /\ synced' = RollStep.synced
    /\ EndOfProcess
    /\ UNCHANGED <<rows, runs>>

\* The machine loses power: what sync_all has not reached is cut anywhere.
PowerLoss ==
    /\ Fault("power")
    /\ \E kept \in [DOMAIN disk -> UNION {synced[i] .. Len(disk[i]) : i \in DOMAIN disk}] :
          /\ \A i \in DOMAIN disk : kept[i] \in synced[i] .. Len(disk[i])
          /\ disk' = [i \in DOMAIN disk |-> SubSeq(disk[i], 1, kept[i])]
          /\ synced' = kept
    /\ EndOfProcess
    /\ UNCHANGED <<rows, runs>>

------------------------------------------------------------------------------
Next ==
    \/ OpenStore \/ EndRun \/ Crash \/ PowerLoss
    \/ \E w \in Workers :
          \/ AppendFrame(w) \/ Flush(w) \/ CommitRows(w)
          \/ RollFails(w) \/ AttemptFails(w)

Spec == Init /\ [][Next]_vars

\* The same on a disk that can fill up.
NextOnFullDisk == Next \/ \E w \in Workers : ShortWrite(w)
SpecOnFullDisk == Init /\ [][NextOnFullDisk]_vars

------------------------------------------------------------------------------
(* Properties.                                                              *)

Cells == Messages \X (1 .. FrameCells)
Pointers == Nat \X Nat

\* Every variable has its type.
TypeOK ==
    /\ DOMAIN disk \in SUBSET Nat /\ DOMAIN synced = DOMAIN disk
    /\ \A i \in DOMAIN disk :
          disk[i] \in Seq(Cells) /\ synced[i] \in 0 .. Len(disk[i])
    /\ writer \in [id : Nat, file : Nat, position : Nat, open : BOOLEAN]
    /\ writer.open => writer.file \in DOMAIN disk
    /\ work \in [Workers -> {"idle", "walk", "flushed", "done", "failed"}]
    /\ ptrs \in [Workers -> Seq(Pointers)] /\ attempt \in [Workers -> 0 .. MaxRetries]
    /\ rows \subseteq [msg : Messages, seg : Nat, off : Nat]
    /\ runs \in 0 .. MaxRuns /\ faults \in 0 .. MaxFaults

\* Every metadata row reads back the message it was written for, whatever
\* workers were interleaved, segments rolled, attempts retried, processes
\* killed in the middle of a write or machines switched off in between
\* (store.rs `append` and `read_at`, ingest.rs:277-289).
RowsReadable == \A r \in rows : ReadAt(r.seg, r.off) = r.msg

\* No row points at cells that a power loss could still take: the flush of
\* one shard and the rolls of all of them cover its frames, also those it
\* appended to a segment that another shard has since filled.
RowsDurable ==
    \A r \in rows : r.seg \in DOMAIN synced /\ r.off + FrameCells <= synced[r.seg]

\* The cached counter of the open writer is the end of its file.
PositionHonest == writer.open => writer.position = Len(disk[writer.file])

------------------------------------------------------------------------------
(* The inductive invariant.                                                 *)

\* There is a highest segment, and every other one was synced to its end
\* before its successor was created.
FileInv ==
    /\ DOMAIN disk # {} => \E top \in DOMAIN disk : \A j \in DOMAIN disk : j <= top
    /\ \A i, j \in DOMAIN disk : i < j => synced[i] = Len(disk[i])

\* The open writer appends at the end of the highest segment; its id is that
\* segment's, or a roll is due.
WriterInv ==
    writer.open =>
        /\ \A j \in DOMAIN disk : j <= writer.file
        /\ writer.file <= writer.id /\ (writer.id = writer.file \/ Full)
        /\ writer.position = Len(disk[writer.file])

\* The frame of message m is in segment seg of files at off; a power loss
\* leaves it there when the segment is synced up to its end.
HoldsFrame(files, seg, off, m) ==
    /\ seg \in DOMAIN files /\ off + FrameCells <= Len(files[seg])
    /\ \A k \in 1 .. FrameCells : files[seg][off + k] = <<m, k>>
DurableFrame(durable, seg, off) == off + FrameCells <= durable[seg]

\* A worker's offsets are its frames, in the order of its walk; after its
\* flush they are durable.
OffsetsHeld(w) ==
    /\ Len(ptrs[w]) <= Walk
    /\ work[w] = "flushed" => Len(ptrs[w]) = Walk
    /\ work[w] \in {"idle", "done", "failed"} => ptrs[w] = <<>>
    /\ ~writer.open => work[w] = "idle"
    /\ \A n \in 1 .. Len(ptrs[w]) :
          /\ HoldsFrame(disk, ptrs[w][n][1], ptrs[w][n][2], <<w, n>>)
          /\ work[w] = "flushed" => DurableFrame(synced, ptrs[w][n][1], ptrs[w][n][2])
PtrInv == \A w \in Workers : OffsetsHeld(w)

RowInv ==
    \A r \in rows : HoldsFrame(disk, r.seg, r.off, r.msg) /\ DurableFrame(synced, r.seg, r.off)

IInv == TypeOK /\ FileInv /\ WriterInv /\ PtrInv /\ RowInv

==============================================================================
