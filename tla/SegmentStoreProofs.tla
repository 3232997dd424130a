------------------------- MODULE SegmentStoreProofs -------------------------
(***************************************************************************)
(* The safety of the compressed store, for every set of workers, length of *)
(* walk and of frame, roll threshold and number of runs and faults, on a   *)
(* disk that does not fill up: the parts of IInv are inductive together.   *)
(***************************************************************************)
EXTENDS SegmentStore, SequenceTheorems, TLAPS

-----------------------------------------------------------------------------
(* Frames.                                                                  *)

\* A frame is a sequence of FrameCells cells of its message.
LEMMA FrameSeq ==
  ASSUME NEW m \in Messages
  PROVE  /\ Frame(m) \in Seq(Cells) /\ Len(Frame(m)) = FrameCells
         /\ \A k \in 1 .. FrameCells : Frame(m)[k] = <<m, k>>
<1>1. FrameCells \in Nat
  BY StoreAssumption
<1>2. Frame(m) \in [1 .. FrameCells -> Cells]
  BY DEF Frame, Cells
<1>3. Frame(m) \in Seq(Cells) /\ Len(Frame(m)) = FrameCells
  BY <1>1, <1>2
<1> QED BY <1>3 DEF Frame

\* A prefix of a frame is a sequence of cells.
LEMMA FramePrefix ==
  ASSUME NEW m \in Messages, NEW n \in 0 .. FrameCells
  PROVE  SubSeq(Frame(m), 1, n) \in Seq(Cells)
<1>1. \A i \in 1 .. n : Frame(m)[i] \in Cells
  BY StoreAssumption DEF Frame, Cells
<1> QED BY <1>1, SubSeqProperties, StoreAssumption

\* read_at decodes the message whose frame is at the offset.
LEMMA FrameReads ==
  ASSUME TypeOK, NEW m \in Messages, NEW seg \in Nat, NEW off \in Nat,
         HoldsFrame(disk, seg, off, m)
  PROVE  ReadAt(seg, off) = m
<1> DEFINE got == SubSeq(disk[seg], off + 1, off + FrameCells)
<1>1. seg \in DOMAIN disk /\ off + FrameCells <= Len(disk[seg]) /\ disk[seg] \in Seq(Cells)
  BY DEF HoldsFrame, TypeOK
<1>2. FrameCells \in Nat /\ 1 <= FrameCells
  BY StoreAssumption
<1>3. \A i \in off + 1 .. off + FrameCells : disk[seg][i] \in Cells
  BY <1>1, <1>2, ElementOfSeq
<1>4. /\ got \in Seq(Cells) /\ Len(got) = FrameCells
      /\ \A i \in 1 .. FrameCells : got[i] = disk[seg][off + i]
  <2>1. /\ got \in Seq(Cells)
        /\ Len(got) = IF off + 1 <= off + FrameCells
                      THEN (off + FrameCells) - (off + 1) + 1 ELSE 0
        /\ \A i \in 1 .. (off + FrameCells) - (off + 1) + 1 :
              got[i] = disk[seg][(off + 1) + i - 1]
    <3> HIDE DEF got
    <3>1. off + 1 \in Int /\ off + FrameCells \in Int
      BY <1>2
    <3> QED BY <1>3, <3>1, SubSeqProperties DEF got
  <2> HIDE DEF got
  <2>2. (off + FrameCells) - (off + 1) + 1 = FrameCells
    BY <1>2
  <2>3. \A i \in 1 .. FrameCells : (off + 1) + i - 1 = off + i
    BY <1>2
  <2> QED BY <1>2, <2>1, <2>2, <2>3
<1>5. got = Frame(m)
  <2> HIDE DEF got
  <2>1. \A i \in 1 .. FrameCells : got[i] = Frame(m)[i]
    BY <1>4, FrameSeq DEF HoldsFrame
  <2> QED BY <1>4, <2>1, FrameSeq, SeqEqual
<1>6. got[1][1] = m
  <2> HIDE DEF got
  <2> QED BY <1>2, <1>5, FrameSeq
<1>7. ReadAt(seg, off) = got[1][1]
  BY <1>1, <1>5 DEF ReadAt
<1> QED BY <1>6, <1>7

-----------------------------------------------------------------------------
(* Files.                                                                   *)

\* The types of the segments and of what is synced of them.
FilesOK(files, durable) ==
    /\ DOMAIN files \in SUBSET Nat /\ DOMAIN durable = DOMAIN files
    /\ \A i \in DOMAIN files : files[i] \in Seq(Cells) /\ durable[i] \in 0 .. Len(files[i])

\* A step that only appends to segments, creates or syncs them.
Grown ==
    \A i \in DOMAIN disk :
        /\ i \in DOMAIN disk' /\ synced[i] <= synced'[i] /\ Len(disk[i]) <= Len(disk'[i])
        /\ \A k \in 1 .. Len(disk[i]) : disk'[i][k] = disk[i][k]

\* Frames stay where they are in files that grow.
LEMMA KeepFrames ==
  ASSUME TypeOK, FilesOK(disk', synced'), Grown, NEW seg \in Nat, NEW off \in Nat, NEW m,
         HoldsFrame(disk, seg, off, m)
  PROVE  /\ HoldsFrame(disk', seg, off, m)
         /\ DurableFrame(synced, seg, off) => DurableFrame(synced', seg, off)
<1>1. /\ seg \in DOMAIN disk /\ seg \in DOMAIN disk' /\ off + FrameCells <= Len(disk[seg])
      /\ Len(disk[seg]) <= Len(disk'[seg]) /\ synced[seg] <= synced'[seg]
  BY DEF HoldsFrame, Grown
<1>2. /\ Len(disk[seg]) \in Nat /\ Len(disk'[seg]) \in Nat /\ FrameCells \in Nat
      /\ synced[seg] \in Nat /\ synced'[seg] \in Nat
  BY <1>1, LenProperties, StoreAssumption DEF TypeOK, FilesOK
<1>3. \A k \in 1 .. FrameCells : disk'[seg][off + k] = <<m, k>>
  <2> SUFFICES ASSUME NEW k \in 1 .. FrameCells PROVE disk'[seg][off + k] = <<m, k>>
    OBVIOUS
  <2>1. off + k \in 1 .. Len(disk[seg])
    BY <1>1, <1>2
  <2> QED BY <1>1, <2>1 DEF HoldsFrame, Grown
<1>4. HoldsFrame(disk', seg, off, m)
  <2>1. off + FrameCells <= Len(disk'[seg])
    BY <1>1, <1>2
  <2> QED BY <1>1, <1>3, <2>1 DEF HoldsFrame
<1>5. DurableFrame(synced, seg, off) => DurableFrame(synced', seg, off)
  BY <1>1, <1>2 DEF DurableFrame
<1> QED BY <1>4, <1>5

\* The rows a step leaves alone stay readable and durable in files that grow.
LEMMA KeepRows ==
  ASSUME TypeOK, FilesOK(disk', synced'), RowInv, Grown, rows' = rows
  PROVE  RowInv'
<1> SUFFICES ASSUME NEW r \in rows
             PROVE  HoldsFrame(disk', r.seg, r.off, r.msg) /\ DurableFrame(synced', r.seg, r.off)
  BY DEF RowInv
<1>1. r.seg \in Nat /\ r.off \in Nat
  BY DEF TypeOK
<1>2. HoldsFrame(disk, r.seg, r.off, r.msg) /\ DurableFrame(synced, r.seg, r.off)
  BY DEF RowInv
<1> QED BY <1>1, <1>2, KeepFrames

\* Files that do not change are grown, typed and laid out as before.
LEMMA SameFiles ==
  ASSUME TypeOK, FileInv, UNCHANGED fileVars
  PROVE  FilesOK(disk', synced') /\ FileInv' /\ Grown
<1>1. FilesOK(disk', synced') /\ FileInv'
  BY DEF TypeOK, FilesOK, FileInv, fileVars
<1>2. \A i \in DOMAIN disk : Len(disk[i]) \in Nat /\ synced[i] \in Nat
  BY LenProperties DEF TypeOK
<1>3. Grown
  BY <1>2 DEF Grown, fileVars
<1> QED BY <1>1, <1>3

\* The segment `append` writes to: the highest one, in its end the position,
\* and all the others synced.
LEMMA RollEffect ==
  ASSUME TypeOK, FileInv, WriterInv, writer.open
  PROVE  /\ FilesOK(RollStep.disk, RollStep.synced)
         /\ RollStep.writer \in [id : Nat, file : Nat, position : Nat, open : {TRUE}]
         /\ RollStep.writer.id = RollStep.writer.file
         /\ RollStep.writer.file \in DOMAIN RollStep.disk
         /\ RollStep.writer.position = Len(RollStep.disk[RollStep.writer.file])
         /\ \A j \in DOMAIN RollStep.disk : j <= RollStep.writer.file
         /\ \A i \in DOMAIN RollStep.disk : i # RollStep.writer.file =>
               RollStep.synced[i] = Len(RollStep.disk[i])
         /\ \A i \in DOMAIN disk : /\ i \in DOMAIN RollStep.disk /\ RollStep.disk[i] = disk[i]
                                   /\ synced[i] <= RollStep.synced[i]
<1>0. /\ writer.file \in DOMAIN disk /\ writer.id \in Nat /\ writer.file \in Nat
      /\ writer.position \in Nat /\ DOMAIN disk \subseteq Nat /\ DOMAIN synced = DOMAIN disk
      /\ \A i \in DOMAIN disk : disk[i] \in Seq(Cells) /\ synced[i] \in 0 .. Len(disk[i])
      /\ \A i \in DOMAIN disk : Len(disk[i]) \in Nat /\ synced[i] \in Nat
      /\ \A j \in DOMAIN disk : j <= writer.file
      /\ writer.file <= writer.id /\ (writer.id = writer.file \/ Full)
      /\ writer.position = Len(disk[writer.file])
  <2>1. \A i \in DOMAIN disk : Len(disk[i]) \in Nat
    BY LenProperties DEF TypeOK
  <2> QED BY <2>1 DEF TypeOK, WriterInv
<1>1. \A i \in DOMAIN disk : i # writer.file => synced[i] = Len(disk[i])
  BY <1>0 DEF FileInv
<1>2. CASE Full
  <2> DEFINE next == writer.id + 1
             d == Put(disk, next, <<>>)
             durable == Put(synced, writer.file, Len(disk[writer.file]))
             s == Put(durable, next, 0)
  <2>1. /\ RollStep.disk = d /\ RollStep.synced = s
        /\ RollStep.writer = [id |-> next, file |-> next, position |-> 0, open |-> TRUE]
    BY <1>2 DEF RollStep, RolledTo
  <2>2. next \in Nat /\ next \notin DOMAIN disk /\ \A j \in DOMAIN disk : j <= next
    BY <1>0
  <2> HIDE DEF next
  <2>3. /\ DOMAIN d = DOMAIN disk \cup {next} /\ d[next] = <<>>
        /\ \A i \in DOMAIN disk : d[i] = disk[i]
    BY <2>2 DEF d, Put
  <2>4. /\ DOMAIN s = DOMAIN disk \cup {next} /\ s[next] = 0
        /\ \A i \in DOMAIN disk : s[i] = Len(disk[i])
    <3>1. /\ DOMAIN durable = DOMAIN disk
          /\ \A i \in DOMAIN disk : durable[i] = Len(disk[i])
      <4>1. DOMAIN durable = DOMAIN synced \cup {writer.file}
            /\ durable[writer.file] = Len(disk[writer.file])
            /\ \A i \in DOMAIN synced : i # writer.file => durable[i] = synced[i]
        BY DEF Put
      <4> QED BY <1>0, <1>1, <4>1
    <3> HIDE DEF durable
    <3>2. DOMAIN s = DOMAIN durable \cup {next} /\ s[next] = 0
          /\ \A i \in DOMAIN durable : i # next => s[i] = durable[i]
      BY DEF s, Put
    <3> QED BY <2>2, <3>1, <3>2
  <2> HIDE DEF d, s, durable
  <2>5. Len(<<>>) = 0 /\ <<>> \in Seq(Cells)
    BY EmptySeq
  <2>6. FilesOK(d, s)
    <3>1. ASSUME NEW i \in DOMAIN d PROVE d[i] \in Seq(Cells) /\ s[i] \in 0 .. Len(d[i])
      <4>1. CASE i = next
        BY <2>3, <2>4, <2>5, <4>1
      <4>2. CASE i # next
        BY <1>0, <2>3, <2>4, <4>2
      <4> QED BY <4>1, <4>2
    <3> QED BY <1>0, <2>2, <2>3, <2>4, <3>1 DEF FilesOK
  <2>7. \A i \in DOMAIN disk : i \in DOMAIN d /\ d[i] = disk[i] /\ synced[i] <= s[i]
    BY <1>0, <2>3, <2>4
  <2>8. /\ \A j \in DOMAIN d : j <= next
        /\ \A i \in DOMAIN d : i # next => s[i] = Len(d[i])
    BY <2>2, <2>3, <2>4
  <2> QED BY <2>1, <2>2, <2>3, <2>5, <2>6, <2>7, <2>8
<1>3. CASE ~Full
  <2>1. RollStep.disk = disk /\ RollStep.synced = synced /\ RollStep.writer = writer
    BY <1>3 DEF RollStep, RolledTo
  <2>2. FilesOK(disk, synced)
    BY DEF TypeOK, FilesOK
  <2>3. writer \in [id : Nat, file : Nat, position : Nat, open : {TRUE}]
    BY DEF TypeOK
  <2>4. \A i \in DOMAIN disk : synced[i] <= synced[i]
    BY <1>0
  <2> QED BY <1>0, <1>1, <1>3, <2>1, <2>2, <2>3, <2>4
<1> QED BY <1>2, <1>3

\* Cells appended to that segment leave everything else where it was.
LEMMA AppendEffect ==
  ASSUME TypeOK, FileInv, WriterInv, writer.open, NEW cells \in Seq(Cells),
         disk' = Appended(RollStep, cells), synced' = RollStep.synced
  PROVE  /\ FilesOK(disk', synced') /\ FileInv' /\ Grown
         /\ RollStep.writer.file \in DOMAIN disk'
         /\ \A j \in DOMAIN disk' : j <= RollStep.writer.file
         /\ Len(disk'[RollStep.writer.file]) = RollStep.writer.position + Len(cells)
         /\ \A k \in 1 .. Len(cells) :
               disk'[RollStep.writer.file][RollStep.writer.position + k] = cells[k]
<1> DEFINE d == RollStep.disk
           top == RollStep.writer.file
           old == d[top]
<1>1. /\ FilesOK(d, synced') /\ top \in DOMAIN d /\ top \in Nat
      /\ RollStep.writer.position = Len(old)
      /\ \A j \in DOMAIN d : j <= top
      /\ \A i \in DOMAIN d : i # top => synced'[i] = Len(d[i])
      /\ \A i \in DOMAIN disk : i \in DOMAIN d /\ d[i] = disk[i] /\ synced[i] <= synced'[i]
  BY RollEffect
<1>2. DOMAIN disk' = DOMAIN d /\ disk'[top] = old \o cells
      /\ \A i \in DOMAIN d : i # top => disk'[i] = d[i]
  <2>1. disk' = Put(d, top, old \o cells)
    BY DEF Appended
  <2> HIDE DEF d, top, old
  <2> QED BY <1>1, <2>1 DEF Put
<1> HIDE DEF d, top, old
<1>3. /\ old \in Seq(Cells) /\ Len(old) \in Nat /\ Len(cells) \in Nat
      /\ old \o cells \in Seq(Cells) /\ Len(old \o cells) = Len(old) + Len(cells)
      /\ \A k \in 1 .. Len(old) : (old \o cells)[k] = old[k]
      /\ \A k \in 1 .. Len(cells) : (old \o cells)[Len(old) + k] = cells[k]
  <2>1. old \in Seq(Cells)
    BY <1>1 DEF FilesOK, old
  <2>2. Len(old) \in Nat /\ Len(cells) \in Nat
    BY <2>1, LenProperties
  <2>3. /\ old \o cells \in Seq(Cells) /\ Len(old \o cells) = Len(old) + Len(cells)
        /\ \A i \in 1 .. Len(old) + Len(cells) : (old \o cells)[i] =
              IF i <= Len(old) THEN old[i] ELSE cells[i - Len(old)]
    BY <2>1, ConcatProperties
  <2>4. \A k \in 1 .. Len(old) : (old \o cells)[k] = old[k]
    BY <2>2, <2>3
  <2>5. ASSUME NEW k \in 1 .. Len(cells) PROVE (old \o cells)[Len(old) + k] = cells[k]
    <3>1. Len(old) + k \in 1 .. Len(old) + Len(cells) /\ ~(Len(old) + k <= Len(old))
          /\ (Len(old) + k) - Len(old) = k
      BY <2>2
    <3> QED BY <2>3, <3>1
  <2> QED BY <2>1, <2>2, <2>3, <2>4, <2>5
<1>4. \A i \in DOMAIN d : Len(d[i]) \in Nat /\ synced'[i] \in Nat /\ synced'[i] <= Len(d[i])
  BY <1>1, LenProperties DEF FilesOK
<1>5. FilesOK(disk', synced')
  <2> SUFFICES ASSUME NEW i \in DOMAIN disk'
               PROVE  disk'[i] \in Seq(Cells) /\ synced'[i] \in 0 .. Len(disk'[i])
    BY <1>1, <1>2 DEF FilesOK
  <2>1. CASE i = top
    <3>1. disk'[i] \in Seq(Cells) /\ Len(disk'[i]) = Len(old) + Len(cells)
      BY <1>2, <1>3, <2>1
    <3>2. synced'[i] \in Nat /\ synced'[i] <= Len(old)
      BY <1>1, <1>4, <2>1 DEF old
    <3> QED BY <1>3, <3>1, <3>2
  <2>2. CASE i # top
    BY <1>1, <1>2, <2>2 DEF FilesOK
  <2> QED BY <2>1, <2>2
<1>6. FileInv'
  <2>1. DOMAIN d \subseteq Nat
    BY <1>1 DEF FilesOK
  <2>2. ASSUME NEW i \in DOMAIN disk', NEW j \in DOMAIN disk', i < j
        PROVE  synced'[i] = Len(disk'[i])
    <3>1. i # top
      BY <1>1, <1>2, <2>1, <2>2
    <3> QED BY <1>1, <1>2, <3>1
  <2> QED BY <1>1, <1>2, <2>2 DEF FileInv
<1>7. Grown
  <2> SUFFICES ASSUME NEW i \in DOMAIN disk
               PROVE  /\ i \in DOMAIN disk' /\ synced[i] <= synced'[i]
                      /\ Len(disk[i]) <= Len(disk'[i])
                      /\ \A k \in 1 .. Len(disk[i]) : disk'[i][k] = disk[i][k]
    BY DEF Grown
  <2>1. i \in DOMAIN d /\ d[i] = disk[i] /\ synced[i] <= synced'[i] /\ Len(d[i]) \in Nat
    BY <1>1, <1>4
  <2>2. CASE i = top
    <3>1. disk[i] = old /\ disk'[i] = old \o cells
      BY <1>2, <2>1, <2>2 DEF old
    <3> QED BY <1>2, <1>3, <2>1, <3>1
  <2>3. CASE i # top
    BY <1>2, <2>1, <2>3
  <2> QED BY <2>2, <2>3
<1>8. Len(disk'[top]) = RollStep.writer.position + Len(cells)
  BY <1>1, <1>2, <1>3
<1>9. \A k \in 1 .. Len(cells) : disk'[top][RollStep.writer.position + k] = cells[k]
  BY <1>1, <1>2, <1>3
<1>10. top \in DOMAIN disk' /\ \A j \in DOMAIN disk' : j <= top
  BY <1>1, <1>2
<1> QED BY <1>5, <1>6, <1>7, <1>8, <1>9, <1>10 DEF top

-----------------------------------------------------------------------------
(* Steps.                                                                   *)

\* The offsets of a worker that does not move keep their frames.
LEMMA KeepOffsets ==
  ASSUME TypeOK, FilesOK(disk', synced'), Grown, NEW w \in Workers, OffsetsHeld(w),
         ptrs'[w] = ptrs[w], work'[w] = work[w], writer'.open = writer.open
  PROVE  OffsetsHeld(w)'
<1>1. ASSUME NEW n \in 1 .. Len(ptrs[w])
      PROVE  /\ HoldsFrame(disk', ptrs[w][n][1], ptrs[w][n][2], <<w, n>>)
             /\ work[w] = "flushed" => DurableFrame(synced', ptrs[w][n][1], ptrs[w][n][2])
  <2>1. ptrs[w][n] \in Nat \X Nat
    BY ElementOfSeq DEF TypeOK, Pointers
  <2>2. ptrs[w][n][1] \in Nat /\ ptrs[w][n][2] \in Nat
    BY <2>1
  <2>3. /\ HoldsFrame(disk, ptrs[w][n][1], ptrs[w][n][2], <<w, n>>)
        /\ work[w] = "flushed" => DurableFrame(synced, ptrs[w][n][1], ptrs[w][n][2])
    BY DEF OffsetsHeld
  <2> QED BY <2>2, <2>3, KeepFrames
<1> QED BY <1>1 DEF OffsetsHeld

\* The end of a process closes the writer and forgets the offsets.
LEMMA EndProcess ==
  ASSUME TypeOK, FilesOK(disk', synced'), EndOfProcess, rows' = rows, runs' = runs,
         faults' \in 0 .. MaxFaults
  PROVE  TypeOK' /\ WriterInv' /\ PtrInv'
<1>1. Closed \in [id : Nat, file : Nat, position : Nat, open : BOOLEAN] /\ ~Closed.open
  BY DEF Closed
<1>2. <<>> \in Seq(Pointers) /\ Len(<<>>) = 0 /\ 0 \in 0 .. MaxRetries
  BY EmptySeq, StoreAssumption
<1>3. TypeOK'
  BY <1>1, <1>2 DEF TypeOK, FilesOK, EndOfProcess
<1>4. WriterInv'
  BY <1>1 DEF WriterInv, EndOfProcess
<1>5. PtrInv'
  BY <1>2, StoreAssumption DEF PtrInv, OffsetsHeld, EndOfProcess
<1> QED BY <1>3, <1>4, <1>5

\* A run that opens the store finds the highest segment, or creates the first.
LEMMA OpenStep == ASSUME IInv, OpenStore PROVE IInv'
<1> USE DEF IInv
<1>0. \A w \in Workers : ptrs[w] = <<>>
  BY DEF OpenStore, PtrInv, OffsetsHeld
<1>1. /\ FilesOK(disk', synced') /\ FileInv' /\ Grown
      /\ writer' \in [id : Nat, file : Nat, position : Nat, open : {TRUE}]
      /\ writer'.file \in DOMAIN disk' /\ writer'.id = writer'.file
      /\ writer'.position = Len(disk'[writer'.file])
      /\ \A j \in DOMAIN disk' : j <= writer'.file
  <2>1. CASE DOMAIN disk = {}
    <3>1. /\ disk' = Put(disk, 0, <<>>) /\ synced' = Put(synced, 0, 0)
          /\ writer' = [id |-> 0, file |-> 0, position |-> 0, open |-> TRUE]
      BY <2>1 DEF OpenStore
    <3>2. DOMAIN disk' = {0} /\ disk'[0] = <<>> /\ DOMAIN synced' = {0} /\ synced'[0] = 0
      BY <2>1, <3>1 DEF Put, TypeOK
    <3>3. <<>> \in Seq(Cells) /\ Len(<<>>) = 0
      BY EmptySeq
    <3>4. FilesOK(disk', synced') /\ FileInv' /\ Grown
      BY <2>1, <3>2, <3>3 DEF FilesOK, FileInv, Grown
    <3> QED BY <3>1, <3>2, <3>3, <3>4
  <2>2. CASE DOMAIN disk # {}
    <3>1. /\ writer' = [id |-> HighestSegment, file |-> HighestSegment,
                        position |-> Len(disk[HighestSegment]), open |-> TRUE]
          /\ UNCHANGED fileVars
      BY <2>2 DEF OpenStore, LengthOnDisk
    <3>2. HighestSegment \in DOMAIN disk /\ \A j \in DOMAIN disk : j <= HighestSegment
      BY <2>2 DEF FileInv, HighestSegment
    <3>3. HighestSegment \in Nat /\ Len(disk[HighestSegment]) \in Nat
      BY <3>2, LenProperties DEF TypeOK
    <3> HIDE DEF HighestSegment
    <3>4. FilesOK(disk', synced') /\ FileInv' /\ Grown
      BY <3>1, SameFiles
    <3> QED BY <3>1, <3>2, <3>3, <3>4 DEF fileVars
  <2> QED BY <2>1, <2>2
<1>2. runs' \in 0 .. MaxRuns /\ UNCHANGED <<ptrs, attempt, rows, faults>>
      /\ work' = [w \in Workers |-> "walk"]
  BY StoreAssumption DEF OpenStore, TypeOK
<1>3. TypeOK'
  BY <1>1, <1>2 DEF TypeOK, FilesOK
<1>4. WriterInv'
  <2>1. writer'.file <= writer'.id
    BY <1>1
  <2> QED BY <1>1, <2>1 DEF WriterInv
<1>5. PtrInv'
  <2> SUFFICES ASSUME NEW w \in Workers PROVE OffsetsHeld(w)'
    BY DEF PtrInv
  <2>1. Len(<<>>) = 0 /\ 0 <= Walk
    BY StoreAssumption
  <2>2. ptrs'[w] = <<>> /\ work'[w] = "walk" /\ writer'.open
    BY <1>0, <1>1, <1>2
  <2> QED BY <2>1, <2>2 DEF OffsetsHeld
<1>6. RowInv'
  BY <1>1, <1>2, KeepRows
<1> QED BY <1>1, <1>3, <1>4, <1>5, <1>6

\* A worker in its walk is in an open run, and its next frame is a frame.
LEMMA WalkFacts ==
  ASSUME IInv, NEW w \in Workers, work[w] = "walk", Len(ptrs[w]) < Walk
  PROVE  writer.open /\ Len(ptrs[w]) \in Nat /\ <<w, Len(ptrs[w]) + 1>> \in Messages
<1>1. writer.open
  BY DEF IInv, PtrInv, OffsetsHeld
<1>2. Len(ptrs[w]) \in Nat
  BY LenProperties DEF IInv, TypeOK
<1>3. Len(ptrs[w]) + 1 \in 1 .. Walk
  BY <1>2, StoreAssumption
<1> QED BY <1>1, <1>2, <1>3 DEF Messages

\* A run that ends, or a process that is killed in the middle of a write.
LEMMA EndStep == ASSUME IInv, EndRun \/ Crash PROVE IInv'
<1> USE DEF IInv
<1>1. /\ EndOfProcess /\ rows' = rows /\ runs' = runs /\ faults' \in 0 .. MaxFaults
  BY StoreAssumption DEF EndRun, Crash, Fault, TypeOK
<1>2. FilesOK(disk', synced') /\ FileInv' /\ Grown
  <2>1. CASE UNCHANGED fileVars
    BY <2>1, SameFiles
  <2>2. CASE ~ UNCHANGED fileVars
    <3>1. PICK w \in Workers, k \in 1 .. FrameCells - 1 :
             /\ work[w] = "walk" /\ Len(ptrs[w]) < Walk
             /\ disk' = Appended(RollStep, SubSeq(Frame(<<w, Len(ptrs[w]) + 1>>), 1, k))
             /\ synced' = RollStep.synced
      BY <2>2 DEF EndRun, Crash
    <3>2. writer.open /\ <<w, Len(ptrs[w]) + 1>> \in Messages /\ k \in 0 .. FrameCells
      BY <3>1, WalkFacts, StoreAssumption
    <3>3. SubSeq(Frame(<<w, Len(ptrs[w]) + 1>>), 1, k) \in Seq(Cells)
      BY <3>2, FramePrefix
    <3> QED BY <3>1, <3>2, <3>3, AppendEffect
  <2> QED BY <2>1, <2>2
<1>3. TypeOK' /\ WriterInv' /\ PtrInv'
  BY <1>1, <1>2, EndProcess
<1>4. RowInv'
  BY <1>1, <1>2, KeepRows
<1> QED BY <1>2, <1>3, <1>4

\* A power loss cuts segments, but none below what was synced.
LEMMA PowerStep == ASSUME IInv, PowerLoss PROVE IInv'
<1> USE DEF IInv
<1>1. /\ EndOfProcess /\ rows' = rows /\ runs' = runs /\ faults' \in 0 .. MaxFaults
  BY StoreAssumption DEF PowerLoss, Fault, TypeOK
<1>2. PICK kept :
         /\ DOMAIN kept = DOMAIN disk
         /\ \A i \in DOMAIN disk : kept[i] \in synced[i] .. Len(disk[i])
         /\ disk' = [i \in DOMAIN disk |-> SubSeq(disk[i], 1, kept[i])]
         /\ synced' = kept
  BY DEF PowerLoss
<1>3. ASSUME NEW i \in DOMAIN disk
      PROVE  /\ synced[i] \in Nat /\ kept[i] \in Nat /\ synced[i] <= kept[i]
             /\ kept[i] <= Len(disk[i]) /\ Len(disk[i]) \in Nat
             /\ disk'[i] \in Seq(Cells) /\ Len(disk'[i]) = kept[i]
             /\ \A k \in 1 .. kept[i] : disk'[i][k] = disk[i][k]
  <2>1. /\ disk[i] \in Seq(Cells) /\ Len(disk[i]) \in Nat /\ synced[i] \in Nat
        /\ kept[i] \in synced[i] .. Len(disk[i])
    BY <1>2, LenProperties DEF TypeOK
  <2>2. kept[i] \in Nat /\ synced[i] <= kept[i] /\ kept[i] <= Len(disk[i])
    BY <2>1
  <2>3. \A k \in 1 .. kept[i] : disk[i][k] \in Cells
    BY <2>1, <2>2, ElementOfSeq
  <2>4. /\ SubSeq(disk[i], 1, kept[i]) \in Seq(Cells)
        /\ Len(SubSeq(disk[i], 1, kept[i])) = IF 1 <= kept[i] THEN kept[i] - 1 + 1 ELSE 0
        /\ \A k \in 1 .. kept[i] - 1 + 1 : SubSeq(disk[i], 1, kept[i])[k] = disk[i][1 + k - 1]
    BY <2>2, <2>3, SubSeqProperties
  <2>5. disk'[i] = SubSeq(disk[i], 1, kept[i])
    BY <1>2
  <2>6. Len(disk'[i]) = kept[i]
    BY <2>2, <2>4, <2>5
  <2>7. \A k \in 1 .. kept[i] : 1 + k - 1 = k /\ kept[i] - 1 + 1 = kept[i]
    BY <2>2
  <2>8. \A k \in 1 .. kept[i] : disk'[i][k] = disk[i][k]
    BY <2>4, <2>5, <2>7
  <2> QED BY <2>1, <2>2, <2>4, <2>5, <2>6, <2>8
<1>4. DOMAIN disk' = DOMAIN disk /\ DOMAIN synced' = DOMAIN disk
  BY <1>2
<1>5. FilesOK(disk', synced')
  BY <1>2, <1>3, <1>4 DEF FilesOK, TypeOK
<1>6. FileInv'
  BY <1>2, <1>3, <1>4 DEF FileInv
<1>7. TypeOK' /\ WriterInv' /\ PtrInv'
  BY <1>1, <1>5, EndProcess
<1>8. RowInv'
  <2> SUFFICES ASSUME NEW r \in rows
               PROVE  /\ HoldsFrame(disk', r.seg, r.off, r.msg)
                      /\ DurableFrame(synced', r.seg, r.off)
    BY <1>1 DEF RowInv
  <2>1. /\ r.seg \in DOMAIN disk /\ r.off \in Nat /\ r.off + FrameCells <= synced[r.seg]
        /\ \A k \in 1 .. FrameCells : disk[r.seg][r.off + k] = <<r.msg, k>>
    BY DEF RowInv, HoldsFrame, DurableFrame, TypeOK
  <2>2. r.off + FrameCells <= kept[r.seg] /\ FrameCells \in Nat /\ kept[r.seg] \in Nat
    <3>1. synced[r.seg] \in Nat /\ kept[r.seg] \in Nat /\ synced[r.seg] <= kept[r.seg]
      BY <1>3, <2>1
    <3> QED BY <2>1, <3>1, StoreAssumption
  <2>3. ASSUME NEW k \in 1 .. FrameCells PROVE r.off + k \in 1 .. kept[r.seg]
    <3>1. r.off \in Nat
      BY <2>1
    <3> QED BY <2>2, <3>1
  <2>4. \A k \in 1 .. FrameCells : disk'[r.seg][r.off + k] = <<r.msg, k>>
    BY <1>3, <2>1, <2>3
  <2>5. HoldsFrame(disk', r.seg, r.off, r.msg)
    BY <1>3, <1>4, <2>1, <2>2, <2>4 DEF HoldsFrame
  <2>6. DurableFrame(synced', r.seg, r.off)
    BY <1>2, <2>2 DEF DurableFrame
  <2> QED BY <2>5, <2>6
<1> QED BY <1>6, <1>7, <1>8

\* An appended frame is where its offset says, at the end of the segment the
\* writer is in after the roll.
LEMMA AppendStep == ASSUME IInv, NEW w \in Workers, AppendFrame(w) PROVE IInv'
<1> USE DEF IInv
<1> DEFINE m == <<w, Len(ptrs[w]) + 1>>
           r == RollStep.writer
<1>1. /\ work[w] = "walk" /\ Len(ptrs[w]) < Walk
      /\ disk' = Appended(RollStep, Frame(m)) /\ synced' = RollStep.synced
      /\ writer' = [r EXCEPT !.position = @ + FrameCells]
      /\ ptrs' = [ptrs EXCEPT ![w] = Append(@, <<r.id, r.position>>)]
      /\ UNCHANGED <<work, attempt, rows, runs, faults>>
  BY DEF AppendFrame
<1>2. writer.open /\ m \in Messages /\ FrameCells \in Nat /\ Len(ptrs[w]) \in Nat
  BY <1>1, WalkFacts, StoreAssumption
<1>3. /\ r \in [id : Nat, file : Nat, position : Nat, open : {TRUE}] /\ r.id = r.file
      /\ r.position = Len(RollStep.disk[r.file])
  BY <1>2, RollEffect
<1>4. /\ Frame(m) \in Seq(Cells) /\ Len(Frame(m)) = FrameCells
      /\ \A k \in 1 .. FrameCells : Frame(m)[k] = <<m, k>>
  BY <1>2, FrameSeq
<1>5. /\ FilesOK(disk', synced') /\ FileInv' /\ Grown /\ r.file \in DOMAIN disk'
      /\ \A j \in DOMAIN disk' : j <= r.file
      /\ Len(disk'[r.file]) = r.position + FrameCells
      /\ \A k \in 1 .. FrameCells : disk'[r.file][r.position + k] = <<m, k>>
  <2> HIDE DEF m
  <2> QED BY <1>1, <1>2, <1>4, AppendEffect
<1> HIDE DEF m, r
<1>6. /\ writer' \in [id : Nat, file : Nat, position : Nat, open : {TRUE}]
      /\ writer'.file = r.file /\ writer'.id = r.id /\ writer'.position = r.position + FrameCells
  <2>1. writer' = [r EXCEPT !.position = r.position + FrameCells]
    BY <1>1
  <2>2. r \in [id : Nat, file : Nat, position : Nat, open : {TRUE}]
    BY <1>3
  <2>3. r.position + FrameCells \in Nat
    BY <1>2, <2>2
  <2> QED BY <2>1, <2>2, <2>3
<1>7. /\ ptrs'[w] \in Seq(Pointers) /\ Len(ptrs'[w]) = Len(ptrs[w]) + 1
      /\ \A n \in 1 .. Len(ptrs[w]) : ptrs'[w][n] = ptrs[w][n]
      /\ ptrs'[w][Len(ptrs[w]) + 1] = <<r.id, r.position>>
      /\ \A v \in Workers : v # w => ptrs'[v] = ptrs[v]
      /\ ptrs' \in [Workers -> Seq(Pointers)]
  <2>1. ptrs \in [Workers -> Seq(Pointers)] /\ <<r.id, r.position>> \in Pointers
    BY <1>3 DEF TypeOK, Pointers
  <2>2. ptrs'[w] = Append(ptrs[w], <<r.id, r.position>>)
        /\ \A v \in Workers : v # w => ptrs'[v] = ptrs[v]
    BY <1>1, <2>1
  <2>3. /\ Append(ptrs[w], <<r.id, r.position>>) \in Seq(Pointers)
        /\ Len(Append(ptrs[w], <<r.id, r.position>>)) = Len(ptrs[w]) + 1
        /\ \A n \in 1 .. Len(ptrs[w]) : Append(ptrs[w], <<r.id, r.position>>)[n] = ptrs[w][n]
        /\ Append(ptrs[w], <<r.id, r.position>>)[Len(ptrs[w]) + 1] = <<r.id, r.position>>
    BY <2>1, AppendProperties
  <2>4. ptrs' \in [Workers -> Seq(Pointers)]
    BY <1>1, <2>1, <2>3
  <2> QED BY <2>2, <2>3, <2>4
<1>8. TypeOK'
  BY <1>1, <1>5, <1>6, <1>7 DEF TypeOK, FilesOK
<1>9. WriterInv'
  BY <1>3, <1>5, <1>6 DEF WriterInv
<1>10. OffsetsHeld(w)'
  <2>1. ASSUME NEW n \in 1 .. Len(ptrs'[w])
        PROVE  HoldsFrame(disk', ptrs'[w][n][1], ptrs'[w][n][2], <<w, n>>)
    <3>1. CASE n = Len(ptrs[w]) + 1
      <4>1. HoldsFrame(disk', r.file, r.position, m)
        <5>1. r.position + FrameCells <= Len(disk'[r.file])
          BY <1>2, <1>3, <1>5
        <5> QED BY <1>5, <5>1 DEF HoldsFrame
      <4>2. ptrs'[w][n][1] = r.file /\ ptrs'[w][n][2] = r.position /\ <<w, n>> = m
        BY <1>3, <1>7, <3>1 DEF m
      <4> QED BY <4>1, <4>2
    <3>2. CASE n # Len(ptrs[w]) + 1
      <4>1. n \in 1 .. Len(ptrs[w])
        BY <1>2, <1>7, <2>1, <3>2
      <4>2. ptrs[w][n] \in Nat \X Nat
        BY <4>1, ElementOfSeq DEF TypeOK, Pointers
      <4>3. HoldsFrame(disk, ptrs[w][n][1], ptrs[w][n][2], <<w, n>>)
        BY <4>1 DEF PtrInv, OffsetsHeld
      <4>4. HoldsFrame(disk', ptrs[w][n][1], ptrs[w][n][2], <<w, n>>)
        BY <1>5, <4>2, <4>3, KeepFrames
      <4> QED BY <1>7, <4>1, <4>4
    <3> QED BY <3>1, <3>2
  <2>2. Len(ptrs'[w]) <= Walk
    BY <1>1, <1>2, <1>7, StoreAssumption
  <2>3. work'[w] = "walk" /\ writer'.open
    BY <1>1, <1>6
  <2> QED BY <2>1, <2>2, <2>3 DEF OffsetsHeld
<1>11. PtrInv'
  <2>1. ASSUME NEW v \in Workers, v # w PROVE OffsetsHeld(v)'
    <3>1. writer'.open = writer.open
      BY <1>2, <1>6 DEF TypeOK
    <3> QED BY <1>1, <1>5, <1>7, <2>1, <3>1, KeepOffsets DEF PtrInv
  <2> QED BY <1>10, <2>1 DEF PtrInv
<1>12. RowInv'
  BY <1>1, <1>5, KeepRows
<1> QED BY <1>5, <1>8, <1>9, <1>11, <1>12

\* A failed attempt forgets its offsets; its frames stay as garbage.
LEMMA RetryOffsets ==
  ASSUME IInv, NEW w \in Workers, NextAttempt(w), work[w] \in {"walk", "flushed"},
         FilesOK(disk', synced'), Grown, writer'.open = writer.open
  PROVE  /\ PtrInv' /\ ptrs' \in [Workers -> Seq(Pointers)]
         /\ work' \in [Workers -> {"idle", "walk", "flushed", "done", "failed"}]
         /\ attempt' \in [Workers -> 0 .. MaxRetries]
<1> USE DEF IInv
<1>1. <<>> \in Seq(Pointers) /\ Len(<<>>) = 0 /\ 0 <= Walk
  BY EmptySeq, StoreAssumption
<1>2. /\ ptrs' = [ptrs EXCEPT ![w] = <<>>]
      /\ work' = [work EXCEPT ![w] = "walk"] \/ work' = [work EXCEPT ![w] = "failed"]
      /\ \/ attempt[w] < MaxRetries /\ attempt' = [attempt EXCEPT ![w] = @ + 1]
         \/ attempt' = attempt
  BY DEF NextAttempt
<1>3. /\ ptrs \in [Workers -> Seq(Pointers)] /\ attempt \in [Workers -> 0 .. MaxRetries]
      /\ work \in [Workers -> {"idle", "walk", "flushed", "done", "failed"}]
  BY DEF TypeOK
<1>4. /\ ptrs'[w] = <<>> /\ work'[w] \in {"walk", "failed"}
      /\ \A v \in Workers : v # w => ptrs'[v] = ptrs[v] /\ work'[v] = work[v]
  BY <1>2, <1>3
<1>5. writer.open
  BY DEF PtrInv, OffsetsHeld
<1>6. OffsetsHeld(w)'
  BY <1>1, <1>4, <1>5 DEF OffsetsHeld
<1>7. ASSUME NEW v \in Workers, v # w PROVE OffsetsHeld(v)'
  BY <1>4, <1>7, KeepOffsets DEF PtrInv
<1>8. attempt' \in [Workers -> 0 .. MaxRetries]
  <2>1. MaxRetries \in Nat
    BY StoreAssumption
  <2> QED BY <1>2, <1>3, <2>1
<1>9. ptrs' \in [Workers -> Seq(Pointers)]
  BY <1>1, <1>2, <1>3
<1>10. work' \in [Workers -> {"idle", "walk", "flushed", "done", "failed"}]
  BY <1>2, <1>3
<1> QED BY <1>6, <1>7, <1>8, <1>9, <1>10 DEF PtrInv

\* A sync_all that reaches the end of one segment.
LEMMA SyncEffect ==
  ASSUME TypeOK, FileInv, NEW i \in DOMAIN disk, disk' = disk,
         synced' = Put(synced, i, Len(disk[i]))
  PROVE  /\ FilesOK(disk', synced') /\ FileInv' /\ Grown
         /\ synced'[i] = Len(disk[i])
         /\ \A j \in DOMAIN disk : j # i => synced'[j] = synced[j]
<1>1. \A j \in DOMAIN disk : /\ disk[j] \in Seq(Cells) /\ Len(disk[j]) \in Nat
                             /\ synced[j] \in Nat /\ synced[j] <= Len(disk[j])
  BY LenProperties DEF TypeOK
<1>2. /\ DOMAIN synced' = DOMAIN disk /\ synced'[i] = Len(disk[i])
      /\ \A j \in DOMAIN disk : j # i => synced'[j] = synced[j]
  BY DEF Put, TypeOK
<1>3. FilesOK(disk', synced')
  <2>1. \A j \in DOMAIN disk : synced'[j] \in 0 .. Len(disk[j])
    BY <1>1, <1>2
  <2> QED BY <1>1, <1>2, <2>1 DEF FilesOK, TypeOK
<1>4. FileInv'
  BY <1>2 DEF FileInv
<1>5. Grown
  <2>1. \A j \in DOMAIN disk : synced[j] <= synced'[j]
    BY <1>1, <1>2
  <2> QED BY <1>1, <2>1 DEF Grown
<1> QED BY <1>2, <1>3, <1>4, <1>5

\* A roll that fails leaves the id ahead of the file and the roll still due.
LEMMA RollFailsStep == ASSUME IInv, NEW w \in Workers, RollFails(w) PROVE IInv'
<1> USE DEF IInv
<1>1. /\ work[w] = "walk" /\ Len(ptrs[w]) < Walk /\ Full /\ NextAttempt(w)
      /\ writer' = [writer EXCEPT !.id = @ + 1] /\ disk' = disk
      /\ synced' = Put(synced, writer.file, Len(disk[writer.file]))
      /\ UNCHANGED <<rows, runs>> /\ faults' \in 0 .. MaxFaults
  <2>1. Fault("roll") /\ faults \in 0 .. MaxFaults
    BY DEF RollFails, TypeOK
  <2>2. faults' \in 0 .. MaxFaults
    BY <2>1, StoreAssumption DEF Fault
  <2> QED BY <2>2 DEF RollFails
<1>2. writer.open /\ writer.file \in DOMAIN disk
  BY <1>1, WalkFacts DEF TypeOK
<1>3. FilesOK(disk', synced') /\ FileInv' /\ Grown
  BY <1>1, <1>2, SyncEffect
<1>4. /\ writer' \in [id : Nat, file : Nat, position : Nat, open : BOOLEAN]
      /\ writer'.open = writer.open /\ writer'.file = writer.file
      /\ writer'.position = writer.position /\ writer'.id = writer.id + 1
  <2>1. writer' = [writer EXCEPT !.id = writer.id + 1]
    BY <1>1
  <2>2. writer \in [id : Nat, file : Nat, position : Nat, open : BOOLEAN]
    BY DEF TypeOK
  <2>3. writer.id + 1 \in Nat
    BY <2>2
  <2> QED BY <2>1, <2>2, <2>3
<1>5. /\ PtrInv' /\ ptrs' \in [Workers -> Seq(Pointers)]
      /\ work' \in [Workers -> {"idle", "walk", "flushed", "done", "failed"}]
      /\ attempt' \in [Workers -> 0 .. MaxRetries]
  BY <1>1, <1>3, <1>4, RetryOffsets
<1>6. TypeOK'
  BY <1>1, <1>2, <1>3, <1>4, <1>5 DEF TypeOK, FilesOK
<1>7. WriterInv'
  <2>1. Full'
    BY <1>1, <1>4 DEF Full
  <2>2. writer'.file <= writer'.id
    BY <1>2, <1>4 DEF WriterInv, TypeOK
  <2> QED BY <1>1, <1>2, <1>4, <2>1, <2>2 DEF WriterInv
<1>8. RowInv'
  BY <1>1, <1>3, KeepRows
<1> QED BY <1>3, <1>5, <1>6, <1>7, <1>8

\* Any other failure leaves the store alone.
LEMMA FailStep == ASSUME IInv, NEW w \in Workers, AttemptFails(w) PROVE IInv'
<1> USE DEF IInv
<1>1. /\ work[w] \in {"walk", "flushed"} /\ NextAttempt(w) /\ UNCHANGED <<fileVars, writer>>
      /\ UNCHANGED <<rows, runs>> /\ faults' \in 0 .. MaxFaults
  BY StoreAssumption DEF AttemptFails, Fault, TypeOK
<1>2. FilesOK(disk', synced') /\ FileInv' /\ Grown
  BY <1>1, SameFiles
<1>3. /\ PtrInv' /\ ptrs' \in [Workers -> Seq(Pointers)]
      /\ work' \in [Workers -> {"idle", "walk", "flushed", "done", "failed"}]
      /\ attempt' \in [Workers -> 0 .. MaxRetries]
  BY <1>1, <1>2, RetryOffsets
<1>4. TypeOK'
  BY <1>1, <1>3 DEF TypeOK, fileVars
<1>5. WriterInv'
  BY <1>1 DEF WriterInv, Full, fileVars
<1>6. RowInv'
  BY <1>1, <1>2, KeepRows
<1> QED BY <1>2, <1>3, <1>4, <1>5, <1>6

\* A flush makes every frame of the worker durable: the ones in the active
\* segment by its sync, the others since their segments were rolled.
LEMMA FlushStep == ASSUME IInv, NEW w \in Workers, Flush(w) PROVE IInv'
<1> USE DEF IInv
<1>1. /\ work[w] = "walk" /\ Len(ptrs[w]) = Walk /\ disk' = disk
      /\ synced' = Put(synced, writer.file, Len(disk[writer.file]))
      /\ work' = [work EXCEPT ![w] = "flushed"]
      /\ UNCHANGED <<writer, ptrs, attempt, rows, runs, faults>>
  BY DEF Flush, FlushedActive
<1>2. writer.open /\ writer.file \in DOMAIN disk
  BY <1>1 DEF PtrInv, OffsetsHeld, TypeOK
<1>3. /\ FilesOK(disk', synced') /\ FileInv' /\ Grown
      /\ synced'[writer.file] = Len(disk[writer.file])
      /\ \A j \in DOMAIN disk : j # writer.file => synced'[j] = synced[j]
  BY <1>1, <1>2, SyncEffect
<1>4. \A j \in DOMAIN disk : synced'[j] = Len(disk[j])
  <2>1. \A j \in DOMAIN disk : j # writer.file => j < writer.file
    BY <1>2 DEF WriterInv, TypeOK
  <2> QED BY <1>2, <1>3, <2>1 DEF FileInv
<1>5. TypeOK'
  BY <1>1, <1>2, <1>3 DEF TypeOK, FilesOK
<1>6. WriterInv'
  BY <1>1 DEF WriterInv, Full
<1>7. OffsetsHeld(w)'
  <2>1. ASSUME NEW n \in 1 .. Len(ptrs[w])
        PROVE  /\ HoldsFrame(disk, ptrs[w][n][1], ptrs[w][n][2], <<w, n>>)
               /\ DurableFrame(synced', ptrs[w][n][1], ptrs[w][n][2])
    <3>1. HoldsFrame(disk, ptrs[w][n][1], ptrs[w][n][2], <<w, n>>)
      BY DEF PtrInv, OffsetsHeld
    <3> QED BY <1>4, <3>1 DEF HoldsFrame, DurableFrame
  <2>2. work'[w] = "flushed"
    BY <1>1 DEF TypeOK
  <2>3. Len(ptrs[w]) <= Walk
    BY DEF PtrInv, OffsetsHeld
  <2> QED BY <1>1, <1>2, <2>1, <2>2, <2>3 DEF OffsetsHeld
<1>8. PtrInv'
  <2>1. ASSUME NEW v \in Workers, v # w PROVE OffsetsHeld(v)'
    <3>1. work'[v] = work[v]
      BY <1>1, <2>1 DEF TypeOK
    <3> QED BY <1>1, <1>3, <3>1, KeepOffsets DEF PtrInv
  <2> QED BY <1>7, <2>1 DEF PtrInv
<1>9. RowInv'
  BY <1>1, <1>3, KeepRows
<1> QED BY <1>3, <1>5, <1>6, <1>8, <1>9

\* The rows of a flushed worker point at durable frames of their messages.
LEMMA CommitStep == ASSUME IInv, NEW w \in Workers, CommitRows(w) PROVE IInv'
<1> USE DEF IInv
<1> DEFINE row(n) == [msg |-> <<w, n>>, seg |-> ptrs[w][n][1], off |-> ptrs[w][n][2]]
<1>1. /\ work[w] = "flushed" /\ rows' = rows \cup {row(n) : n \in 1 .. Walk}
      /\ work' = [work EXCEPT ![w] = "done"] /\ ptrs' = [ptrs EXCEPT ![w] = <<>>]
      /\ UNCHANGED <<fileVars, writer, attempt, runs, faults>>
  BY DEF CommitRows
<1>2. FilesOK(disk', synced') /\ FileInv' /\ Grown
  BY <1>1, SameFiles
<1>3. ASSUME NEW n \in 1 .. Walk
      PROVE  /\ row(n) \in [msg : Messages, seg : Nat, off : Nat]
             /\ HoldsFrame(disk, row(n).seg, row(n).off, row(n).msg)
             /\ DurableFrame(synced, row(n).seg, row(n).off)
  <2>1. n \in 1 .. Len(ptrs[w])
    BY <1>1 DEF PtrInv, OffsetsHeld
  <2>2. ptrs[w][n] \in Nat \X Nat
    BY <2>1, ElementOfSeq DEF TypeOK, Pointers
  <2>3. /\ HoldsFrame(disk, ptrs[w][n][1], ptrs[w][n][2], <<w, n>>)
        /\ DurableFrame(synced, ptrs[w][n][1], ptrs[w][n][2])
    BY <1>1, <2>1 DEF PtrInv, OffsetsHeld
  <2> QED BY <2>2, <2>3 DEF Messages
<1>4. rows' \subseteq [msg : Messages, seg : Nat, off : Nat]
  BY <1>1, <1>3 DEF TypeOK
<1>5. RowInv'
  <2> HIDE DEF row
  <2>1. disk' = disk /\ synced' = synced
    BY <1>1 DEF fileVars
  <2> QED BY <1>1, <1>3, <2>1 DEF RowInv
<1>6. <<>> \in Seq(Pointers) /\ Len(<<>>) = 0 /\ 0 <= Walk
  BY EmptySeq, StoreAssumption
<1>7. TypeOK'
  BY <1>1, <1>4, <1>6 DEF TypeOK, fileVars
<1>8. WriterInv'
  BY <1>1 DEF WriterInv, Full, fileVars
<1>9. PtrInv'
  <2>1. writer.open
    BY <1>1 DEF PtrInv, OffsetsHeld
  <2>2. ptrs'[w] = <<>> /\ work'[w] = "done"
    BY <1>1 DEF TypeOK
  <2>3. OffsetsHeld(w)'
    BY <1>1, <1>6, <2>1, <2>2 DEF OffsetsHeld
  <2>4. ASSUME NEW v \in Workers, v # w PROVE OffsetsHeld(v)'
    <3>1. ptrs'[v] = ptrs[v] /\ work'[v] = work[v]
      BY <1>1, <2>4 DEF TypeOK
    <3> QED BY <1>1, <1>2, <3>1, KeepOffsets DEF PtrInv
  <2> QED BY <2>3, <2>4 DEF PtrInv
<1> QED BY <1>2, <1>5, <1>7, <1>8, <1>9

-----------------------------------------------------------------------------
(* The theorems.                                                            *)

\* The empty store satisfies the invariant.
LEMMA InitInv == Init => IInv
<1> SUFFICES ASSUME Init PROVE IInv
  OBVIOUS
<1>1. /\ DOMAIN disk = {} /\ DOMAIN synced = {} /\ rows = {} /\ writer = Closed
      /\ Closed \in [id : Nat, file : Nat, position : Nat, open : BOOLEAN] /\ ~Closed.open
  BY DEF Init, Closed
<1>2. <<>> \in Seq(Pointers) /\ Len(<<>>) = 0
  BY EmptySeq
<1>3. TypeOK
  BY <1>1, <1>2, StoreAssumption DEF Init, TypeOK
<1>4. FileInv /\ WriterInv /\ RowInv
  BY <1>1 DEF FileInv, WriterInv, RowInv
<1>5. PtrInv
  BY <1>2, StoreAssumption DEF Init, PtrInv, OffsetsHeld
<1> QED BY <1>3, <1>4, <1>5 DEF IInv

\* IInv is an inductive invariant of SegmentStore.
LEMMA Inductive == Spec => []IInv
<1>1. IInv /\ [Next]_vars => IInv'
  <2> SUFFICES ASSUME IInv, [Next]_vars PROVE IInv'
    OBVIOUS
  <2>1. CASE UNCHANGED vars
    BY <2>1 DEF vars, fileVars, workVars, IInv, TypeOK, FileInv, WriterInv, Full, PtrInv,
       OffsetsHeld, RowInv
  <2> QED BY <2>1, OpenStep, EndStep, PowerStep, AppendStep, FlushStep, CommitStep,
     RollFailsStep, FailStep DEF Next
<1> QED BY InitInv, <1>1, PTL DEF Spec

\* SegmentStore is type correct: segments are sequences of cells, synced up
\* to a place in them, offsets and rows are numbers.
THEOREM TypeCorrect == Spec => []TypeOK
<1>1. IInv => TypeOK
  BY DEF IInv
<1> QED BY <1>1, Inductive, PTL

\* The writer's cached position is the end of its file, whatever workers,
\* rolls, failed rolls and restarts came before (store.rs, SegmentWriter).
THEOREM PositionAlwaysHonest == Spec => []PositionHonest
<1>1. IInv => PositionHonest
  BY DEF IInv, WriterInv, PositionHonest
<1> QED BY <1>1, Inductive, PTL

\* Every row reads back its message: no interleaving of workers, no roll,
\* retry, kill or power loss leaves a row with an offset that read_at decodes
\* to something else (store.rs, read_at).
THEOREM RowsAlwaysReadable == Spec => []RowsReadable
<1>1. IInv => RowsReadable
  <2> SUFFICES ASSUME IInv, NEW r \in rows PROVE ReadAt(r.seg, r.off) = r.msg
    BY DEF RowsReadable
  <2>1. r.seg \in Nat /\ r.off \in Nat /\ r.msg \in Messages
    BY DEF IInv, TypeOK
  <2>2. HoldsFrame(disk, r.seg, r.off, r.msg)
    BY DEF IInv, RowInv
  <2> QED BY <2>1, <2>2, FrameReads DEF IInv
<1> QED BY <1>1, Inductive, PTL

\* No row points past what sync_all has reached: a worker's rows are committed
\* after its flush, and the segments it left behind were synced by the roll.
THEOREM RowsAlwaysDurable == Spec => []RowsDurable
<1>1. IInv => RowsDurable
  BY DEF IInv, TypeOK, RowInv, RowsDurable, HoldsFrame, DurableFrame
<1> QED BY <1>1, Inductive, PTL

=============================================================================
