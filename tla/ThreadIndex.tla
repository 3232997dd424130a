---------------------------- MODULE ThreadIndex ----------------------------
(***************************************************************************)
(* Thread ids: how tid.rs groups the messages of the corpus, how a rebuild *)
(* publishes the grouping to the side table and to the tid column of       *)
(* over.db, and how Reader::thread answers from that column or, where it   *)
(* is missing, from a walk over the Parquet rows (reader.rs, over.rs).     *)
(*                                                                         *)
(* Writers hold the writer lock, so ingest and a rebuild exclude each      *)
(* other; the reader is another process and excludes nobody. A message is  *)
(* known by its Message-ID; mail says what its headers are. Parquet is     *)
(* the deduplicated view Reader::scan has of it: freshest row first.       *)
(***************************************************************************)
EXTENDS Integers, Sequences, FiniteSets, Rows

CONSTANTS
    Msgs,         \* messages that may be ingested
    Elsewhere,    \* a Message-ID no ingested message has
    Nobody,       \* no such header
    Untitled,     \* no normalized subject
    Undated,      \* no parsable Date header
    Mailboxes,    \* the contents the mirror may have, [Msgs -> headers]
    Window,       \* FALLBACK_WINDOW_NS
    OverChunk,    \* OVER_CHUNK, rows per UPDATE transaction
    MaxMessages,  \* the max_messages of a call
    MaxFaults,    \* bound: failed inserts and killed rebuilds in a behaviour
    MaxIngests    \* bound: rows ingested in a behaviour

ASSUME ThreadAssumption ==
    /\ Nobody \notin Msgs /\ Elsewhere \notin Msgs
    /\ \A box \in Mailboxes :
         /\ DOMAIN box = Msgs
         /\ \A m \in Msgs : box[m].date = Undated \/ box[m].date \in Int
    /\ Window \in Nat /\ OverChunk \in Nat \ {0} /\ MaxMessages \in Nat \ {0}
    /\ MaxFaults \in Nat /\ MaxIngests \in Nat

VARIABLES
    mail,       \* headers of every message; never changes
    parquet,    \* Seq(Msgs), the rows Reader::scan visits, in its order
    indexed,    \* does over.db exist
    over,       \* its rows: the tid column, Nobody for NULL
    sidetable,  \* tid.parquet: [tid, files] per row
    rebuild,    \* tid::rebuild: its place, plan and rows not yet in over.db
    settled,    \* observer: the last write was a rebuild that ran to its end
    call,       \* one call of Reader::thread
    faults, ingests

writerVars == <<parquet, over, sidetable, rebuild, settled>>
vars == <<mail, indexed, writerVars, call, faults, ingests>>

------------------------------------------------------------------------------
(* Headers and rows. *)

Corpus == ToSet(parquet)

\* In-Reply-To, or else the first of References.
Parent(h) == IF h.reply # Nobody THEN h.reply ELSE h.ref
Relations(h) == {h.reply, h.ref} \ {Nobody}

\* In a bucket an undated message sorts as the epoch.
BucketDate(h) == IF h.date = Undated THEN 0 ELSE h.date

------------------------------------------------------------------------------
(* assign_tids, over the rows of a scan and the headers they carry. *)

\* Where the walk from m along parents stops: before a parent that is not in
\* the corpus or was visited.
UncheckedChainEnd(box, rows, m) ==
    LET step[n \in Nat] ==
          IF n = 0 THEN [at |-> m, visited |-> {m}]
          ELSE LET s == step[n - 1]
                   p == IF s.at \in ToSet(rows) THEN Parent(box[s.at])
                        ELSE Nobody
               IN  IF p # Nobody /\ p \notin s.visited
                   THEN [at |-> p, visited |-> s.visited \cup {p}]
                   ELSE s
    IN step[Len(rows) + 1].at
ChainStep(box, rows, s) ==
    LET p == Parent(box[s.at])
    IN  IF p \in ToSet(rows) \ s.visited
        THEN [at |-> p, visited |-> s.visited \cup {p}]
        ELSE s
Chain(box, rows, m) ==
    LET turn[n \in 0 .. Len(rows)] ==
          IF n = 0 THEN [at |-> m, visited |-> {m}]
          ELSE ChainStep(box, rows, turn[n - 1])
    IN  turn
ChainEnd(box, rows, m) == Chain(box, rows, m)[Len(rows)].at

\* Places in `rows` of the messages that could be the start of m's series: same
\* list, subject and sender, at most a window older than m. An undated m has
\* no bounds.
InWindow(box, x, m) ==
    box[m].date # Undated =>
        BucketDate(box[x]) \in (box[m].date - Window) .. box[m].date
AnySubject(box, rows, m) == {i \in DOMAIN rows : InWindow(box, rows[i], m)}
SeriesPlaces(box, rows, m) ==
    {i \in DOMAIN rows : /\ box[rows[i]].topic = box[m].topic
                         /\ InWindow(box, rows[i], m)}

\* The first of them in the stably sorted bucket.
SeriesStart(box, rows, m) ==
    LET places == SeriesPlaces(box, rows, m)
        Date(i) == BucketDate(box[rows[i]])
        Before(i, j) == Date(i) < Date(j) \/ (Date(i) = Date(j) /\ i <= j)
    IN  IF box[m].topic = Untitled \/ places = {} THEN m
        ELSE rows[CHOOSE i \in places : \A j \in places : Before(i, j)]

\* A series that outranks the chain.
SubjectFirst(box, rows, m) ==
    LET start == SeriesStart(box, rows, m)
    IN  IF start # m THEN start ELSE ChainEnd(box, rows, m)
ResolveTid(box, rows, m) ==
    LET end == ChainEnd(box, rows, m)
    IN  IF end # m THEN end ELSE SeriesStart(box, rows, m)

\* A cover letter carries the files of every message with its tid.
Plan(box, rows) ==
    LET tid == [m \in ToSet(rows) |-> ResolveTid(box, rows, m)]
    IN  [m \in ToSet(rows) |->
            [tid |-> tid[m],
             files |-> IF box[m].cover
                       THEN {p \in ToSet(rows) : tid[p] = tid[m]} ELSE {}]]

------------------------------------------------------------------------------
Idle == [pc |-> "idle", plan |-> <<>>, todo |-> <<>>]
NoCall == [pc |-> "idle", seed |-> Nobody, tid |-> Nobody, queue |-> <<>>,
           visited |-> {}, rows |-> <<>>, answer |-> {}, calm |-> FALSE]

Init ==
    /\ mail \in Mailboxes
    /\ indexed \in BOOLEAN
    /\ parquet = <<>> /\ over = <<>> /\ sidetable = <<>>
    /\ rebuild = Idle /\ settled = FALSE
    /\ call = NoCall
    /\ faults = 0 /\ ingests = 0

\* A write between two reads of a call.
Disturb == call' = [call EXCEPT !.calm = FALSE]

(* Writers. *)

\* The rows a scan keeps when a new row of m precedes them.
Freshened(rows, m) ==
    IF m \in ToSet(rows)
    THEN LET i == CHOOSE i \in DOMAIN rows : rows[i] = m
         IN  <<m>> \o SubSeq(rows, 1, i - 1) \o SubSeq(rows, i + 1, Len(rows))
    ELSE <<m>> \o rows

\* A shard ingests m, perhaps again: the new row is the freshest, and INSERT OR
\* REPLACE leaves the tid NULL. The insert may fail while the shard goes on; what
\* a reader sees between the two writes is what a failed insert leaves.
Ingest(m, inserted) ==
    /\ rebuild.pc = "idle"
    /\ ingests < MaxIngests /\ ingests' = ingests + 1
    /\ inserted => indexed
    /\ indexed /\ ~inserted => faults < MaxFaults
    /\ faults' = IF indexed /\ ~inserted THEN faults + 1 ELSE faults
    /\ parquet' = Freshened(parquet, m)
    /\ over' = IF inserted
               THEN [x \in DOMAIN over \cup {m} |->
                        IF x = m THEN Nobody ELSE over[x]]
               ELSE over
    /\ settled' = FALSE
    /\ Disturb
    /\ UNCHANGED <<mail, indexed, sidetable, rebuild>>

StartRebuild ==
    /\ rebuild.pc = "idle"
    /\ rebuild' = [pc |-> "update", plan |-> Plan(mail, parquet),
                   todo |-> IF indexed THEN parquet ELSE <<>>]
    /\ settled' = FALSE
    /\ UNCHANGED <<mail, indexed, parquet, over, sidetable, call, faults, ingests>>

\* UPDATE over SET tid = ... for the given rows, in one transaction.
UpdateTids(ms) ==
    over' = [m \in DOMAIN over |->
                IF m \in ms THEN rebuild.plan[m].tid ELSE over[m]]

\* A full chunk goes to over.db while the side table is still being written.
UpdateChunk ==
    /\ rebuild.pc = "update" /\ Len(rebuild.todo) >= OverChunk
    /\ UpdateTids(ToSet(SubSeq(rebuild.todo, 1, OverChunk)))
    /\ rebuild' = [rebuild EXCEPT !.todo = SubSeq(@, OverChunk + 1, Len(@))]
    /\ Disturb
    /\ UNCHANGED <<mail, indexed, parquet, sidetable, settled, faults, ingests>>

\* The side table is closed and renamed into place.
Publish ==
    /\ rebuild.pc = "update" /\ Len(rebuild.todo) < OverChunk
    /\ sidetable' = rebuild.plan
    /\ rebuild' = [rebuild EXCEPT !.pc = "tail"]
    /\ UNCHANGED <<mail, indexed, parquet, over, settled, call, faults, ingests>>

\* What did not fill a chunk follows the rename.
TailForgotten ==
    /\ rebuild.pc = "tail"
    /\ over' = over
    /\ rebuild' = Idle /\ settled' = TRUE
    /\ Disturb
    /\ UNCHANGED <<mail, indexed, parquet, sidetable, faults, ingests>>
TailChunk ==
    /\ rebuild.pc = "tail"
    /\ UpdateTids(ToSet(rebuild.todo))
    /\ rebuild' = Idle /\ settled' = TRUE
    /\ Disturb
    /\ UNCHANGED <<mail, indexed, parquet, sidetable, faults, ingests>>

\* The process ends inside a rebuild, killed or by the error of a write.
CrashRebuild ==
    /\ rebuild.pc # "idle" /\ faults < MaxFaults
    /\ faults' = faults + 1
    /\ rebuild' = Idle
    /\ UNCHANGED <<mail, indexed, parquet, over, sidetable, settled, call, ingests>>

------------------------------------------------------------------------------
(* Reader::thread *)

Answer(ms) == [call EXCEPT !.pc = "answered", !.answer = ms]
StartWalk(m) == [NoCall EXCEPT !.pc = "walk", !.seed = m, !.queue = <<m>>,
                               !.calm = TRUE]

\* fetch_message: the row of over.db; after a miss only a caller without a
\* deadline goes on to the Parquet rows, which carry no tid.
FetchSeed(m, online) ==
    /\ call.pc = "idle"
    /\ \/ /\ m \in DOMAIN over
          /\ call' = IF over[m] # Nobody
                     THEN [NoCall EXCEPT !.pc = "select", !.seed = m,
                                         !.tid = over[m], !.calm = TRUE]
                     ELSE StartWalk(m)
       \/ /\ m \notin DOMAIN over /\ m \in Corpus
          /\ indexed => ~online
          /\ call' = StartWalk(m)
    /\ UNCHANGED <<mail, indexed, writerVars, faults, ingests>>

\* The newest MaxMessages rows with the seed's tid: another SELECT, on whatever
\* over.db holds by then.
Newest(ms, limit) ==
    {s \in SUBSET ms :
        /\ Cardinality(s) = IF Cardinality(ms) < limit THEN Cardinality(ms)
                            ELSE limit
        /\ \A a \in s, b \in ms \ s :
             \/ mail[b].date = Undated
             \/ mail[a].date # Undated /\ mail[a].date >= mail[b].date}

SelectThread ==
    /\ call.pc = "select"
    /\ \E s \in Newest({m \in DOMAIN over : over[m] = call.tid}, MaxMessages) :
          call' = Answer(s)
    /\ UNCHANGED <<mail, indexed, writerVars, faults, ingests>>

\* Rows a scan for `mid` collects, in the order of the files.
Hits(mid) ==
    Select(parquet, {x \in Corpus : x = mid \/ mid \in Relations(mail[x])})

\* What a hit adds to the queue: of the message itself what it points to, of
\* the others their own Message-ID.
RepliesOnly(mid, x) == IF x = mid THEN <<>> ELSE <<x>>
Related(mid, x) ==
    IF x # mid THEN <<x>>
    ELSE Select(<<mail[x].reply, mail[x].ref>>, Relations(mail[x]))

\* One turn of the breadth-first loop: a mid is dropped when it was visited or
\* the budget is used up; else the scan collects until the budget is.
WalkStep ==
    /\ call.pc = "walk" /\ call.queue # <<>>
    /\ LET mid  == Head(call.queue)
           room == MaxMessages - Len(call.rows)
           hits == FirstN(Hits(mid), room)
           found == FlattenSeq([i \in DOMAIN hits |-> Related(mid, hits[i])])
           seen == call.visited \cup {mid}
       IN  call' =
             IF mid \in call.visited \/ room = 0
             THEN [call EXCEPT !.queue = Tail(@)]
             ELSE [call EXCEPT
                     !.visited = seen,
                     !.rows = @ \o hits,
                     !.queue = Tail(@) \o Select(found, ToSet(found) \ seen)]
    /\ UNCHANGED <<mail, indexed, writerVars, faults, ingests>>

WalkDone ==
    /\ call.pc = "walk" /\ call.queue = <<>>
    /\ call' = Answer(ToSet(call.rows))
    /\ UNCHANGED <<mail, indexed, writerVars, faults, ingests>>

\* The caller takes the answer; or a walk meets its deadline.
EndCall ==
    /\ call.pc \in {"answered", "walk"}
    /\ call' = NoCall
    /\ UNCHANGED <<mail, indexed, writerVars, faults, ingests>>

Next ==
    \/ \E m \in Msgs, inserted \in BOOLEAN : Ingest(m, inserted)
    \/ StartRebuild \/ UpdateChunk \/ Publish \/ TailChunk \/ CrashRebuild
    \/ \E m \in Msgs, online \in BOOLEAN : FetchSeed(m, online)
    \/ SelectThread \/ WalkStep \/ WalkDone \/ EndCall

Spec == Init /\ [][Next]_vars

------------------------------------------------------------------------------
(* What should hold. *)

\* Headers of ingested messages tie them to others, ingested or not.
Links ==
    LET up == UNION {{m} \X Relations(mail[m]) : m \in Corpus}
    IN  up \cup {<<p[2], p[1]>> : p \in up}
SameSeries ==
    {p \in Corpus \X Corpus :
        mail[p[1]].topic = mail[p[2]].topic /\ mail[p[1]].topic # Untitled}

\* Everything reachable from m along a set of pairs: what is in every set that
\* has m and that no pair leaves.
Closed(pairs, s) == \A p \in pairs : p[1] \notin s \/ p[2] \in s
Reach(pairs, m) ==
    LET nodes == {m} \cup {p[2] : p \in pairs}
        closed == {s \in SUBSET nodes : m \in s /\ Closed(pairs, s)}
    IN  {x \in nodes : \A s \in closed : x \in s}

\* The ancestors of m that have no parent in the corpus: one, or none in a cycle.
Roots(m) ==
    {a \in Reach({p \in Corpus \X Corpus : p[2] = Parent(mail[p[1]])}, m) :
        Parent(mail[a]) \notin Corpus}

\* Over.db has rows of the corpus only, and their tids are messages of the
\* corpus (tid.rs:251-267 stops before a parent that is not ingested).
TypeOK ==
    /\ DOMAIN mail = Msgs /\ indexed \in BOOLEAN
    /\ parquet \in Seq(Msgs) /\ Len(parquet) = Cardinality(Corpus)
    /\ DOMAIN over \subseteq Corpus
    /\ \A m \in DOMAIN over : over[m] \in Corpus \cup {Nobody}
    /\ \A m \in DOMAIN sidetable :
         sidetable[m].tid \in Corpus /\ sidetable[m].files \subseteq Corpus
    /\ rebuild.pc \in {"idle", "update", "tail"}
    /\ rebuild.todo \in Seq(Corpus)
    /\ settled \in BOOLEAN
    /\ call.pc \in {"idle", "select", "walk", "answered"}
    /\ call.answer \subseteq Corpus
    /\ faults \in 0 .. MaxFaults /\ ingests \in 0 .. MaxIngests

\* After a rebuild that ran to its end, and until the next ingest, side table
\* and over.db agree row by row on the grouping of the whole corpus, whatever
\* killed rebuilds left behind (tid.rs:141-195).
RebuildSettles ==
    settled =>
        /\ sidetable = Plan(mail, parquet)
        /\ \A m \in DOMAIN over : over[m] = sidetable[m].tid

\* A thread never holds a message unrelated to the seed, and a cover letter
\* never the files of one: replies and series are the only ties, even when the
\* two SELECTs of a call fall before and after a rebuild (reader.rs:1917-1945).
NoStrangers ==
    LET ties == Links \cup SameSeries
    IN  /\ \/ call.answer \subseteq {call.seed}
           \/ call.answer \subseteq Reach(ties, call.seed)
        /\ \A m \in DOMAIN sidetable :
             \/ sidetable[m].files \subseteq {m}
             \/ sidetable[m].files \subseteq Reach(ties, m)

\* On a settled index a call below its limit returns, for a reply, every other
\* reply whose ancestors lead to the same root: siblings and cousins, in any
\* order of arrival (tid.rs:242-271, reader.rs:1928-1938).
RepliesTogether ==
    (call.pc = "answered" /\ call.tid # Nobody /\ call.calm /\ settled
        /\ Cardinality(call.answer) < MaxMessages)
    => \A m \in DOMAIN over :
         (/\ Roots(m) # {} /\ Roots(m) = Roots(call.seed)
          /\ m \notin Roots(m) /\ call.seed \notin Roots(m))
         => m \in call.answer

\* A walk that no ingest disturbed and that did not use up its budget returns
\* the whole conversation, also across a message that was never ingested
\* (reader.rs:1947-2020).
WalkIsWhole ==
    (call.pc = "answered" /\ call.tid = Nobody /\ call.calm
        /\ Len(call.rows) < MaxMessages)
    => call.answer = Reach(Links, call.seed) \cap Corpus

\* A reply has the tid of the root its chain leads to, and so does the root
\* itself: "following the In-Reply-To / References chain back to a thread
\* root" (tid.rs:4).
RootSharesTid ==
    settled => \A m \in DOMAIN sidetable : \A r \in Roots(m) :
                  sidetable[m].tid = sidetable[r].tid

\* A thread contains the message it was asked for: "return every message in the
\* same conversation" (reader.rs:1913-1914).
SeedIsAnswered ==
    call.pc = "answered" => call.seed \in call.answer
==============================================================================
