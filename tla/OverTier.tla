------------------------------ MODULE OverTier ------------------------------
(***************************************************************************)
(* over.db: the table of message rows, the side tables that index what is  *)
(* inside them, the backfills and the migration that bring an older file   *)
(* up to date, and the builder that replaces the whole file.               *)
(*                                                                         *)
(* Ingest, backfills and migration hold writer.lock, so at most one of     *)
(* them (the job) is at work; any of them may die between two              *)
(* transactions.  kernel-lore-build-over takes no lock: it builds another  *)
(* file and renames it over the live one, and a job that has the old file  *)
(* open goes on writing to a file nobody will open again.                  *)
(***************************************************************************)
EXTENDS Naturals, FiniteSets, Sequences

CONSTANTS
  Mids,       \* message-ids
  Lists,      \* mailing lists; a cross-post has one row per list
  Undated,    \* the message-ids without a usable Date header
  NoRow,      \* model value: (message_id, list) is not in the table
  Parsers,    \* versions of the mail parser that ingest; version 0 wrote OldRows
  OldRows,    \* rowid -> key: the rows of a file written by an older release
  OldMails,   \* rowid -> key: its over_trailer_email table
  Chunk,      \* rows of one backfill transaction
  Window,     \* rowids of one migration transaction
  MaxJobs,    \* bound: runs of ingest, backfill and migration
  MaxFiles    \* bound: Parquet files

Keys == Mids \X Lists
Families == {"subj", "from", "trailer", "env", "ref", "file", "func"}
Backfills == {"subj", "emails", "env", "refs", "files", "funcs"}
Maintenance == Backfills \cup {"dates", "migrate"}
Versions == Parsers \cup {0}

ASSUME SetAssumption ==
  /\ IsFiniteSet(Mids) /\ IsFiniteSet(Lists)
  /\ Parsers \subseteq Nat \ {0}
  /\ NoRow \notin [id : Nat, ver : Nat, env : BOOLEAN]
ASSUME OldAssumption ==
  /\ DOMAIN OldRows \subseteq Nat \ {0} /\ DOMAIN OldMails \subseteq Nat \ {0}
  /\ \E last \in DOMAIN OldRows : \A i \in DOMAIN OldRows : i <= last
  /\ \A i, j \in DOMAIN OldRows : OldRows[i] = OldRows[j] => i = j
  /\ {OldRows[i] : i \in DOMAIN OldRows} = {OldMails[i] : i \in DOMAIN OldMails}
  /\ {OldRows[i] : i \in DOMAIN OldRows} \subseteq Keys
ASSUME BoundAssumption == Chunk \in Nat \ {0} /\ Window \in Nat \ {0} /\ MaxJobs \in Nat

VARIABLES
  parquet,  \* the metadata files, newest first: [list, mids, ver]
  exists,   \* over.db is there
  rows,     \* over: key -> [id, ver, env] or NoRow; ver is the parser's, env says
            \* whether the payload carries the To: and Cc: addresses
  lastId,   \* AUTOINCREMENT of over
  side,     \* family -> entries [key, ver, dated] of the column or side table
  mails,    \* the legacy table over_trailer_email: entries [id, key, dated]
  meta,     \* touched_function_index_state and trailer_ref_index_state
  job,      \* who holds the lock: [op, at, cursor, stale, file]
  jobs,     \* jobs so far
  build     \* the Parquet files the builder listed, <<>> when none runs

db == <<exists, rows, lastId, side, mails, meta>>
vars == <<parquet, exists, rows, lastId, side, mails, meta, job, jobs, build>>

NoFile == [list |-> NoRow, mids |-> {}, ver |-> 0]
Idle == [op |-> "idle", at |-> "end", cursor |-> 0, stale |-> FALSE, file |-> NoFile]

-----------------------------------------------------------------------------
(* Rows and what is indexed of them                                        *)

Dated(k) == k[1] \notin Undated
Entry(k, v) == [key |-> k, ver |-> v, dated |-> Dated(k)]
EntriesOf(entries, ks) == {e \in entries : e.key \in ks}
KeysOf(file) == file.mids \X {file.list}
Stored == {k \in Keys : rows[k] # NoRow}

\* What the payload of row r of key k puts into a family.
Derived(f, k, r) == IF f = "env" /\ ~r.env THEN {} ELSE {Entry(k, r.ver)}
DerivedOf(f, ks, table) == UNION {Derived(f, k, table[k]) : k \in ks}

\* The side tables without the DELETE: what the replaced rows had stays.
Appended(f, entries, ks, table) == entries \cup DerivedOf(f, ks, table)

\* DELETE by (message_id, list), then INSERT what the payloads yield.
Rewritten(f, entries, ks, table) ==
  (entries \ EntriesOf(entries, ks)) \cup DerivedOf(f, ks, table)

\* INSERT OR REPLACE: a row that was there gets a new rowid.
IngestedRow(file, n) == [id |-> n, ver |-> file.ver, env |-> TRUE]
Replaced(table, from, file) ==
  LET rank == CHOOSE r \in [file.mids -> 1..Cardinality(file.mids)] :
                \A m, n \in file.mids : r[m] = r[n] => m = n
  IN [k \in Keys |-> IF k \in KeysOf(file)
                     THEN IngestedRow(file, from + rank[k[1]])
                     ELSE table[k]]

Nothing == [f \in Families |-> {}]
NoRows == [k \in Keys |-> NoRow]
OldKeys == {OldRows[i] : i \in DOMAIN OldRows}

(* Either there is no over.db yet, or it was left by a release without the *)
(* normalized tables: trailer e-mails in the legacy table, touched files   *)
(* without their dates, no touched functions and no trailer references.    *)
Init ==
  /\ jobs = 0 /\ build = <<>> /\ job = Idle
  /\ meta = [func |-> "absent", ref |-> "absent"]
  /\ \/ /\ exists = FALSE /\ parquet = <<>> /\ lastId = 0 /\ mails = {}
        /\ rows = NoRows /\ side = Nothing
     \/ /\ exists = TRUE
        /\ \E order \in [1..Cardinality(Lists) -> Lists] :
             /\ \A i, j \in DOMAIN order : order[i] = order[j] => i = j
             /\ parquet = [i \in DOMAIN order |->
                  [list |-> order[i], ver |-> 0,
                   mids |-> {m \in Mids : <<m, order[i]>> \in OldKeys}]]
        /\ rows = [k \in Keys |->
             IF k \in OldKeys
             THEN [id |-> CHOOSE i \in DOMAIN OldRows : OldRows[i] = k, ver |-> 0, env |-> FALSE]
             ELSE NoRow]
        /\ lastId = CHOOSE n \in DOMAIN OldRows : \A m \in DOMAIN OldRows : m <= n
        /\ side = [Nothing EXCEPT !["file"] =
             {[key |-> k, ver |-> 0, dated |-> FALSE] : k \in OldKeys}]
        /\ mails = {[id |-> i, key |-> OldMails[i], dated |-> FALSE] : i \in DOMAIN OldMails}

-----------------------------------------------------------------------------
(* Jobs: the lock, the schema, the markers                                 *)

\* The markers of a file that did not exist before open() say complete.
FirstStep(op) == IF exists THEN op ELSE "mark"

\* Takes the marker step for a file that was there as well.
AlwaysMark(op) == "mark"

MarkIfCreated(op) == FirstStep(op)

\* Takes the lock and opens over.db, creating what is missing of the schema.
StartJob(op, file) ==
  /\ job.op = "idle" /\ jobs < MaxJobs
  /\ jobs' = jobs + 1
  /\ exists' = TRUE
  /\ job' = [op |-> op, at |-> MarkIfCreated("begin"), cursor |-> 0, stale |-> FALSE, file |-> file]
  /\ UNCHANGED <<parquet, rows, lastId, side, mails, meta, build>>

StartMaintenance == \E op \in Maintenance : StartJob(op, NoFile)
StartIngest ==
  /\ Len(parquet) < MaxFiles
  /\ \E l \in Lists, ms \in SUBSET Mids \ {{}}, v \in Parsers :
       StartJob("ingest", [list |-> l, mids |-> ms, ver |-> v])

\* Two transactions, one marker each.
MarkCreated ==
  /\ job.at \in {"mark", "markRef"} /\ ~job.stale
  /\ meta' = IF job.at = "mark" THEN [meta EXCEPT !.func = "complete"]
                                ELSE [meta EXCEPT !.ref = "complete"]
  /\ job' = [job EXCEPT !.at = IF job.at = "mark" THEN "markRef" ELSE "begin"]
  /\ UNCHANGED <<parquet, exists, rows, lastId, side, mails, jobs, build>>

\* A backfill of touched functions announces itself before its first chunk.
Begin ==
  /\ job.at = "begin" /\ ~job.stale
  /\ meta' = IF job.op = "funcs" THEN [meta EXCEPT !.func = "building"] ELSE meta
  /\ job' = [job EXCEPT !.at = CASE job.op = "ingest"  -> "parquet"
                                 [] job.op = "migrate" -> "mails"
                                 [] OTHER              -> "chunk"]
  /\ UNCHANGED <<parquet, exists, rows, lastId, side, mails, jobs, build>>

\* The process dies and the kernel releases its lock; or a transaction fails: a
\* backfill returns the error, ingest logs it and goes on without the rows.
Crash == job.op # "idle" /\ job' = Idle /\ UNCHANGED <<db, parquet, jobs, build>>

\* A job whose file was replaced under it writes to the orphan until it ends.
EndOnOrphan ==
  /\ job.op # "idle" /\ job.stale /\ job.at # "parquet"
  /\ job' = Idle
  /\ UNCHANGED <<db, parquet, jobs, build>>

-----------------------------------------------------------------------------
(* Ingest of a shard: Parquet first, over.db second                        *)

WriteParquet ==
  /\ job.at = "parquet"
  /\ parquet' = <<job.file>> \o parquet
  /\ job' = [job EXCEPT !.at = "insert"]
  /\ UNCHANGED <<db, jobs, build>>

\* One transaction: the rows and all that is indexed of them.
InsertBatch ==
  /\ job.at = "insert" /\ ~job.stale
  /\ LET new == Replaced(rows, lastId, job.file)
     IN /\ rows' = new
        /\ side' = [f \in Families |-> Rewritten(f, side[f], KeysOf(job.file), new)]
  /\ lastId' = lastId + Cardinality(job.file.mids)
  /\ job' = Idle
  /\ UNCHANGED <<parquet, exists, mails, meta, jobs, build>>

-----------------------------------------------------------------------------
(* Backfills: a walk over the rows by rowid, one transaction per chunk     *)

\* The rows SELECTed for a chunk: the next ones after the cursor.
Candidates == {k \in Stored : /\ rows[k].id > job.cursor
                              /\ job.op = "subj" => EntriesOf(side["subj"], {k}) = {}}
Pending == {k \in Candidates :
              Cardinality({q \in Candidates : rows[q].id <= rows[k].id}) <= Chunk}

\* Leaves the cursor where it was.
SameCursor(ks) == job.cursor
LastRowid(ks) == CHOOSE n \in {rows[k].id : k \in ks} : \A k \in ks : rows[k].id <= n

\* Deletes every kind of involvement, the envelope's and the author's too.
AllKinds(f, ks) ==
  IF f \in {"trailer", "env", "from"} THEN Rewritten(f, IF f = "from" THEN {} ELSE side[f], ks, rows) ELSE side[f]

\* backfill_trailer_emails: the DELETE spares From:, To: and Cc:.
Emails(f, ks) ==
  CASE f = "trailer" -> Rewritten(f, side[f], ks, rows)
    [] f = "env"     -> side[f] \cup DerivedOf(f, ks, rows)
    [] OTHER         -> side[f]

\* backfill_envelope_addresses reads the message itself; what it cannot read it skips.
Envelopes(f, ks, unreadable) ==
  IF f = "env"
  THEN (side[f] \ EntriesOf(side[f], ks \ unreadable)) \cup {Entry(k, rows[k].ver) : k \in ks \ unreadable}
  ELSE side[f]

\* One transaction of a backfill: the next rows, then the cursor past the last.
ChunkOf(op) ==
  /\ job.op = op /\ job.at = "chunk" /\ ~job.stale
  /\ Pending # {}
  /\ job' = [job EXCEPT !.cursor = LastRowid(Pending)]
  /\ UNCHANGED <<parquet, exists, rows, lastId, mails, meta, jobs, build>>
RewriteChunk(op, f) ==
  ChunkOf(op) /\ side' = [side EXCEPT ![f] = Rewritten(f, @, Pending, rows)]

SubjectsChunk  == RewriteChunk("subj", "subj")
FilesChunk     == RewriteChunk("files", "file")
FunctionsChunk == RewriteChunk("funcs", "func")
RefsChunk      == RewriteChunk("refs", "ref")
EmailsChunk    == ChunkOf("emails") /\ side' = [f \in Families |-> Emails(f, Pending)]
EnvelopesChunk ==
  /\ ChunkOf("env")
  /\ \E unreadable \in SUBSET Pending :
       side' = [f \in Families |-> Envelopes(f, Pending, unreadable)]

BackfillDone ==
  /\ job.op \in Backfills /\ job.at = "chunk" /\ ~job.stale
  /\ Pending = {}
  /\ meta' = [func |-> IF job.op = "funcs" THEN "complete" ELSE meta.func,
              ref  |-> IF job.op = "refs" THEN "complete" ELSE meta.ref]
  /\ job' = Idle
  /\ UNCHANGED <<parquet, exists, rows, lastId, side, mails, jobs, build>>

\* backfill_side_table_dates, one table after the other; over_involvement is not
\* among them.  An entry is dated from its row, if the row has a date.
DateTables == <<"mails", "ref", "file", "func">>
TableAt(n) == IF DateTables[n] = "mails" THEN mails ELSE side[DateTables[n]]
ToDate(entries) == {e \in entries : ~e.dated /\ Dated(e.key) /\ rows[e.key] # NoRow}
DatedIn(entries, part) == (entries \ part) \cup {[e EXCEPT !.dated = TRUE] : e \in part}

AtTable(n) == job.op = "dates" /\ job.at = "chunk" /\ ~job.stale /\ job.cursor = n - 1
DatesChunk ==
  /\ \E n \in DOMAIN DateTables :
       /\ AtTable(n)
       /\ \E part \in SUBSET ToDate(TableAt(n)) \ {{}} :
            IF DateTables[n] = "mails"
            THEN mails' = DatedIn(mails, part) /\ UNCHANGED side
            ELSE side' = [side EXCEPT ![DateTables[n]] = DatedIn(@, part)] /\ UNCHANGED mails
  /\ UNCHANGED <<parquet, exists, rows, lastId, meta, job, jobs, build>>
DatesTableDone ==
  /\ \E n \in DOMAIN DateTables : AtTable(n) /\ ToDate(TableAt(n)) = {}
  /\ job' = IF job.cursor + 1 = Len(DateTables) THEN Idle ELSE [job EXCEPT !.cursor = @ + 1]
  /\ UNCHANGED <<db, parquet, jobs, build>>

-----------------------------------------------------------------------------
(* migrate_to_involvement_schema: windows of rowids, then DROP TABLE       *)

InWindow(ids) == {i \in ids : job.cursor < i /\ i <= job.cursor + Window}
Last(ids) == CHOOSE n \in ids : \A m \in ids : m <= n
MailIds == {e.id : e \in mails}
RowIds == {rows[k].id : k \in Stored}

\* The window without its last row.
ShortWindow(ids) == {i \in InWindow(ids) : i < Last(InWindow(ids))}
ToMove(ids) == InWindow(ids)

\* A trailer row is copied with the date it has, which may still be NULL, and as
\* the old release wrote it, even where a newer parser replaced the row since.
MigrateMails ==
  /\ job.at = "mails" /\ ~job.stale
  /\ IF InWindow(MailIds) = {}
     THEN /\ job' = [job EXCEPT !.at = "from", !.cursor = 0]
          /\ UNCHANGED side
     ELSE /\ job' = [job EXCEPT !.cursor = Last(InWindow(MailIds))]
          /\ side' = [side EXCEPT !["trailer"] = @ \cup
               {[key |-> e.key, ver |-> 0, dated |-> e.dated] :
                  e \in {x \in mails : x.id \in ToMove(MailIds)}}]
  /\ UNCHANGED <<parquet, exists, rows, lastId, mails, meta, jobs, build>>

MigrateFrom ==
  /\ job.at = "from" /\ ~job.stale
  /\ IF InWindow(RowIds) = {}
     THEN /\ job' = [job EXCEPT !.at = "drop"]
          /\ UNCHANGED side
     ELSE /\ job' = [job EXCEPT !.cursor = Last(InWindow(RowIds))]
          /\ side' = [side EXCEPT !["from"] = @ \cup
               DerivedOf("from", {k \in Stored : rows[k].id \in InWindow(RowIds)}, rows)]
  /\ UNCHANGED <<parquet, exists, rows, lastId, mails, meta, jobs, build>>

MigrateDrop ==
  /\ job.at = "drop" /\ ~job.stale
  /\ mails' = {} /\ job' = Idle
  /\ UNCHANGED <<parquet, exists, rows, lastId, side, meta, jobs, build>>

-----------------------------------------------------------------------------
(* kernel-lore-build-over: no lock, a file beside the live one, a rename   *)

BuildStart ==
  /\ build = <<>> /\ parquet # <<>>
  /\ build' = parquet
  /\ UNCHANGED <<db, parquet, job, jobs>>

\* scan_streaming: newest file first, one row per message-id.
ScannedIn(i, files) == {m \in files[i].mids : \A j \in 1..(i - 1) : m \notin files[j].mids}
Scanned(files) == UNION {ScannedIn(i, files) \X {files[i].list} : i \in DOMAIN files}
VersionIn(files, k) ==
  files[CHOOSE i \in DOMAIN files : files[i].list = k[2] /\ k[1] \in ScannedIn(i, files)].ver

\* The Parquet schema has no To: and Cc:, so the payloads go without.
BuiltRow(files, k, n) == [id |-> n, ver |-> VersionIn(files, k), env |-> FALSE]

\* The rename takes the main file only.  It is modelled as a clean swap: a write-ahead
\* log that the old file leaves under the same name is not.
BuildPublish ==
  /\ build # <<>>
  /\ \E ids \in [Scanned(build) -> 1..Cardinality(Scanned(build))] :
       /\ \A k, q \in DOMAIN ids : ids[k] = ids[q] => k = q
       /\ rows' = [k \in Keys |-> IF k \in DOMAIN ids
                     THEN BuiltRow(build, k, ids[k]) ELSE NoRow]
  /\ lastId' = Cardinality(Scanned(build))
  /\ side' = [f \in Families |-> DerivedOf(f, Scanned(build), rows')]
  /\ mails' = {} /\ exists' = TRUE
  /\ meta' = [func |-> "complete", ref |-> "complete"]
  /\ job' = [job EXCEPT !.stale = job.op # "idle"]
  /\ build' = <<>>
  /\ UNCHANGED <<parquet, jobs>>

\* The build fails or dies: its temporary file stays, the live one is untouched.
BuildCrash == build # <<>> /\ build' = <<>> /\ UNCHANGED <<db, parquet, job, jobs>>

-----------------------------------------------------------------------------
JobStep ==
  \/ MarkCreated \/ Begin \/ EndOnOrphan
  \/ WriteParquet \/ InsertBatch
  \/ SubjectsChunk \/ FilesChunk \/ FunctionsChunk \/ RefsChunk
  \/ EmailsChunk \/ EnvelopesChunk \/ BackfillDone
  \/ DatesChunk \/ DatesTableDone
  \/ MigrateMails \/ MigrateFrom \/ MigrateDrop

Next ==
  \/ StartMaintenance \/ StartIngest \/ JobStep \/ Crash
  \/ BuildStart \/ BuildPublish \/ BuildCrash

\* A process that holds the lock goes on until it ends or dies.
Spec == Init /\ [][Next]_vars /\ WF_vars(JobStep)
-----------------------------------------------------------------------------
(* Properties                                                              *)

Files == [list : Lists, mids : SUBSET Mids, ver : Versions]
Entries == [key : Keys, ver : Versions, dated : BOOLEAN]
Places == {"mark", "markRef", "begin", "chunk", "parquet", "insert", "mails", "from", "drop",
           "end"}
TypeOK ==
  /\ parquet \in Seq(Files) /\ build \in Seq(Files)
  /\ exists \in BOOLEAN /\ jobs \in Nat /\ lastId \in Nat
  /\ rows \in [Keys -> {NoRow} \cup [id : Nat \ {0}, ver : Versions, env : BOOLEAN]]
  /\ side \in [Families -> SUBSET Entries]
  /\ mails \subseteq [id : Nat, key : Keys, dated : BOOLEAN]
  /\ meta \in [func : {"absent", "building", "complete"}, ref : {"absent", "complete"}]
  /\ job \in [op : Maintenance \cup {"idle", "ingest"}, at : Places, cursor : Nat,
              stale : BOOLEAN, file : Files \cup {NoFile}]

(* What a side table says of a message is what the row itself says: no     *)
(* replaced or vanished row is still found by what it used to hold.  Only  *)
(* the migration brings old trailer entries in (over.rs:1313).             *)
SideTablesFresh ==
  \A f \in Families : \A e \in side[f] :
    /\ rows[e.key] # NoRow
    /\ e.ver = rows[e.key].ver \/ (f = "trailer" /\ e.ver = 0)

(* Where a marker lets the reader trust a side table, the table has every  *)
(* dated row: a query that stops at the index misses nothing               *)
(* (over.rs:213, 344, 1920, 2023).                                         *)
DatedKeys(f) == {e.key : e \in {x \in side[f] : x.dated}}
TrustedIndexWhole ==
  /\ meta.func = "complete" => DatedKeys("func") = {k \in Stored : Dated(k)}
  /\ meta.ref = "complete"  => DatedKeys("ref") = {k \in Stored : Dated(k)}

(* backfill_trailer_emails rebuilds the trailers from payloads that do not *)
(* all carry To: and Cc:, so it must leave alone what the envelope         *)
(* backfill read from the messages themselves (over.rs:1040).              *)
EnvelopesKept ==
  [][job.op = "emails" /\ ~job'.stale =>
       \A f \in {"env", "from"} : side[f] \subseteq side'[f]]_vars

(* Every message has its trailers in the new table or the old one: neither *)
(* a crash nor the windows of the migration loses one before the old table *)
(* is dropped (over.rs:1292-1301, 1418).                                   *)
NoTrailerLost ==
  \A k \in Stored : \/ EntriesOf(side["trailer"], {k}) # {}
                    \/ \E e \in mails : e.key = k

(* A job that is left alone gets to its end: the cursor of every walk      *)
(* passes each row once (over.rs:742-1233).                                *)
BackfillEnds == (job.op # "idle") ~> (job.op = "idle")

=============================================================================
