--------------------------- MODULE ReaderQueries ---------------------------
(***************************************************************************)
(* What a reader answers.  The metadata is kept twice: in Parquet files,   *)
(* walked newest file first, and in over.db, indexed by list and message.  *)
(* Each query has an indexed path, a walk, or both; they treat the three   *)
(* awkward kinds of rows differently: cross-posts, messages without a      *)
(* date, and rows that are in only one of the two stores.                  *)
(*                                                                         *)
(* A query asks for one fact about a row (its author, a file it touches,   *)
(* a string in its body), so a row is the set of the facts it satisfies.   *)
(* An answer is a set: every path sorts its rows by date at the end.       *)
(***************************************************************************)
EXTENDS Naturals, FiniteSets, FiniteSetsExt, Rows

CONSTANTS
  Mids, Lists,   \* message-ids and mailing lists
  Contents,      \* what a message may be: [date, has], its date and its facts
  Batches,       \* what one ingest may write: sequences of message-ids
  Filterings,    \* [list, since, until] of the queries
  Absent,        \* model value: a filter that is not given
  Limits,        \* values of limit
  Factor,        \* the over-fetch of a query whose rows are filtered afterwards
  MinFetch,      \* and the least it fetches
  MaxCandidates, \* documents at which a patch search gives up
  MaxFiles       \* bound: Parquet files

Undated == 0  \* sorts after every date, as NULL does
Facts == {"author",  \* a column with an index: from_addr, in_reply_to, commit_oid, ...
          "subject", \* the normalized subject: a column that older releases did not have
          "tid",     \* the column only over.db has a value of
          "line",    \* a trailer line contains the value
          "email",   \* the value is the address of a trailer line
          "file", "func", "ref", "text", "body"}

\* A value that is the address of a trailer line is in the line.
ASSUME ContentAssumption ==
  /\ Contents \subseteq [date : Nat, has : SUBSET Facts]
  /\ \A c \in Contents : "email" \in c.has => "line" \in c.has
  /\ Batches \subseteq Seq(Mids)
ASSUME LimitAssumption == Limits \subseteq Nat \ {0} /\ MaxCandidates \in Nat \ {0}
ASSUME FetchAssumption == Factor \in Nat \ {0} /\ MinFetch \in Nat

VARIABLES
  mail,     \* what each message is
  files,    \* Parquet files, newest first; a file is a sequence of rows
  over,     \* the rows of over.db
  entered,  \* those of them the current release wrote: with every column and index entry
  indexed,  \* the indexes are marked complete
  useOver,  \* the reader opened over.db
  asked,    \* the last query
  answer    \* the rows of its answer and what the reader told of it

store == <<mail, files, over, entered, indexed, useOver>>
queryVars == <<mail, files, over, entered, indexed, useOver, asked, answer>>

NotAsked == [op |-> "none"]
NoAnswer == [rows |-> {}, told |-> {}]

-----------------------------------------------------------------------------
(* Rows and filters                                                        *)

Has(r, fact) == fact \in r.has
InLists(q, r) == q.list \in {Absent, r.list}

\* SQL comparison with NULL, and the match arms of most walks.
Since(q, r) == q.since = Absent \/ (r.date # Undated /\ r.date >= q.since)
Until(q, r) == q.until = Absent \/ (r.date # Undated /\ r.date < q.until)
Filters(q, r) == InLists(q, r) /\ Since(q, r) /\ Until(q, r)

\* trailer_mentions and trailer_ref_lookup let undated rows pass since; all_rows both.
SinceOrUndated(q, r) == Since(q, r) \/ r.date = Undated
LenientFilters(q, r) == InLists(q, r) /\ SinceOrUndated(q, r) /\ Until(q, r)
LooseFilters(q, r) == InLists(q, r) /\ (Filters(q, r) \/ r.date = Undated)

-----------------------------------------------------------------------------
(* The walk over Parquet                                                   *)

\* Every file, newest first; a message-id that was seen is skipped, whatever its list.
Walk ==
  LET all == FlattenSeq(files)
      first == {i \in DOMAIN all : \A j \in 1..(i - 1) : all[j].mid # all[i].mid}
      places == Select([i \in DOMAIN all |-> i], first)
  IN [n \in DOMAIN places |-> all[places[n]]]
Walked == ToSet(Walk)

\* The first n matches of the walk: in the order of the files, not of the dates.
FirstOf(matches, n) == ToSet(FirstN(Select(Walk, matches), n))

-----------------------------------------------------------------------------
(* over.db                                                                 *)

\* LIMIT n without ORDER BY.
SomeOf(rows, n) == kSubset(Min({n, Cardinality(rows)}), rows)

\* ORDER BY date DESC LIMIT n, ties in any order.
Newest(rows, n) ==
  {top \in kSubset(Min({n, Cardinality(rows)}), rows) :
     \A r \in top, s \in rows \ top : r.date >= s.date}

\* get: the freshest of the cross-posts.
Freshest(rows) == {r \in rows : \A s \in rows : r.date >= s.date}
Get(mid) == Freshest({r \in over : r.mid = mid})

\* A row of an older release has no normalized subject in its column.
ByColumn(q, fact) ==
  {r \in over : Has(r, fact) /\ Filters(q, r) /\ (fact = "subject" => r \in entered)}
Sequential(q, fact) == Newest(ByColumn(q, fact), q.limit)

\* A side table is asked for its dated entries.  Rows of an older release have none:
\* the table was created empty, or its entries were given a column of no dates.
DatedEntries(q, fact) == {r \in ByColumn(q, fact) \cap entered : r.date # Undated}
ByTouchedFile(q)     == Newest(DatedEntries(q, "file"), q.limit)
ByTrailerEmail(q)    == Newest(DatedEntries(q, "email"), q.limit)
ByTouchedFunction(q) == Newest(DatedEntries(q, "func"), q.limit)
ByTrailerRef(q)      == Newest(DatedEntries(q, "ref"), q.limit)

\* Drops the check of the filters on the row that get returned.
ByMessageIdOnly(q) == Get(q.mid)

ByMessageId(q) == {r \in Get(q.mid) : Filters(q, r)}

IndexedFields == {"author", "subject", "tid", "email", "file", "mid"}

\* Asks the function index whether its marker says complete or not.
Unmarked(fact) == FALSE
NotMarked(fact) == fact = "func" /\ ~indexed

\* scan_eq
ScanEq(q, fact) ==
  CASE fact = "mid"  -> IF ByMessageId(q) = {} THEN {{}} ELSE {{r} : r \in ByMessageId(q)}
    [] fact = "list" -> Newest({r \in over : Filters(q, r)}, q.limit)
    [] fact = "email" -> ByTrailerEmail(q)
    [] fact = "file"  -> ByTouchedFile(q)
    [] fact = "func" /\ ~NotMarked(fact) -> ByTouchedFunction(q)
    [] OTHER -> Sequential(q, fact)

\* What a walk compares: a trailer line contains the value; tid is not in Parquet.
WalkMatches(q, r, fact) ==
  CASE fact = "mid"   -> r.mid = q.mid
    [] fact = "list"  -> TRUE
    [] fact = "email" -> Has(r, "line")
    [] fact = "tid"   -> FALSE
    [] OTHER          -> Has(r, fact)

-----------------------------------------------------------------------------
(* The queries: the possible answers of each                               *)

EqAnswers(on, q, fact) ==
  IF on /\ (fact \in IndexedFields \/ (fact = "list" /\ q.list # Absent))
  THEN ScanEq(q, fact)
  ELSE {FirstOf({r \in Walked : Filters(q, r) /\ WalkMatches(q, r, fact)}, q.limit)}

\* Always a walk: in_list, and the substrings of a subject or of a trailer.
InListAnswers(q, fields) ==
  {FirstOf({r \in Walked : Filters(q, r) /\ \E f \in fields : WalkMatches(q, r, f)}, q.limit)}
SubjectAnswers(q) == {FirstOf({r \in Walked : Filters(q, r) /\ Has(r, "text")}, q.limit)}
TrailerAnswers(q) == {FirstOf({r \in Walked : Filters(q, r) /\ Has(r, "line")}, q.limit)}

\* count walks to the end; corpus_stats counts the rows of over.db, if there is one.
Counted(q, field) == {r \in Walked : Filters(q, r) /\ WalkMatches(q, r, field)}
Corpus(on) == IF on THEN over ELSE Walked

\* all_rows
ListAnswers(on, q) ==
  IF on /\ q.list # Absent THEN ScanEq(q, "list")
  ELSE {FirstOf({r \in Walked : LooseFilters(q, r)}, q.limit)}

WithLimit(q, n) == [q EXCEPT !.limit = n]
Widened(q) == WithLimit(q, Max({Factor * q.limit, MinFetch}))

\* activity: one index seeds, the other condition and the limit are applied after.
ActivityAnswers(on, q, wanted) ==
  LET Both(r) == wanted \subseteq r.has
      Cut(seed) == Newest({r \in seed : Both(r)}, q.limit)
      Seeds == CASE wanted = {"file"}         -> ScanEq(q, "file")
                 [] wanted = {"file", "func"} -> ScanEq(Widened(q), "file")
                 [] wanted = {"func"}         -> ScanEq(q, "func")
                 [] OTHER                     -> ScanEq(Widened(q), "list")
  IN IF on /\ (wanted # {} \/ q.list # Absent)
     THEN UNION {Cut(seed) : seed \in Seeds}
     ELSE {FirstOf({r \in Walked : Filters(q, r) /\ Both(r)}, q.limit)}

\* trailer_ref_lookup
RefAnswers(on, q) ==
  IF on /\ indexed THEN ByTrailerRef(q)
  ELSE {FirstOf({r \in Walked : LenientFilters(q, r) /\ Has(r, "ref")}, q.limit)}

\* trailer_mentions
Mentions(q) == FirstOf({r \in Walked : LenientFilters(q, r) /\ Has(r, "line")}, q.limit)

\* fetch_message: a miss in over.db is looked up in Parquet unless a deadline is set.
FetchAnswers(on, q) ==
  CASE on /\ Get(q.mid) # {} -> {{r} : r \in Get(q.mid)}
    [] on /\ Get(q.mid) = {} /\ q.live -> {{}}
    [] OTHER -> {FirstOf({r \in Walked : r.mid = q.mid}, 1)}

\* expand_citation of a token that looks like a SHA or a CVE, or of a message-id.
CitationAnswers(on, q, id) ==
  IF on /\ id /\ Get(q.mid) # {} THEN {{r} : r \in Get(q.mid)}
  ELSE {FirstOf({r \in Walked : r.mid = q.mid \/ (~id /\ Has(r, "text"))}, q.limit)}

\* series_timeline: the rows of the seed's list with its subject and author.
TimelineAnswers(on, q) ==
  LET Series(seed) ==
        IF ~Has(seed, "author") THEN {seed}
        ELSE IF on /\ Has(seed, "tid")
             THEN {r \in over : Has(r, "tid") /\ Has(r, "author") /\ r.list = seed.list}
             ELSE {r \in Walked : Has(r, "author") /\ r.list = seed.list}
  IN {IF found = {} THEN {} ELSE Series(CHOOSE s \in found : TRUE) : found \in FetchAnswers(on, q)}

\* regex on a header: several times the limit in file order, of which the newest.
HeaderRegexAnswers(q) ==
  Newest(FirstOf({r \in Walked : Filters(q, r) /\ Has(r, "text")}, Factor * q.limit), q.limit)

\* regex on prose or patch: every row passes the walk; the body decides afterwards,
\* and is fetched by message-id (fetch_body).
BodyRegexAnswers(on, q) ==
  LET hits == FirstN(Select(Walk, {r \in Walked : Filters(q, r)}), Factor * q.limit)
      Fetched(r) == {} \notin FetchAnswers(on, [q EXCEPT !.mid = r.mid])
  IN {ToSet(FirstN(Select(hits, {r \in Walked : Has(r, "body") /\ Fetched(r)}), q.limit))}

\* hydrate_candidates: one row per message-id, the freshest; the list is checked on it.
Hydrated(on, q, mids) ==
  LET known == IF on THEN {m \in mids : Get(m) # {}} ELSE {}
      walked == {r \in Walked : r.mid \in mids \ known /\ InLists(q, r)}
  IN {{r \in {pick[m] : m \in known} : InLists(q, r)} \cup walked :
        pick \in {p \in [known -> over] : \A m \in known : p[m] \in Get(m)}}

\* collect_trigram_candidates: the documents that have the bytes and, as the
\* index cannot tell, any of the others.
Posted == ToSet(FlattenSeq(files))
Documents(q) == {r \in Posted : InLists(q, r)}
MidsOf(rows) == {r.mid : r \in rows}
Candidates(q) ==
  LET sure == MidsOf({r \in Documents(q) : Has(r, "body")})
  IN {sure \cup noise : noise \in SUBSET (MidsOf(Documents(q)) \ sure)}

\* The candidates that the index could not tell from a match are read; newest first.
Confirmed(rows, q) == Newest({r \in rows : Has(r, "body")}, q.limit)
PatchAnswers(on, q, candidates) ==
  UNION {Confirmed(rows, q) : rows \in Hydrated(on, q, candidates)}

\* prose_search: the best documents, whatever the list of the row they hydrate to.
TopDocuments(q) == SomeOf({r \in Documents(q) : Has(r, "text")}, q.limit)
ProseAnswers(on, q) ==
  LET anywhere == [q EXCEPT !.list = Absent]
  IN UNION {Hydrated(on, anywhere, MidsOf(top)) : top \in TopDocuments(q)}

\* Only looks at the authored rows.
AuthoredHit(authored, mentions, q) == Cardinality(authored) >= q.limit
LimitHit(authored, mentions, q) ==
  Cardinality(authored) >= q.limit \/ Cardinality(mentions) >= q.limit

\* author_profile: the rows written by the address and those that mention it.
Profile(authored, mentions, q) ==
  [rows |-> authored \cup {r \in mentions : r.mid \notin MidsOf(authored)},
   told |-> IF LimitHit(authored, mentions, q) THEN {"limit_hit"} ELSE {}]

\* maintainer_profile: a declared maintainer is stale when no sampled row of the
\* path has a trailer of his.
Silent(sample) == IF \E r \in sample : Has(r, "email") THEN {} ELSE {"stale_declared"}

-----------------------------------------------------------------------------
(* The store: what ingest leaves behind                                    *)

\* A tier is used unless its marker is behind the corpus; a corpus of no generation
\* and a tier without a marker are trusted.
Generations == 0..1
TierCurrent(corpus, marker) == corpus = 0 \/ marker = Absent \/ marker >= corpus
SomeTier == {TierCurrent(g, m) : g \in Generations, m \in Generations \cup {Absent}}

\* A reader decides on over.db when it is opened, once.
QueryInit ==
  /\ mail \in [Mids -> Contents]
  /\ files = <<>> /\ over = {} /\ entered = {} /\ indexed = TRUE
  /\ useOver \in SomeTier
  /\ asked = NotAsked /\ answer = NoAnswer

\* Leaves the list of a row to be filled in later.
RowOfNoList(m, l) == [mid |-> m, list |-> Absent, date |-> mail[m].date, has |-> mail[m].has]

Row(m, l) == [mid |-> m, list |-> l, date |-> mail[m].date, has |-> mail[m].has]

\* A file and its rows.  An over.db that an older release wrote is opened with the new
\* tables empty, the new columns NULL and the markers incomplete, until a backfill;
\* the insert into over.db may fail while the file stays.
Ingest ==
  /\ asked = NotAsked /\ Len(files) < MaxFiles
  /\ \E l \in Lists, batch \in Batches, old \in BOOLEAN, kept \in BOOLEAN :
       LET rows == [i \in DOMAIN batch |-> Row(batch[i], l)]
       IN /\ old => files = <<>> /\ kept
          /\ files' = <<rows>> \o files
          /\ over' = IF kept THEN over \cup ToSet(rows) ELSE over
          /\ entered' = IF kept /\ ~old THEN entered \cup ToSet(rows) ELSE entered
          /\ indexed' = (indexed /\ ~old)
  /\ UNCHANGED <<mail, useOver, asked, answer>>

-----------------------------------------------------------------------------
(* The queries, one action each: the bindings and the methods they call    *)

Queries == {[list |-> f.list, since |-> f.since, until |-> f.until, limit |-> n,
             mid |-> m, live |-> live] :
              f \in Filterings, n \in Limits, m \in Mids, live \in BOOLEAN}
AMid == CHOOSE m \in Mids : TRUE
Filtered == {q \in Queries : q.mid = AMid /\ q.live}                  \* no message named
Named == {q \in Queries : q.list = Absent /\ q.since = Absent /\ q.until = Absent}

Reply(op, q, facts, rowsets, told) ==
  /\ asked = NotAsked /\ files # <<>>
  /\ \E rows \in rowsets : answer' = [rows |-> rows, told |-> told]
  /\ asked' = [op |-> op, q |-> q, facts |-> facts]
  /\ UNCHANGED store

Eq == \/ \E q \in Filtered, f \in {"list", "author", "subject", "tid", "email", "file", "func"} :
           (f = "list" => q.list # Absent) /\ Reply("eq", q, {f}, EqAnswers(useOver, q, f), {})
      \/ \E q \in Queries : q.live /\ Reply("eq", q, {"mid"}, EqAnswers(useOver, q, "mid"), {})
InList == \E q \in Filtered : Reply("walk", q, {"author", "email"}, InListAnswers(q, {"author", "email"}), {})
SubstrSubject == \E q \in Filtered : Reply("walk", q, {"text"}, SubjectAnswers(q), {})
SubstrTrailers == \E q \in Filtered : Reply("walk", q, {"line"}, TrailerAnswers(q), {})
Count == \E q \in Filtered : Reply("count", q, {"author"}, {Counted(q, "author")}, {})
CorpusStats == \E q \in Named : Reply("stats", q, {}, {Corpus(useOver)}, {})
AllRows == \E q \in Filtered : Reply("rows", q, {}, ListAnswers(useOver, q), {})
Activity == \E q \in Filtered, wanted \in SUBSET {"file", "func"} :
  Reply("activity", q, wanted, ActivityAnswers(useOver, q, wanted), {})
TrailerRefLookup == \E q \in Filtered : Reply("lookup", q, {"ref"}, RefAnswers(useOver, q), {})
TrailerMentions == \E q \in Filtered : Reply("lookup", q, {"line"}, {Mentions(q)}, {})
FetchMessage == \E q \in Named : Reply("fetch", q, {"mid"}, FetchAnswers(useOver, q), {})
SeriesTimeline == \E q \in Named : Reply("series", q, {"author"}, TimelineAnswers(useOver, q), {})
ExpandCitation == \E q \in Named, id \in BOOLEAN :
  Reply("cite", q, {"mid"}, CitationAnswers(useOver, q, id), {})
HeaderRegex == \E q \in Filtered : Reply("regex", q, {"text"}, HeaderRegexAnswers(q), {})
BodyRegex == \E q \in Queries :
  q.mid = AMid /\ Reply("regex", q, {"body"}, BodyRegexAnswers(useOver, q), {})
PatchSearch == \E q \in Filtered : \E candidates \in Candidates(q) :
  IF Cardinality(candidates) >= MaxCandidates
  THEN Reply("patch", q, {"body"}, {{}}, {"refused"})
  ELSE Reply("patch", q, {"body"}, PatchAnswers(useOver, q, candidates), {})
\* An index that is behind the corpus refuses the query.
ProseSearch == \E q \in Named, current \in SomeTier :
  IF current
  THEN Reply("prose", q, {"text"}, ProseAnswers(useOver, q), {})
  ELSE Reply("prose", q, {"text"}, {{}}, {"stale"})
AuthorProfile == \E q \in Filtered : \E authored \in EqAnswers(useOver, q, "author") :
  LET profile == Profile(authored, Mentions(q), q)
  IN Reply("profile", q, {"author", "line"}, {profile.rows}, profile.told)

MaintainerProfile == \E q \in Filtered : \E sample \in ActivityAnswers(useOver, q, {"file"}) :
  q.list = Absent /\ Reply("maintainers", q, {"file", "email"}, {sample}, Silent(sample))

-----------------------------------------------------------------------------
Query ==
  \/ Eq \/ InList \/ SubstrSubject \/ SubstrTrailers \/ Count \/ CorpusStats
  \/ AllRows \/ Activity \/ TrailerRefLookup \/ TrailerMentions
  \/ FetchMessage \/ SeriesTimeline \/ ExpandCitation
  \/ HeaderRegex \/ BodyRegex \/ PatchSearch \/ ProseSearch \/ AuthorProfile
  \/ MaintainerProfile

QueryNext == Ingest \/ Query
QuerySpec == QueryInit /\ [][QueryNext]_queryVars

-----------------------------------------------------------------------------
(* Properties                                                              *)

(* The stores hold rows of messages; over.db and the reference and function *)
(* indexes only rows that are in a file, and an answer only such rows       *)
(* (ingest.rs:283-326).                                                     *)
AnyRow == [mid : Mids, list : Lists, date : Nat, has : SUBSET Facts]
TypeOK ==
  /\ mail \in [Mids -> Contents] /\ files \in Seq(Seq(AnyRow))
  /\ over \subseteq Posted /\ entered \subseteq over
  /\ answer.rows \subseteq Posted

(* The filters of a query hold of every row it returns, whichever index or *)
(* walk found it: only a row without a date passes a bound on the date,    *)
(* and only where the code lets it (reader.rs:673, 1440, 1738).            *)
FiltersHonoured ==
  asked.op \in {"eq", "walk", "count", "rows", "activity", "lookup", "regex", "profile"} =>
    \A r \in answer.rows :
      /\ InLists(asked.q, r)
      /\ \/ Since(asked.q, r) /\ Until(asked.q, r)
         \/ r.date = Undated /\ asked.op \in {"rows", "lookup", "profile"}

(* A query with an index answers with the newest rows when the limit cuts, *)
(* whichever index it used (over.rs:1879, 2125, 2185); an index without a  *)
(* marker knows the rows of the current release only.                      *)
Matches(q, r, facts) == Filters(q, r) /\ facts \subseteq r.has
ByIndex == \/ asked.op = "eq" /\ asked.facts \subseteq IndexedFields \ {"mid"}
           \/ asked.op \in {"activity", "rows"} /\ (asked.facts # {} \/ asked.q.list # Absent)

\* The indexes whose marker no query asks for before it uses them.
Unguarded == {"subject", "email", "file"}
Unentered(r) == r \notin entered /\ asked.facts \cap Unguarded # {}
NewestKept ==
  useOver /\ ByIndex =>
    \A r \in answer.rows, s \in over \ answer.rows :
      Matches(asked.q, s, asked.facts) /\ ~Unentered(s) => r.date >= s.date

(* A message that matches is missing from an answer that the limit did not *)
(* cut only for a reason the code knows of: its row never got into over.db *)
(* (ingest.rs:304), it has no date and the index is by date, an older      *)
(* release wrote it and the query has an index without a marker (subject,  *)
(* trailer address, touched file: over.rs:602, 1970, 2106), a cross-post   *)
(* in a newer file hides it from a walk of its list, or so many newer rows *)
(* touch the file that the over-fetch ends before it.  An index with a     *)
(* marker (function, reference) misses no row of an older release.  A      *)
(* message asked for by its id is missing only from over.db, and under a   *)
(* deadline.                                                               *)
HiddenByCrossPost(r) == r \notin Walked
Crowded(q, facts) ==
  facts = {"file", "func"} /\ Cardinality({r \in over : Matches(q, r, {"file"})}) > Widened(q).limit
Excused(r) ==
  \/ HiddenByCrossPost(r)
  \/ /\ useOver /\ asked.op \notin {"walk", "count"}
     /\ r \notin over \/ r.date = Undated \/ Unentered(r)
NothingElseMissed ==
  /\ (/\ asked.op \in {"eq", "walk", "count", "activity", "lookup"}
      /\ asked.facts \cap {"mid", "list", "tid"} = {}
      /\ Cardinality(answer.rows) < asked.q.limit)
     => \A r \in Posted : Matches(asked.q, r, asked.facts) =>
          \/ r \in answer.rows \/ Excused(r)
          \/ asked.op = "activity" /\ Crowded(asked.q, asked.facts)
  /\ asked.op = "fetch" /\ answer.rows = {} =>
       \A r \in Posted : r.mid = asked.q.mid => useOver /\ asked.q.live /\ r \notin over

(* A profile that does not say it hit a limit leaves out no message that   *)
(* the author wrote or that mentions the address, whatever release wrote   *)
(* its row; a maintainer declared stale by a sample that the limit did not *)
(* cut is silent in the whole window, but for the rows that the index of   *)
(* touched files lacks: those of an older release, until the backfill      *)
(* (reader.rs:1311, 1328, 1564).                                           *)
ProfileLimitTold ==
  /\ asked.op = "profile" /\ answer.told = {} =>
       \A r \in Posted : Filters(asked.q, r) /\ r.has \cap {"author", "line"} # {} =>
         r.mid \in MidsOf(answer.rows) \/ r \notin over \/ HiddenByCrossPost(r)
  /\ asked.op = "maintainers" /\ answer.told # {} /\ Cardinality(answer.rows) < asked.q.limit =>
       \A r \in Posted : Matches(asked.q, r, asked.facts) => Excused(r)

=============================================================================
