------------------------------- MODULE Search -------------------------------
(***************************************************************************)
(* lore_search: the router sends a query to the metadata, trigram and BM25 *)
(* tiers of one reader, fuses their rankings and filters the result; the   *)
(* tool cuts a page and signs a cursor from its last hit.  Every page asks *)
(* the router again: nothing is kept between two of them but the cursor,   *)
(* and ingest may have moved the corpus.                                   *)
(***************************************************************************)
EXTENDS ReaderQueries

CONSTANTS
  Parsed,       \* parsed queries: [by, list, since, until, patch, text]
  PageLimit,    \* limit of the tool
  ConciseHits,  \* hits of a page in the concise format
  Concise,      \* whether the client asks for that format
  MidOrder,     \* the message-ids in their order as strings
  Relevance     \* the message-ids, the most relevant to the text first

VARIABLE session  \* what the client and the cursor know

searchVars == <<mail, files, over, entered, indexed, useOver, asked, answer, session>>

ASSUME OrderAssumption ==
  /\ MidOrder \in Seq(Mids) /\ IsInjective(MidOrder) /\ ToSet(MidOrder) = Mids
  /\ Relevance \in Seq(Mids) /\ IsInjective(Relevance) /\ ToSet(Relevance) = Mids
ASSUME PageAssumption ==
  PageLimit \in Nat \ {0} /\ ConciseHits \in Nat \ {0} /\ Concise \in BOOLEAN

NoSession == [at |-> "none"]

\* parse_query refuses a window that is empty.
WellFormed(p) == p.since = Absent \/ p.until = Absent \/ p.since < p.until

-----------------------------------------------------------------------------
(* The tiers                                                               *)

Place(seq, m) == CHOOSE i \in DOMAIN seq : seq[i] = m
MidLess(m, n) == Place(MidOrder, m) < Place(MidOrder, n)

\* The tool asks for two pages and a hit more, to know whether there is another page.
PageSize == IF Concise THEN ConciseHits ELSE PageLimit
Budget == Max({2 * PageLimit + 1, ConciseHits + 1})
AsQuery(p, n) == [list |-> p.list, since |-> p.since, until |-> p.until, limit |-> n,
                  mid |-> p.mid, live |-> TRUE]

Sorted(rows, Before(_, _)) ==
  {s \in SetToSeqs(rows) : \A i, j \in DOMAIN s : i < j => ~Before(s[j], s[i])}
Newer(r, s) == r.date > s.date
MoreRelevant(r, s) == Place(Relevance, r.mid) < Place(Relevance, s.mid)

\* The first of its predicates that the metadata tier knows decides; all_rows of a
\* reader without over.db answers in the order of the walk.
MetadataTier(p) ==
  LET q == AsQuery(p, Budget)
      bounded == p.list # Absent \/ p.since # Absent \/ p.until # Absent
      Ordered(answers) == UNION {Sorted(rows, Newer) : rows \in answers}
      first == Select(<<"mid", "fixes", "file", "author">>, p.by)
  IN CASE first = <<>> /\ (p.patch \/ p.text \/ ~bounded) -> {<<>>}
       [] first = <<>> -> IF useOver /\ p.list # Absent
                          THEN Ordered(ListAnswers(useOver, Widened(q)))
                          ELSE {Select(Walk, rows) : rows \in ListAnswers(useOver, Widened(q))}
       [] OTHER -> Ordered(CASE first[1] = "mid"    -> FetchAnswers(useOver, q)
                             [] first[1] = "fixes"  -> CitationAnswers(useOver, q, FALSE)
                             [] first[1] = "file"   -> ActivityAnswers(useOver, q, {"file"})
                             [] first[1] = "author" -> EqAnswers(useOver, q, "author"))

TrigramTier(p, candidates) ==
  IF ~p.patch THEN {<<>>}
  ELSE UNION {Sorted(rows, Newer) : rows \in PatchAnswers(useOver, AsQuery(p, Budget), candidates)}

BM25Tier(p, fresh) ==
  IF ~p.text \/ ~fresh THEN {<<>>}
  ELSE UNION {Sorted(rows, MoreRelevant) : rows \in ProseAnswers(useOver, AsQuery(p, 2 * Budget))}

-----------------------------------------------------------------------------
(* Fusion                                                                  *)

\* A float of 24 bits, as a multiple of 1 / 2^30: exact below 1 / 8.
Ulp(x) == IF x < 16777216 THEN 1 ELSE IF x < 33554432 THEN 2 ELSE IF x < 67108864 THEN 4 ELSE 8
Rounded(x) ==
  LET u == Ulp(x)
      up == 2 * (x % u) > u \/ (2 * (x % u) = u /\ (x \div u) % 2 = 1)
  IN u * (x \div u) + (IF up THEN u ELSE 0)

\* 1 / (60 + rank), to the nearest.
RrfK == 60
Contribution(rank) ==
  LET u == Ulp(1073741824 \div (RrfK + rank))
      d == u * (RrfK + rank)
  IN u * ((1073741824 + (d \div 2)) \div d)

\* The rows with their ranks, in the order in which a hash map gives the tiers.
Orders == {order \in [{1, 2, 3} -> {1, 2, 3}] : IsInjective(order)}
Ranked(tier) == [n \in DOMAIN tier |-> [row |-> tier[n], rank |-> n]]
Met(tiers, order) ==
  Ranked(tiers[order[1]]) \o Ranked(tiers[order[2]]) \o Ranked(tiers[order[3]])

\* The score of a message adds up what the first n rows contribute, and is rounded
\* every time: the sum of more than two depends on their order.
Score(met, m) ==
  LET sum[n \in 0 .. Len(met)] ==
        CASE n = 0 -> 0
          [] n > 0 /\ met[n].row.mid # m -> sum[n - 1]
          [] OTHER -> Rounded(sum[n - 1] + Contribution(met[n].rank))
  IN sum[Len(met)]

\* One hit per message, with the row that was met first.
Hits(met) ==
  LET places(m) == {n \in DOMAIN met : met[n].row.mid = m}
  IN {[row |-> met[Min(places(m))].row, mid |-> m, score |-> Score(met, m)] :
        m \in {met[n].row.mid : n \in DOMAIN met}}

\* The order of the tiers decides on a row or a score.
Ambiguous(tiers) == \E o, p \in Orders : Hits(Met(tiers, o)) # Hits(Met(tiers, p))

\* The highest first, ties in any order.
Higher(h, g) == h.score > g.score
Fused(tiers) == UNION {Sorted(Hits(Met(tiers, order)), Higher) : order \in Orders}

\* Leaves the filters to the tiers.
KeepAll(p, hit) == TRUE

\* The list, author and dates once more: a tier hydrates a row of another list, or
\* was not asked for the author at all.
PostFilter(p, hit) ==
  /\ Filters(AsQuery(p, Budget), hit.row)
  /\ "author" \in p.by => Has(hit.row, "author")

\* What the three tiers answer, and what the router makes of it.
Tiers(p, fresh, few) ==
  MetadataTier(p) \X (UNION {TrigramTier(p, c) : c \in few}) \X BM25Tier(p, fresh)
Dispatch(p, tiers) ==
  LET Kept(hits) == {hit \in ToSet(hits) : PostFilter(p, hit)}
  IN {FirstN(Select(FirstN(hits, 2 * Budget), Kept(hits)), Budget) : hits \in Fused(tiers)}

-----------------------------------------------------------------------------
(* Pages                                                                   *)

Cursor(hit) == [score |-> hit.score, mid |-> hit.mid]

\* Signs the first hit that is left over.
CursorPast(rest) == Cursor(rest[PageSize + 1])

\* Signs the last hit of the page.
CursorOf(rest) == Cursor(rest[PageSize])

\* Keeps the hit the cursor was signed from.
AtOrAfter(c, hit) == hit.score < c.score \/ (hit.score = c.score /\ ~MidLess(hit.mid, c.mid))

\* Strictly after the cursor by score, then by message-id.
After(c, hit) == hit.score < c.score \/ (hit.score = c.score /\ MidLess(c.mid, hit.mid))

\* The order of two hits is up to the hash map.
Tied(hits) == \E i, j \in DOMAIN hits : i < j /\ hits[i].score = hits[j].score

\* A page of the hits after the cursor, and a cursor if hits are left.
Page(s, tiers, hits) ==
  LET left == {hit \in ToSet(hits) : s.at = "new" \/ After(s.cursor, hit)}
      rest == Select(hits, left)
      page == FirstN(rest, PageSize)
  IN session' = [s EXCEPT
       !.at = IF Len(rest) > PageSize THEN "more" ELSE "done",
       !.cursor = IF Len(rest) > PageSize THEN CursorOf(rest) ELSE Absent,
       !.page = page,
       !.served = @ \o [i \in DOMAIN page |-> page[i].mid],
       !.tiers = IF Len(rest) > PageSize THEN tiers ELSE <<>>,
       !.steady = @ /\ (s.at = "new" \/ tiers = s.tiers),
       !.tied = @ \/ Tied(hits) \/ Ambiguous(tiers),
       !.found = {hits[i].mid : i \in DOMAIN hits}]

AskRouter(s) ==
  LET some == IF s.p.patch THEN Candidates(AsQuery(s.p, Budget)) ELSE {{}}
      few == {candidates \in some : Cardinality(candidates) < MaxCandidates}
  IN \/ /\ some # few
        /\ session' = [s EXCEPT !.at = "refused", !.page = <<>>, !.cursor = Absent]
     \/ \E tiers \in Tiers(s.p, s.fresh, few) :
          \E hits \in Dispatch(s.p, tiers) : Page(s, tiers, hits)

\* The first page.  A BM25 index that is behind the corpus is left out, and said so.
LoreSearch ==
  /\ session = NoSession /\ asked = NotAsked /\ files # <<>>
  /\ \E p \in {r \in Parsed : WellFormed(r)}, fresh \in SomeTier :
       /\ ~p.text => fresh
       /\ AskRouter([at |-> "new", p |-> p, fresh |-> fresh, cursor |-> Absent, page |-> <<>>,
                     served |-> <<>>, found |-> {}, tiers |-> <<>>,
                     steady |-> TRUE, tied |-> FALSE, moved |-> FALSE])
  /\ UNCHANGED <<store, asked, answer>>

NextPage ==
  /\ session.at = "more"
  /\ AskRouter(session)
  /\ UNCHANGED <<store, asked, answer>>

\* Ingest between two pages.
MoveCorpus ==
  /\ session.at = "more" /\ Ingest
  /\ session' = [session EXCEPT !.moved = TRUE]

-----------------------------------------------------------------------------
SearchInit == QueryInit /\ session = NoSession
SearchNext ==
  \/ session = NoSession /\ QueryNext /\ UNCHANGED session
  \/ LoreSearch \/ NextPage \/ MoveCorpus
SearchSpec == SearchInit /\ [][SearchNext]_searchVars

-----------------------------------------------------------------------------
(* Properties                                                              *)

(* Whatever tier found a hit, it is from the list, by the author and       *)
(* within the dates of the query, and the page has no message twice        *)
(* (router.rs:448-469).                                                    *)
HitsHonourFilters ==
  session # NoSession =>
    /\ \A i \in DOMAIN session.page :
         /\ Filters(AsQuery(session.p, Budget), session.page[i].row)
         /\ "author" \in session.p.by => Has(session.page[i].row, "author")
    /\ \A i, j \in DOMAIN session.page : session.page[i].mid = session.page[j].mid => i = j

(* A page that has a successor moves the cursor on, by score and then by   *)
(* message-id, even when ingest or a tie reorders the hits: no client      *)
(* pages round in a circle (search.py:104-106).                            *)
CursorAdvances ==
  [][session.at = "more" /\ session'.at = "more" /\ UNCHANGED files =>
       session'.cursor.score < session.cursor.score
       \/ (session'.cursor.score = session.cursor.score
           /\ MidLess(session.cursor.mid, session'.cursor.mid))]_searchVars

(* While the tiers answer every page alike, and the hash map of the fusion *)
(* decides neither the order of two hits nor the row or score of one, the  *)
(* pages together hold every hit the router found, each one once           *)
(* (search.py:119-127).                                                    *)
EveryHitOnce ==
  /\ ToSet(session.served) = session.found
  /\ Len(session.served) = Cardinality(session.found)
PagesWhole == session.at = "done" /\ session.steady /\ ~session.tied => EveryHitOnce

(* The pages of a search have no message in common: "pagination through    *)
(* `lore_search` with no overlap between pages" (test_cursor.py:8).        *)
PagesDisjoint ==
  session # NoSession /\ session.steady => IsInjective(session.served)

(* A list: filter on a text query is applied by the index itself, so that  *)
(* no message of the list that matches is filtered away after the search   *)
(* (reader.rs:2022-2025).                                                  *)
ListSearchFinds ==
  session.at = "done" /\ ~session.moved =>
    LET p == session.p
    IN p.by = {} /\ p.text /\ session.fresh /\ p.list # Absent /\ p.since = Absent =>
         \A r \in Posted : Filters(AsQuery(p, Budget), r) /\ Has(r, "text") => r.mid \in session.found

=============================================================================
