--------------------------- MODULE SearchProofs ---------------------------
(***************************************************************************)
(* Proofs for ReaderQueries and Search, for any messages, lists, files,    *)
(* filters, limits and pages.                                              *)
(***************************************************************************)
EXTENDS Search, RowsProofs

\* What is in the stores: rows of files only, and indexes that are marked complete
\* have an entry for every row.
StoreInv ==
    /\ mail \in [Mids -> Contents] /\ files \in Seq(Seq(AnyRow))
    /\ over \subseteq Posted /\ entered \subseteq over
    /\ indexed => entered = over
    /\ \A r \in Posted : "email" \in r.has => "line" \in r.has

------------------------------------------------------------------------------
(* The walk. *)

\* The rows of some files: finitely many.
LEMMA FileRows ==
    ASSUME NEW fs \in Seq(Seq(AnyRow))
    PROVE  /\ FlattenSeq(fs) \in Seq(AnyRow) /\ ToSet(FlattenSeq(fs)) \subseteq AnyRow
           /\ \A r : r \in ToSet(FlattenSeq(fs)) <=> \E f \in ToSet(fs) : r \in ToSet(f)
           /\ IsFiniteSet(ToSet(FlattenSeq(fs)))
<1>1. /\ FlattenSeq(fs) \in Seq(AnyRow)
      /\ ToSet(FlattenSeq(fs)) = UNION {ToSet(fs[i]) : i \in DOMAIN fs}
  BY FlattenRows
<1>2. ToSet(FlattenSeq(fs)) \subseteq AnyRow
  BY <1>1, RowAt
<1>3. ASSUME NEW r
      PROVE  r \in ToSet(FlattenSeq(fs)) <=> \E f \in ToSet(fs) : r \in ToSet(f)
  <2>1. \A f : f \in ToSet(fs) <=> \E i \in DOMAIN fs : fs[i] = f
    BY DEF ToSet
  <2> QED BY <1>1, <2>1
<1>4. IsFiniteSet(ToSet(FlattenSeq(fs)))
  BY <1>1, RowsFinite
<1> QED BY <1>1, <1>2, <1>3, <1>4

\* Those of the store.
LEMMA PostedRows ==
    ASSUME StoreInv
    PROVE  /\ FlattenSeq(files) \in Seq(AnyRow) /\ Posted \subseteq AnyRow
           /\ \A rows : rows \subseteq Posted => IsFiniteSet(rows)
<1>1. /\ FlattenSeq(files) \in Seq(AnyRow) /\ Posted \subseteq AnyRow
      /\ IsFiniteSet(Posted)
  BY FileRows DEF StoreInv, Posted
<1>2. ASSUME NEW rows, rows \subseteq Posted PROVE IsFiniteSet(rows)
  BY <1>1, <1>2, FS_Subset
<1> QED BY <1>1, <1>2

\* The walk visits one row of each message that is in a file.
LEMMA WalkRows ==
    ASSUME StoreInv
    PROVE  /\ Walk \in Seq(AnyRow) /\ IsInjective(Walk) /\ Walked \subseteq Posted
           /\ \A r \in Posted : \E w \in Walked : w.mid = r.mid
<1> DEFINE all == FlattenSeq(files)
           k == Len(all)
           numbers == [i \in DOMAIN all |-> i]
           first == {i \in DOMAIN all : \A j \in 1 .. (i - 1) : all[j].mid # all[i].mid}
           places == Select(numbers, first)
<1>1. all \in Seq(AnyRow) /\ Posted = ToSet(all)
  BY PostedRows DEF Posted
<1>2. Walk = [n \in DOMAIN places |-> all[places[n]]] /\ Walked = ToSet(Walk)
  BY DEF Walk, Walked
<1> HIDE DEF all
<1>3. k \in Nat /\ DOMAIN all = 1 .. k /\ \A i \in 1 .. k : all[i] \in AnyRow
  BY <1>1
<1>4. /\ numbers \in Seq(1 .. k) /\ ToSet(numbers) = 1 .. k /\ IsInjective(numbers)
  <2>1. numbers \in Seq(1 .. k) /\ DOMAIN numbers = 1 .. k
    BY <1>3
  <2>2. \A i \in 1 .. k : numbers[i] = i
    BY <1>3
  <2> HIDE DEF numbers, k
  <2> QED BY <2>1, <2>2 DEF ToSet, IsInjective
<1>5. first \subseteq 1 .. k
      /\ \A i \in first, j \in first : all[i].mid = all[j].mid => i = j
  <2>1. ASSUME NEW i \in first, NEW j \in first, i < j PROVE all[i].mid # all[j].mid
    <3>1. i \in 1 .. k /\ j \in 1 .. k /\ i \in 1 .. (j - 1)
      BY <1>3, <2>1
    <3> QED BY <3>1
  <2>2. first \subseteq 1 .. k
    BY <1>3
  <2> HIDE DEF first
  <2>3. \A i \in first, j \in first : i \in Int /\ j \in Int
    BY <2>2
  <2> QED BY <2>1, <2>2, <2>3
<1> HIDE DEF numbers, k
<1>6. places \in Seq(1 .. k) /\ ToSet(places) = first /\ IsInjective(places)
  <2>1. places \in Seq(1 .. k) /\ ToSet(places) = ToSet(numbers) \cap first
    BY <1>4, SelectRows
  <2>2. IsInjective(places)
    BY <1>4, SelectDistinct
  <2> HIDE DEF first, places
  <2> QED BY <1>4, <1>5, <2>1, <2>2
<1> HIDE DEF places, first
<1>7. DOMAIN places = 1 .. Len(places) /\ Len(places) \in Nat
      /\ \A n \in DOMAIN places : places[n] \in first /\ places[n] \in 1 .. k
  <2>1. DOMAIN places = 1 .. Len(places) /\ Len(places) \in Nat
    BY <1>6
  <2>2. \A n \in DOMAIN places : places[n] \in ToSet(places)
    BY DEF ToSet
  <2> QED BY <2>1, <2>2, <1>5, <1>6
<1>8. Walk \in Seq(AnyRow) /\ DOMAIN Walk = DOMAIN places
      /\ \A n \in DOMAIN places : Walk[n] = all[places[n]]
  BY <1>2, <1>3, <1>7
<1>9. IsInjective(Walk)
  <2> SUFFICES ASSUME NEW m \in DOMAIN places, NEW n \in DOMAIN places,
                      Walk[m] = Walk[n]
               PROVE  m = n
    BY <1>8 DEF IsInjective
  <2>1. all[places[m]].mid = all[places[n]].mid
    BY <1>8
  <2>2. places[m] = places[n]
    BY <2>1, <1>5, <1>7
  <2> QED BY <2>2, <1>6 DEF IsInjective
<1>10. Walked \subseteq Posted
  <2> SUFFICES ASSUME NEW r \in Walked PROVE r \in Posted
    OBVIOUS
  <2>1. PICK n \in DOMAIN places : all[places[n]] = r
    BY <1>2, <1>8 DEF ToSet
  <2> QED BY <2>1, <1>1, <1>3, <1>7 DEF ToSet
<1>11. ASSUME NEW r \in Posted PROVE \E w \in Walked : w.mid = r.mid
  <2> DEFINE same == {i \in 1 .. k : all[i].mid = r.mid}
  <2>1. same # {} /\ same \in SUBSET Nat
    BY <1>1, <1>3, <1>11 DEF ToSet
  <2>2. PICK i \in same : \A j \in same : i <= j
    <3> HIDE DEF same
    <3> QED BY <2>1, NatMin
  <2>3. ASSUME NEW j \in 1 .. (i - 1) PROVE all[j].mid # all[i].mid
    <3>1. i \in 1 .. k /\ all[i].mid = r.mid
      BY <2>2
    <3>2. j \in 1 .. k /\ ~(i <= j)
      BY <3>1, <1>3, <2>3
    <3> QED BY <2>2, <3>1, <3>2
  <2>4. i \in 1 .. k /\ all[i].mid = r.mid
    BY <2>2
  <2>5. i \in first
    BY <1>3, <2>3, <2>4 DEF first
  <2>6. PICK n \in DOMAIN places : places[n] = i
    BY <2>5, <1>6 DEF ToSet
  <2>7. Walk[n] \in Walked /\ Walk[n].mid = r.mid
    BY <1>2, <1>8, <2>4, <2>6 DEF ToSet
  <2> QED BY <2>7
<1> QED BY <1>8, <1>9, <1>10, <1>11

\* The first n matches are all of them if they are fewer than n.
LEMMA FirstOfRows ==
    ASSUME StoreInv, NEW matches \in SUBSET Walked, NEW n \in Nat
    PROVE  /\ FirstOf(matches, n) \subseteq matches
           /\ Cardinality(FirstOf(matches, n)) < n => FirstOf(matches, n) = matches
           /\ n > 0 /\ FirstOf(matches, n) = {} => matches = {}
<1> DEFINE hits == Select(Walk, matches)
           some == FirstN(hits, n)
<1>1. /\ hits \in Seq(AnyRow) /\ ToSet(hits) = matches /\ IsInjective(hits)
  <2>1. hits \in Seq(AnyRow) /\ ToSet(hits) = ToSet(Walk) \cap matches
    BY WalkRows, SelectRows
  <2>2. IsInjective(hits)
    BY WalkRows, SelectDistinct
  <2> HIDE DEF hits
  <2> QED BY <2>1, <2>2 DEF Walked
<1> HIDE DEF hits
<1>2. /\ some \in Seq(AnyRow) /\ Len(some) = IF Len(hits) < n THEN Len(hits) ELSE n
      /\ Len(hits) <= n => some = hits
  BY <1>1, FirstNRows
<1>3. IsInjective(some) /\ ToSet(some) \subseteq matches
  BY <1>1, FirstNDistinct, FirstNKeeps
<1> HIDE DEF some
<1>4. Cardinality(ToSet(some)) = Len(some) /\ Len(hits) \in Nat
  BY <1>1, <1>2, <1>3, DistinctCount
<1>5. Len(some) < n => some = hits
  BY <1>2, <1>4
<1>6. FirstOf(matches, n) = ToSet(some)
  BY DEF FirstOf, hits, some
<1>7. ToSet(some) = {} => Len(some) = 0
  BY <1>4, FS_EmptySet
<1> QED BY <1>1, <1>3, <1>4, <1>5, <1>6, <1>7

------------------------------------------------------------------------------
(* over.db: the newest rows, and the freshest of some. *)

\* The least and the greatest of two numbers.
LEMMA MinMax ==
    ASSUME NEW a \in Nat, NEW b \in Nat
    PROVE  /\ Min({a, b}) = IF a <= b THEN a ELSE b
           /\ Max({a, b}) = IF a <= b THEN b ELSE a
<1>1. \E x \in {a, b} : \A y \in {a, b} : x <= y
  OBVIOUS
<1>2. Min({a, b}) \in {a, b} /\ Min({a, b}) <= a /\ Min({a, b}) <= b
  BY <1>1 DEF Min
<1>3. \E x \in {a, b} : \A y \in {a, b} : x >= y
  OBVIOUS
<1>4. Max({a, b}) \in {a, b} /\ Max({a, b}) >= a /\ Max({a, b}) >= b
  BY <1>3 DEF Max
<1> QED BY <1>2, <1>4

\* The newest n rows are all of them if there are no more than n.
LEMMA NewestRows ==
    ASSUME NEW rows, IsFiniteSet(rows), NEW n \in Nat, NEW top \in Newest(rows, n)
    PROVE  /\ top \subseteq rows
           /\ Cardinality(top) < n \/ Cardinality(rows) <= n => top = rows
           /\ \A r \in top, s \in rows \ top : r.date >= s.date
<1>1. /\ top \in kSubset(Min({n, Cardinality(rows)}), rows)
      /\ \A r \in top, s \in rows \ top : r.date >= s.date
  BY DEF Newest
<1>2. top \subseteq rows /\ Cardinality(top) = Min({n, Cardinality(rows)})
  BY <1>1 DEF kSubset
<1>3. Cardinality(rows) \in Nat
  BY FS_CardinalityType
<1>4. Cardinality(top) = IF n <= Cardinality(rows) THEN n ELSE Cardinality(rows)
  BY <1>2, <1>3, MinMax
<1>5. Cardinality(top) < n \/ Cardinality(rows) <= n
      => Cardinality(top) = Cardinality(rows)
  BY <1>3, <1>4
<1>6. Cardinality(rows) = Cardinality(top) => rows = top
  BY <1>2, FS_Subset
<1> QED BY <1>1, <1>2, <1>5, <1>6

\* Some row of a message is the freshest, if over.db has one.
LEMMA FreshestSome ==
    ASSUME StoreInv, NEW rows, rows \subseteq over, rows # {}
    PROVE  Freshest(rows) # {}
<1> DEFINE all == FlattenSeq(files)
           k == Len(all)
<1>1. all \in Seq(AnyRow) /\ Posted = ToSet(all) /\ rows \subseteq Posted
  BY PostedRows DEF Posted, StoreInv
<1>2. k \in Nat /\ \A i \in 1 .. k : all[i] \in AnyRow /\ all[i].date \in Nat
  <2> HIDE DEF all
  <2>1. k \in Nat /\ \A i \in 1 .. k : all[i] \in AnyRow
    BY <1>1
  <2>2. \A r \in AnyRow : r.date \in Nat
    BY DEF AnyRow
  <2> QED BY <2>1, <2>2
<1> DEFINE age == [i \in 1 .. k |-> - all[i].date]
           places == {i \in 1 .. k : all[i] \in rows}
<1>3. \A i \in 1 .. k : age[i] \in Int /\ age[i] = - all[i].date
  BY <1>2
<1>4. \A r \in rows : \E i \in places : all[i] = r
  <2> HIDE DEF all
  <2> QED BY <1>1, RowAt
<1>5. places \subseteq 1 .. k /\ places # {}
  BY <1>4
<1> HIDE DEF age, places
<1>6. PICK i \in places : \A j \in places : Earlier(age, i, j)
  <2> HIDE DEF k
  <2> QED BY <1>2, <1>3, <1>5, OldestFirst
<1>7. ASSUME NEW s \in rows PROVE all[i].date >= s.date
  <2>1. PICK j \in places : all[j] = s
    BY <1>4
  <2>2. age[i] <= age[j]
    BY <1>3, <1>5, <1>6, <2>1 DEF Earlier
  <2> QED BY <1>2, <1>3, <1>5, <1>6, <2>1, <2>2
<1>8. all[i] \in rows
  BY <1>6 DEF places
<1> QED BY <1>7, <1>8 DEF Freshest

\* What get returns is a row of the message, and nothing only if there is none.
LEMMA GetRows ==
    ASSUME StoreInv, NEW m
    PROVE  /\ Get(m) \subseteq {r \in over : r.mid = m} /\ Get(m) \subseteq Posted
           /\ Get(m) = {} => \A r \in over : r.mid # m
<1> DEFINE rows == {r \in over : r.mid = m}
<1>1. Get(m) = Freshest(rows)
  BY DEF Get
<1>2. rows # {} => Freshest(rows) # {}
  <2>1. rows \subseteq over
    OBVIOUS
  <2> HIDE DEF rows
  <2> QED BY <2>1, FreshestSome
<1>3. Freshest(rows) \subseteq rows
  BY DEF Freshest
<1> QED BY <1>1, <1>2, <1>3 DEF StoreInv

------------------------------------------------------------------------------
(* Queries, and the indexes of over.db that answer them. *)

\* A query that has its fields, and a limit that lets a row through.
Ordinary(q) ==
    /\ q = [list |-> q.list, since |-> q.since, until |-> q.until, limit |-> q.limit,
            mid |-> q.mid, live |-> q.live]
    /\ q.limit \in Nat \ {0}

\* The queries of the readers, and those the tiers of a search ask, are such.
LEMMA Asked ==
    /\ \A q \in Queries : Ordinary(q)
    /\ \A p, n : n \in Nat \ {0} => Ordinary(AsQuery(p, n))
<1>1. ASSUME NEW q \in Queries PROVE Ordinary(q)
  <2>1. PICK f \in Filterings, n \in Limits, m \in Mids, live \in BOOLEAN :
             q = [list |-> f.list, since |-> f.since, until |-> f.until, limit |-> n,
                  mid |-> m, live |-> live]
    BY DEF Queries
  <2> QED BY <2>1, LimitAssumption DEF Ordinary
<1>2. ASSUME NEW p, NEW n, n \in Nat \ {0} PROVE Ordinary(AsQuery(p, n))
  BY <1>2 DEF Ordinary, AsQuery
<1> QED BY <1>1, <1>2

\* The over-fetch asks the same for at least as many rows.
LEMMA Wider ==
    ASSUME NEW q, Ordinary(q)
    PROVE  /\ Ordinary(Widened(q)) /\ Widened(q).limit >= q.limit
           /\ Widened(q).list = q.list
           /\ \A r : Filters(Widened(q), r) <=> Filters(q, r)
<1> DEFINE n == Max({Factor * q.limit, MinFetch})
<1>1. q.limit \in Nat /\ q.limit > 0 /\ Factor \in Nat /\ Factor > 0 /\ MinFetch \in Nat
  BY FetchAssumption DEF Ordinary
<1>2. Factor * q.limit \in Nat /\ Factor * q.limit >= q.limit
  BY <1>1
<1>3. n \in Nat /\ n >= q.limit
  <2>1. n = IF Factor * q.limit <= MinFetch THEN MinFetch ELSE Factor * q.limit
    BY <1>1, <1>2, MinMax
  <2> QED BY <2>1, <1>1, <1>2
<1>4. Widened(q) = [q EXCEPT !.limit = n]
  BY DEF Widened, WithLimit
<1> HIDE DEF n
<1>5. Widened(q) = [list |-> q.list, since |-> q.since, until |-> q.until, limit |-> n,
                    mid |-> q.mid, live |-> q.live]
  BY <1>4 DEF Ordinary
<1>6. Ordinary(Widened(q)) /\ Widened(q).limit >= q.limit
  BY <1>1, <1>3, <1>5 DEF Ordinary
<1>7. Widened(q).list = q.list /\ Widened(q).since = q.since /\ Widened(q).until = q.until
  BY <1>5
<1>8. ASSUME NEW r PROVE Filters(Widened(q), r) <=> Filters(q, r)
  BY <1>7 DEF Filters, InLists, Since, Until
<1> QED BY <1>6, <1>7, <1>8

\* The rows that an index of over.db has for a query.
IndexOf(q, fact) ==
    IF fact = "list" THEN {r \in over : Filters(q, r)}
    ELSE IF fact \in {"email", "file"} \/ (fact = "func" /\ indexed) THEN DatedEntries(q, fact)
    ELSE ByColumn(q, fact)
Fact(r, fact) == fact = "list" \/ Has(r, fact)

\* A row of an older release, that an index without a marker does not have.
Stale(r, facts) == r \notin entered /\ facts \cap Unguarded # {}

\* They have the fact and pass the filters, and none is missing but, in the side
\* tables, an undated one, and one of an older release if no marker is asked for.
LEMMA IndexRows ==
    ASSUME StoreInv, NEW q, NEW fact
    PROVE  /\ IndexOf(q, fact) \subseteq over /\ IndexOf(q, fact) \subseteq Posted
           /\ IsFiniteSet(IndexOf(q, fact))
           /\ \A r \in IndexOf(q, fact) : Filters(q, r) /\ Fact(r, fact)
           /\ \A r \in over : Filters(q, r) /\ Fact(r, fact) =>
                \/ r \in IndexOf(q, fact) \/ Stale(r, {fact})
                \/ r.date = Undated /\ fact \in {"email", "file", "func"}
<1>1. IndexOf(q, fact) \subseteq over
  BY DEF IndexOf, DatedEntries, ByColumn
<1>2. IndexOf(q, fact) \subseteq Posted
  BY <1>1 DEF StoreInv
<1>3. IsFiniteSet(IndexOf(q, fact))
  BY <1>2, PostedRows
<1>4. \A r \in IndexOf(q, fact) : Filters(q, r) /\ Fact(r, fact)
  BY DEF IndexOf, DatedEntries, ByColumn, Fact
<1>5. ASSUME NEW r \in over, Filters(q, r), Fact(r, fact), r \notin IndexOf(q, fact),
             ~Stale(r, {fact})
      PROVE  r.date = Undated /\ fact \in {"email", "file", "func"}
  <2>1. indexed => r \in entered
    BY DEF StoreInv
  <2>2. fact \in {"subject", "email", "file"} => r \in entered
    BY <1>5 DEF Stale, Unguarded
  <2>3. fact = "list" \/ r \in ByColumn(q, fact)
    BY <1>5, <2>2 DEF Fact, ByColumn
  <2> QED BY <1>5, <2>1, <2>2, <2>3 DEF IndexOf, DatedEntries
<1> QED BY <1>1, <1>2, <1>3, <1>4, <1>5

\* What scan_eq returns: the newest rows of the index.
LEMMA ScanRows ==
    ASSUME StoreInv, NEW q, Ordinary(q), NEW fact, fact # "mid",
           NEW rows \in ScanEq(q, fact)
    PROVE  /\ rows \subseteq IndexOf(q, fact)
           /\ Cardinality(rows) < q.limit \/ Cardinality(IndexOf(q, fact)) <= q.limit
              => rows = IndexOf(q, fact)
           /\ \A r \in rows, s \in IndexOf(q, fact) \ rows : r.date >= s.date
<1>1. rows \in Newest(IndexOf(q, fact), q.limit)
  <2>1. CASE fact = "list"
    BY <2>1 DEF ScanEq, IndexOf
  <2>2. CASE fact = "email"
    BY <2>2 DEF ScanEq, IndexOf, ByTrailerEmail
  <2>3. CASE fact = "file"
    BY <2>3 DEF ScanEq, IndexOf, ByTouchedFile
  <2>4. CASE fact = "func" /\ indexed
    BY <2>4 DEF ScanEq, IndexOf, ByTouchedFunction, NotMarked
  <2>5. CASE fact = "func" /\ ~indexed
    BY <2>5 DEF ScanEq, IndexOf, Sequential, NotMarked
  <2>6. CASE fact \notin {"list", "email", "file", "func"}
    BY <2>6 DEF ScanEq, IndexOf, Sequential
  <2> QED BY <2>1, <2>2, <2>3, <2>4, <2>5, <2>6
<1>2. q.limit \in Nat
  BY DEF Ordinary
<1>3. IsFiniteSet(IndexOf(q, fact))
  BY IndexRows
<1> QED BY <1>1, <1>2, <1>3, NewestRows

\* The matches of a walk are what it visits of the rows that match.
LEMMA WalkMatched ==
    ASSUME StoreInv, NEW matches \in SUBSET Walked, NEW n \in Nat \ {0}
    PROVE  /\ FirstOf(matches, n) \subseteq matches /\ FirstOf(matches, n) \subseteq Posted
           /\ Cardinality(FirstOf(matches, n)) < n => FirstOf(matches, n) = matches
           /\ FirstOf(matches, n) = {} => matches = {}
           /\ IsFiniteSet(FirstOf(matches, n))
<1>1. n \in Nat /\ n > 0
  OBVIOUS
<1>2. FirstOf(matches, n) \subseteq matches
      /\ (Cardinality(FirstOf(matches, n)) < n => FirstOf(matches, n) = matches)
      /\ (FirstOf(matches, n) = {} => matches = {})
  BY <1>1, FirstOfRows
<1>3. FirstOf(matches, n) \subseteq Posted
  BY <1>2, WalkRows
<1> QED BY <1>2, <1>3, PostedRows

------------------------------------------------------------------------------
(* The rows of an answer. *)

\* A match that an answer the limit did not cut may leave out: a cross-post hides it
\* from the walk, or over.db does not have it, or has it in no index by date, or has
\* it from an older release.
Excusable(r, fact) ==
    \/ HiddenByCrossPost(r)
    \/ /\ useOver
       /\ r \notin over \/ (r.date = Undated /\ fact # "author") \/ Stale(r, {fact})

\* A query by one column.
LEMMA EqRows ==
    ASSUME StoreInv, NEW q, Ordinary(q), NEW fact, NEW rows \in EqAnswers(useOver, q, fact)
    PROVE  /\ rows \subseteq Posted
           /\ \A r \in rows : Filters(q, r)
           /\ useOver /\ fact \in {"author", "subject", "tid", "email", "file"} =>
                \A r \in rows, s \in over \ rows :
                  Filters(q, s) /\ Has(s, fact) /\ ~Stale(s, {fact}) => r.date >= s.date
           /\ Cardinality(rows) < q.limit /\ fact \notin {"mid", "list", "tid"} =>
                \A r \in Posted : Filters(q, r) /\ Has(r, fact) =>
                  r \in rows \/ Excusable(r, fact)
<1> DEFINE byIndex == useOver /\ (fact \in IndexedFields \/ (fact = "list" /\ q.list # Absent))
           matches == {r \in Walked : Filters(q, r) /\ WalkMatches(q, r, fact)}
<1>1. CASE ~byIndex
  <2>1. rows = FirstOf(matches, q.limit)
    BY <1>1 DEF EqAnswers
  <2>2. q.limit \in Nat \ {0} /\ matches \in SUBSET Walked
    BY DEF Ordinary
  <2>3. ASSUME fact \notin {"mid", "list", "tid"}, NEW r \in Posted, Filters(q, r), Has(r, fact)
        PROVE  r \in matches \/ Excusable(r, fact)
    <3>1. WalkMatches(q, r, fact)
      BY <2>3 DEF WalkMatches, Has, StoreInv
    <3>2. r \in Walked \/ HiddenByCrossPost(r)
      BY DEF HiddenByCrossPost
    <3> QED BY <2>3, <3>1, <3>2 DEF Excusable
  <2>4. \A r \in matches : Filters(q, r)
    OBVIOUS
  <2>5. ~(useOver /\ fact \in {"author", "subject", "tid", "email", "file"})
    BY <1>1 DEF IndexedFields
  <2> HIDE DEF matches, byIndex
  <2>6. /\ rows \subseteq matches /\ rows \subseteq Posted
        /\ Cardinality(rows) < q.limit => rows = matches
    BY <2>1, <2>2, WalkMatched
  <2> QED BY <2>3, <2>4, <2>5, <2>6
<1>2. CASE byIndex /\ fact = "mid"
  <2>1. rows \subseteq ByMessageId(q)
    BY <1>2 DEF EqAnswers, ScanEq
  <2>2. ByMessageId(q) \subseteq Posted /\ \A r \in ByMessageId(q) : Filters(q, r)
    BY GetRows DEF ByMessageId
  <2> QED BY <1>2, <2>1, <2>2
<1>3. CASE byIndex /\ fact # "mid"
  <2>1. rows \in ScanEq(q, fact) /\ useOver /\ fact \in IndexedFields \cup {"list"}
    BY <1>3 DEF EqAnswers
  <2> HIDE DEF byIndex
  <2> DEFINE index == IndexOf(q, fact)
  <2>2. /\ index \subseteq Posted
        /\ \A r \in index : Filters(q, r) /\ Fact(r, fact)
        /\ \A r \in over : Filters(q, r) /\ Fact(r, fact) =>
             \/ r \in index \/ Stale(r, {fact})
             \/ r.date = Undated /\ fact \in {"email", "file", "func"}
    BY IndexRows
  <2>3. /\ rows \subseteq index /\ (Cardinality(rows) < q.limit => rows = index)
        /\ \A r \in rows, s \in index \ rows : r.date >= s.date
    BY <1>3, <2>1, ScanRows
  <2> HIDE DEF index
  <2>4. ASSUME NEW r \in rows, NEW s \in over \ rows, Filters(q, s), Has(s, fact),
               ~Stale(s, {fact})
        PROVE  r.date >= s.date
    <3>1. s \in index \/ s.date = Undated
      BY <2>2, <2>4 DEF Fact
    <3>2. r.date \in Nat
      <4>1. r \in AnyRow
        BY <2>2, <2>3, PostedRows
      <4> QED BY <4>1 DEF AnyRow
    <3>3. s.date = Undated => r.date >= s.date
      BY <3>2 DEF Undated
    <3> QED BY <2>3, <3>1, <3>3
  <2>5. ASSUME Cardinality(rows) < q.limit, NEW r \in Posted, Filters(q, r), Has(r, fact)
        PROVE  r \in rows \/ Excusable(r, fact)
    BY <2>1, <2>2, <2>3, <2>5 DEF Fact, Excusable
  <2> QED BY <2>2, <2>3, <2>4, <2>5
<1> HIDE DEF byIndex
<1> QED BY <1>1, <1>2, <1>3

\* The seeded rows that satisfy the other condition too, and an index that the limit
\* of the seed, or the condition, cuts nothing from.
HavingAll(seed, wanted) == {r \in seed : wanted \subseteq r.has}
Ample(w, fact, wanted) ==
    \/ \A r \in IndexOf(w, fact) : wanted \subseteq r.has
    \/ Cardinality(IndexOf(w, fact)) <= w.limit

\* What is wanted of the rows that are left.
Wanted(q, wanted, rows) ==
    rows \subseteq Posted /\ \A r \in rows : Filters(q, r) /\ wanted \subseteq r.has
WantedFirst(q, fact, wanted, rows) ==
    \A r \in rows, s \in over \ rows :
      Matches(q, s, wanted) /\ ~Stale(s, {fact}) => r.date >= s.date
WantedAll(q, w, fact, wanted, rows) ==
    Cardinality(rows) < q.limit /\ Ample(w, fact, wanted) =>
      \A r \in over : Matches(q, r, wanted) =>
        r \in rows \/ r.date = Undated \/ Stale(r, {fact})

\* The rows that an index seeds and a later condition and the limit leave.
LEMMA SeedRows ==
    ASSUME StoreInv, NEW q, Ordinary(q), NEW w, Ordinary(w), w.limit >= q.limit,
           \A r : Filters(w, r) <=> Filters(q, r),
           NEW fact \in {"file", "func", "list"}, NEW wanted, fact = "list" \/ fact \in wanted,
           NEW seed \in ScanEq(w, fact),
           NEW rows \in Newest(HavingAll(seed, wanted), q.limit)
    PROVE  /\ Wanted(q, wanted, rows) /\ WantedFirst(q, fact, wanted, rows)
           /\ WantedAll(q, w, fact, wanted, rows)
<1> DEFINE index == IndexOf(w, fact)
           kept == {r \in seed : wanted \subseteq r.has}
<1>1. /\ index \subseteq Posted /\ IsFiniteSet(index)
      /\ \A r \in index : Filters(w, r)
      /\ \A r \in over : Filters(w, r) /\ Fact(r, fact) =>
           r \in index \/ r.date = Undated \/ Stale(r, {fact})
  BY IndexRows
<1>2. /\ seed \subseteq index
      /\ Cardinality(seed) < w.limit \/ Cardinality(index) <= w.limit => seed = index
      /\ \A r \in seed, s \in index \ seed : r.date >= s.date
  BY ScanRows
<1>3. q.limit \in Nat /\ w.limit \in Nat
  BY DEF Ordinary
<1> HIDE DEF index
<1>4. kept \subseteq seed /\ IsFiniteSet(kept) /\ IsFiniteSet(seed)
  BY <1>1, <1>2, FS_Subset
<1>5. rows \in Newest(kept, q.limit)
  BY DEF HavingAll
<1>6. \A r \in kept : wanted \subseteq r.has
  OBVIOUS
<1>7. \A r \in seed : wanted \subseteq r.has => r \in kept
  OBVIOUS
<1> HIDE DEF kept
<1>8. /\ rows \subseteq kept /\ (Cardinality(rows) < q.limit => rows = kept)
      /\ \A r \in rows, s \in kept \ rows : r.date >= s.date
  BY <1>3, <1>4, <1>5, NewestRows
<1>9. \A s \in over : Matches(q, s, wanted) =>
        s \in index \/ s.date = Undated \/ Stale(s, {fact})
  <2>1. \A s : Matches(q, s, wanted) => Fact(s, fact) /\ Filters(w, s)
    BY DEF Matches, Fact, Has
  <2> QED BY <1>1, <2>1
<1>10. ASSUME NEW r \in rows, NEW s \in over \ rows, Matches(q, s, wanted),
              ~Stale(s, {fact})
       PROVE  r.date >= s.date
  <2>1. r \in kept /\ r \in seed /\ r \in Posted
    BY <1>1, <1>2, <1>4, <1>8
  <2>2. CASE s \in seed
    <3>1. s \in kept
      BY <1>7, <1>10, <2>2 DEF Matches
    <3> QED BY <1>8, <3>1
  <2>3. CASE s \in index \ seed
    BY <1>2, <2>1, <2>3
  <2>4. CASE s.date = Undated
    <3>1. r \in AnyRow
      BY <2>1, PostedRows
    <3> QED BY <2>4, <3>1 DEF AnyRow, Undated
  <2> QED BY <1>9, <1>10, <2>2, <2>3, <2>4
<1>11. ASSUME Cardinality(rows) < q.limit,
              (\A r \in index : wanted \subseteq r.has) \/ Cardinality(index) <= w.limit,
              NEW s \in over, Matches(q, s, wanted), s.date # Undated, ~Stale(s, {fact})
       PROVE  s \in rows
  <2>1. rows = kept /\ s \in index
    BY <1>8, <1>9, <1>11
  <2>2. seed = index
    <3>1. CASE \A r \in index : wanted \subseteq r.has
      <4>1. kept = seed
        BY <1>2, <1>4, <1>7, <3>1
      <4>2. Cardinality(seed) < q.limit /\ Cardinality(seed) \in Nat
        BY <1>4, <1>11, <2>1, <4>1, FS_CardinalityType
      <4> QED BY <1>2, <1>3, <4>2
    <3>2. CASE Cardinality(index) <= w.limit
      BY <1>2, <3>2
    <3> QED BY <1>11, <3>1, <3>2
  <2> QED BY <1>7, <1>11, <2>1, <2>2 DEF Matches
<1>12. rows \subseteq Posted /\ \A r \in rows : Filters(q, r) /\ wanted \subseteq r.has
  BY <1>1, <1>2, <1>4, <1>6, <1>8
<1> QED BY <1>10, <1>11, <1>12 DEF index, Ample, Wanted, WantedFirst, WantedAll

------------------------------------------------------------------------------
(* What the properties say of an answer, for a query and its rows. *)

Honest(op, q, rows) ==
    op \in {"eq", "walk", "count", "rows", "activity", "lookup", "regex", "profile"} =>
      \A r \in rows :
        /\ InLists(q, r)
        /\ \/ Since(q, r) /\ Until(q, r)
           \/ r.date = Undated /\ op \in {"rows", "lookup", "profile"}
FromIndex(op, q, facts) ==
    \/ op = "eq" /\ facts \subseteq IndexedFields \ {"mid"}
    \/ op \in {"activity", "rows"} /\ (facts # {} \/ q.list # Absent)
Topmost(op, q, facts, rows) ==
    useOver /\ FromIndex(op, q, facts) =>
      \A r \in rows, s \in over \ rows :
        Matches(q, s, facts) /\ ~Stale(s, facts) => r.date >= s.date
Unseen(op, facts, r) ==
    \/ HiddenByCrossPost(r)
    \/ /\ useOver /\ op \notin {"walk", "count"}
       /\ r \notin over \/ r.date = Undated \/ Stale(r, facts)
Complete(op, q, facts, rows) ==
    /\ op \in {"eq", "walk", "count", "activity", "lookup"}
    /\ facts \cap {"mid", "list", "tid"} = {}
    /\ Cardinality(rows) < q.limit
    => \A r \in Posted : Matches(q, r, facts) =>
         r \in rows \/ Unseen(op, facts, r) \/ (op = "activity" /\ Crowded(q, facts))
Found(op, q, rows) ==
    op = "fetch" /\ rows = {} =>
      \A r \in Posted : r.mid = q.mid => useOver /\ q.live /\ r \notin over
Owned(op, q, facts, rows, told) ==
    /\ op = "profile" /\ told = {} =>
         \A r \in Posted : Filters(q, r) /\ r.has \cap {"author", "line"} # {} =>
           r.mid \in MidsOf(rows) \/ r \notin over \/ HiddenByCrossPost(r)
    /\ op = "maintainers" /\ told # {} /\ Cardinality(rows) < q.limit =>
         \A r \in Posted : Matches(q, r, facts) => Unseen(op, facts, r)

Fits(op, q, facts, rows, told) ==
    /\ rows \subseteq Posted
    /\ Honest(op, q, rows)
    /\ Topmost(op, q, facts, rows)
    /\ Complete(op, q, facts, rows) /\ Found(op, q, rows)
    /\ Owned(op, q, facts, rows, told)
Answered == asked = NotAsked \/ Fits(asked.op, asked.q, asked.facts, answer.rows, answer.told)

\* The properties say just that of the last answer.
LEMMA AnsweredMeans ==
    ASSUME Answered
    PROVE  FiltersHonoured /\ NewestKept /\ NothingElseMissed /\ ProfileLimitTold
<1>1. CASE asked = NotAsked
  BY <1>1 DEF NotAsked, FiltersHonoured, NewestKept, ByIndex, NothingElseMissed,
              ProfileLimitTold
<1>2. CASE Fits(asked.op, asked.q, asked.facts, answer.rows, answer.told)
  <2>1. FiltersHonoured
    BY <1>2 DEF Fits, Honest, FiltersHonoured
  <2>2. NewestKept
    BY <1>2 DEF Fits, Topmost, FromIndex, NewestKept, ByIndex, Unentered, Stale
  <2>3. NothingElseMissed
    BY <1>2 DEF Fits, Complete, Found, Unseen, NothingElseMissed, Excused, Unentered, Stale
  <2>4. ProfileLimitTold
    BY <1>2 DEF Fits, Owned, Unseen, ProfileLimitTold, Excused, Unentered, Stale
  <2> QED BY <2>1, <2>2, <2>3, <2>4
<1> QED BY <1>1, <1>2 DEF Answered

\* While the stores stand still, so does what there is to say of an answer.
LEMMA Frozen ==
    ASSUME UNCHANGED store, NEW op, NEW q, NEW facts, NEW rows, NEW told
    PROVE  Fits(op, q, facts, rows, told)' <=> Fits(op, q, facts, rows, told)
<1>1. files' = files /\ over' = over /\ entered' = entered /\ useOver' = useOver
  BY DEF store
<1>2. Posted' = Posted /\ Walk' = Walk /\ Walked' = Walked
  BY <1>1 DEF Posted, Walk, Walked
<1>3. \A r : HiddenByCrossPost(r)' <=> HiddenByCrossPost(r)
  BY <1>2 DEF HiddenByCrossPost
<1>4. \A r : /\ Stale(r, facts)' <=> Stale(r, facts)
             /\ Unseen(op, facts, r)' <=> Unseen(op, facts, r)
  BY <1>1, <1>3 DEF Unseen, Stale
<1>5. Crowded(q, facts)' <=> Crowded(q, facts)
  BY <1>1 DEF Crowded
<1>6. Topmost(op, q, facts, rows)' <=> Topmost(op, q, facts, rows)
  BY <1>1, <1>4 DEF Topmost
<1>7. Complete(op, q, facts, rows)' <=> Complete(op, q, facts, rows)
  BY <1>2, <1>4, <1>5 DEF Complete
<1>8. Found(op, q, rows)' <=> Found(op, q, rows)
  BY <1>1, <1>2 DEF Found
<1>9. Owned(op, q, facts, rows, told)' <=> Owned(op, q, facts, rows, told)
  BY <1>1, <1>2, <1>3, <1>4 DEF Owned
<1> QED BY <1>2, <1>6, <1>7, <1>8, <1>9 DEF Fits

\* A reply with rows of which the properties hold.
LEMMA Replies ==
    ASSUME NEW op, NEW q, NEW facts, NEW rowsets, NEW told,
           Reply(op, q, facts, rowsets, told),
           \A rows \in rowsets : Fits(op, q, facts, rows, told)
    PROVE  Answered' /\ answer'.rows \subseteq Posted' /\ UNCHANGED store
<1>1. PICK rows \in rowsets : answer' = [rows |-> rows, told |-> told]
  BY DEF Reply
<1>2. asked' = [op |-> op, q |-> q, facts |-> facts] /\ UNCHANGED store
  BY DEF Reply
<1>3. Fits(op, q, facts, rows, told)'
  BY <1>1, <1>2, Frozen
<1>4. asked'.op = op /\ asked'.q = q /\ asked'.facts = facts
      /\ answer'.rows = rows /\ answer'.told = told
  BY <1>1, <1>2
<1>5. Fits(asked.op, asked.q, asked.facts, answer.rows, answer.told)'
  BY <1>3, <1>4 DEF Fits, Honest, Topmost, FromIndex, Complete, Found, Owned, Unseen, Stale
<1>6. answer'.rows \subseteq Posted'
  BY <1>5 DEF Fits
<1> QED BY <1>2, <1>5, <1>6 DEF Answered

------------------------------------------------------------------------------
(* The answers of each query. *)

\* A query by one column, as the one it is and as a part of others.
LEMMA EqFits ==
    ASSUME StoreInv, NEW q, Ordinary(q), NEW fact, NEW rows \in EqAnswers(useOver, q, fact)
    PROVE  Fits("eq", q, {fact}, rows, {})
<1>1. rows \subseteq Posted
  BY EqRows
<1>2. Honest("eq", q, rows)
  BY EqRows DEF Honest, Filters
<1>3. Topmost("eq", q, {fact}, rows)
  BY EqRows DEF Topmost, FromIndex, IndexedFields, Matches, Has
<1>4. Complete("eq", q, {fact}, rows)
  BY EqRows DEF Complete, Matches, Has, Excusable, Unseen
<1> QED BY <1>1, <1>2, <1>3, <1>4 DEF Fits, Found, Owned

\* A walk that stops at the limit.
LEMMA WalkFits ==
    ASSUME StoreInv, NEW q, Ordinary(q), NEW facts, NEW matches \in SUBSET Walked,
           \A r \in matches : Filters(q, r),
           \A r \in Walked : Matches(q, r, facts) => r \in matches
    PROVE  Fits("walk", q, facts, FirstOf(matches, q.limit), {})
<1> DEFINE rows == FirstOf(matches, q.limit)
<1>1. q.limit \in Nat \ {0}
  BY DEF Ordinary
<1>2. /\ rows \subseteq matches /\ rows \subseteq Posted
      /\ Cardinality(rows) < q.limit => rows = matches
  BY <1>1, WalkMatched
<1> HIDE DEF rows
<1>3. Honest("walk", q, rows)
  BY <1>2 DEF Honest, Filters
<1>4. Complete("walk", q, facts, rows)
  BY <1>2 DEF Complete, Unseen, HiddenByCrossPost
<1>5. Fits("walk", q, facts, rows, {})
  BY <1>2, <1>3, <1>4 DEF Fits, Found, Owned, Topmost, FromIndex
<1> QED BY <1>5 DEF rows

\* in_list, and the substrings of a subject or of a trailer.
LEMMA WalksFit ==
    ASSUME StoreInv, NEW q, Ordinary(q)
    PROVE  /\ \A rows \in InListAnswers(q, {"author", "email"}) :
                Fits("walk", q, {"author", "email"}, rows, {})
           /\ \A rows \in SubjectAnswers(q) : Fits("walk", q, {"text"}, rows, {})
           /\ \A rows \in TrailerAnswers(q) : Fits("walk", q, {"line"}, rows, {})
<1>1. ASSUME NEW rows \in InListAnswers(q, {"author", "email"})
      PROVE  Fits("walk", q, {"author", "email"}, rows, {})
  <2> DEFINE matches == {r \in Walked : Filters(q, r)
                            /\ \E f \in {"author", "email"} : WalkMatches(q, r, f)}
  <2>1. rows = FirstOf(matches, q.limit)
    BY DEF InListAnswers
  <2>2. \A r \in Walked : Matches(q, r, {"author", "email"}) => r \in matches
    BY DEF Matches, WalkMatches, Has
  <2>3. matches \in SUBSET Walked /\ \A r \in matches : Filters(q, r)
    OBVIOUS
  <2> HIDE DEF matches
  <2> QED BY <2>1, <2>2, <2>3, WalkFits
<1>2. ASSUME NEW rows \in SubjectAnswers(q) PROVE Fits("walk", q, {"text"}, rows, {})
  <2> DEFINE matches == {r \in Walked : Filters(q, r) /\ Has(r, "text")}
  <2>1. rows = FirstOf(matches, q.limit)
    BY DEF SubjectAnswers
  <2>2. \A r \in Walked : Matches(q, r, {"text"}) => r \in matches
    BY DEF Matches, Has
  <2>3. matches \in SUBSET Walked /\ \A r \in matches : Filters(q, r)
    OBVIOUS
  <2> HIDE DEF matches
  <2> QED BY <2>1, <2>2, <2>3, WalkFits
<1>3. ASSUME NEW rows \in TrailerAnswers(q) PROVE Fits("walk", q, {"line"}, rows, {})
  <2> DEFINE matches == {r \in Walked : Filters(q, r) /\ Has(r, "line")}
  <2>1. rows = FirstOf(matches, q.limit)
    BY DEF TrailerAnswers
  <2>2. \A r \in Walked : Matches(q, r, {"line"}) => r \in matches
    BY DEF Matches, Has
  <2>3. matches \in SUBSET Walked /\ \A r \in matches : Filters(q, r)
    OBVIOUS
  <2> HIDE DEF matches
  <2> QED BY <2>1, <2>2, <2>3, WalkFits
<1> QED BY <1>1, <1>2, <1>3

\* count and corpus_stats have no limit.
LEMMA CountFits ==
    ASSUME StoreInv, NEW q
    PROVE  /\ Fits("count", q, {"author"}, Counted(q, "author"), {})
           /\ Fits("stats", q, {}, Corpus(useOver), {})
<1>1. Counted(q, "author") \subseteq Walked /\ Walked \subseteq Posted
      /\ over \subseteq Posted
  BY WalkRows DEF Counted, StoreInv
<1>2. Honest("count", q, Counted(q, "author"))
  BY DEF Counted, Honest, Filters
<1>3. Complete("count", q, {"author"}, Counted(q, "author"))
  BY DEF Counted, Complete, Unseen, HiddenByCrossPost, Matches, WalkMatches, Has
<1>4. Fits("count", q, {"author"}, Counted(q, "author"), {})
  BY <1>1, <1>2, <1>3 DEF Fits, Found, Owned, Topmost, FromIndex
<1>5. Corpus(useOver) \subseteq Posted
  BY <1>1 DEF Corpus
<1>6. Fits("stats", q, {}, Corpus(useOver), {})
  BY <1>5 DEF Fits, Honest, Complete, Found, Owned, Topmost, FromIndex
<1> QED BY <1>4, <1>6

\* all_rows: an index by list, or a walk that lets undated rows through.
LEMMA ListFits ==
    ASSUME StoreInv, NEW q, Ordinary(q), NEW rows \in ListAnswers(useOver, q)
    PROVE  Fits("rows", q, {}, rows, {})
<1>1. CASE useOver /\ q.list # Absent
  <2>1. rows \in ScanEq(q, "list")
    BY <1>1 DEF ListAnswers
  <2> DEFINE index == IndexOf(q, "list")
  <2>2. /\ rows \subseteq index /\ \A r \in rows, s \in index \ rows : r.date >= s.date
    BY <2>1, ScanRows
  <2>3. index \subseteq Posted /\ index = {r \in over : Filters(q, r)}
    BY IndexRows DEF IndexOf
  <2> HIDE DEF index
  <2>4. Honest("rows", q, rows)
    BY <2>2, <2>3 DEF Honest, Filters
  <2>5. Topmost("rows", q, {}, rows)
    BY <2>2, <2>3 DEF Topmost, Matches
  <2> QED BY <2>2, <2>3, <2>4, <2>5 DEF Fits, Complete, Found, Owned
<1>2. CASE ~(useOver /\ q.list # Absent)
  <2> DEFINE matches == {r \in Walked : LooseFilters(q, r)}
  <2>1. rows = FirstOf(matches, q.limit)
    BY <1>2 DEF ListAnswers
  <2>2. matches \in SUBSET Walked /\ \A r \in matches : LooseFilters(q, r)
    OBVIOUS
  <2> HIDE DEF matches
  <2>3. rows \subseteq matches /\ rows \subseteq Posted
    BY <2>1, <2>2, WalkMatched DEF Ordinary
  <2>4. Honest("rows", q, rows)
    BY <2>2, <2>3 DEF Honest, LooseFilters, Filters
  <2>5. Topmost("rows", q, {}, rows)
    BY <1>2 DEF Topmost, FromIndex
  <2> QED BY <2>3, <2>4, <2>5 DEF Fits, Complete, Found, Owned
<1> QED BY <1>1, <1>2

\* A refusal has no rows and says why.
LEMMA RefusalFits ==
    ASSUME NEW q, NEW op \in {"patch", "prose"}, NEW facts, NEW told
    PROVE  \A rows \in {{}} : Fits(op, q, facts, rows, told)
  BY DEF Fits, Honest, Topmost, FromIndex, Complete, Found, Owned

\* The rows of a query about nothing but the rows: those of files.
LEMMA LooseFits ==
    ASSUME NEW q, NEW op \in {"patch", "prose", "series", "cite"}, NEW facts, NEW told,
           NEW rows, rows \subseteq Posted
    PROVE  Fits(op, q, facts, rows, told)
  BY DEF Fits, Honest, Topmost, FromIndex, Complete, Found, Owned

\* activity: a seed from an index, over-fetched when a condition is left, or a walk.
LEMMA ActivityFits ==
    ASSUME StoreInv, NEW q, Ordinary(q), NEW wanted \in SUBSET {"file", "func"},
           NEW rows \in ActivityAnswers(useOver, q, wanted)
    PROVE  Fits("activity", q, wanted, rows, {})
<1> DEFINE Both(r) == wanted \subseteq r.has
           byIndex == useOver /\ (wanted # {} \/ q.list # Absent)
           matches == {r \in Walked : Filters(q, r) /\ Both(r)}
<1>1. CASE ~byIndex
  <2>1. rows = FirstOf(matches, q.limit)
    BY <1>1 DEF ActivityAnswers
  <2>2. /\ \A r \in matches : Filters(q, r)
        /\ \A r \in Walked : Matches(q, r, wanted) => r \in matches
        /\ matches \in SUBSET Walked
    BY DEF Matches
  <2>3. ~(useOver /\ FromIndex("activity", q, wanted))
    BY <1>1 DEF FromIndex
  <2> HIDE DEF matches, byIndex
  <2>4. /\ rows \subseteq matches /\ rows \subseteq Posted
        /\ Cardinality(rows) < q.limit => rows = matches
    BY <2>1, <2>2, WalkMatched DEF Ordinary
  <2>5. Honest("activity", q, rows)
    BY <2>2, <2>4 DEF Honest, Filters
  <2>6. Topmost("activity", q, wanted, rows)
    BY <2>3 DEF Topmost
  <2>7. Complete("activity", q, wanted, rows)
    BY <2>2, <2>4 DEF Complete, Unseen, HiddenByCrossPost
  <2> QED BY <2>4, <2>5, <2>6, <2>7 DEF Fits, Found, Owned
<1>2. ASSUME byIndex, NEW w, Ordinary(w), w.limit >= q.limit,
             \A r : Filters(w, r) <=> Filters(q, r),
             NEW fact \in {"file", "func", "list"}, fact = "list" \/ fact \in wanted,
             NEW seed \in ScanEq(w, fact),
             rows \in Newest(HavingAll(seed, wanted), q.limit),
             Ample(w, fact, wanted) \/ Crowded(q, wanted)
      PROVE  Fits("activity", q, wanted, rows, {})
  <2>1. /\ Wanted(q, wanted, rows) /\ WantedFirst(q, fact, wanted, rows)
        /\ WantedAll(q, w, fact, wanted, rows)
    <3> HIDE DEF byIndex, matches, Both
    <3>1. rows \in Newest(HavingAll(seed, wanted), q.limit)
      BY <1>2
    <3>2. /\ Ordinary(w) /\ w.limit >= q.limit /\ \A r : Filters(w, r) <=> Filters(q, r)
      BY <1>2
    <3>3. fact \in {"file", "func", "list"} /\ (fact = "list" \/ fact \in wanted)
          /\ seed \in ScanEq(w, fact)
      BY <1>2
    <3> QED BY <3>1, <3>2, <3>3, SeedRows
  <2>2. Ample(w, fact, wanted) \/ Crowded(q, wanted)
    BY <1>2
  <2>3. useOver
    BY <1>2
  <2>4. \A r : Stale(r, {fact}) => Stale(r, wanted)
    BY <1>2 DEF Stale, Unguarded
  <2> HIDE DEF byIndex
  <2>5. Honest("activity", q, rows)
    BY <2>1 DEF Honest, Filters, Wanted
  <2>6. Topmost("activity", q, wanted, rows)
    BY <2>1, <2>4 DEF Topmost, WantedFirst
  <2>7. Complete("activity", q, wanted, rows)
    BY <2>1, <2>2, <2>3, <2>4 DEF Complete, Unseen, WantedAll
  <2> QED BY <2>1, <2>5, <2>6, <2>7 DEF Fits, Found, Owned, Wanted
<1>3. /\ Ordinary(Widened(q)) /\ Widened(q).limit >= q.limit
      /\ \A r : Filters(Widened(q), r) <=> Filters(q, r)
      /\ q.limit >= q.limit
  BY Wider DEF Ordinary
<1>4. CASE byIndex /\ wanted = {"file"}
  <2>1. PICK seed \in ScanEq(q, "file") :
             rows \in Newest(HavingAll(seed, wanted), q.limit)
    BY <1>4 DEF ActivityAnswers, HavingAll
  <2>2. \A r \in IndexOf(q, "file") : wanted \subseteq r.has
    BY <1>4, IndexRows DEF Fact, Has
  <2> HIDE DEF byIndex
  <2> QED BY <1>2, <1>3, <1>4, <2>1, <2>2 DEF Ample
<1>5. CASE byIndex /\ wanted = {"func"}
  <2>1. PICK seed \in ScanEq(q, "func") :
             rows \in Newest(HavingAll(seed, wanted), q.limit)
    BY <1>5 DEF ActivityAnswers, HavingAll
  <2>2. \A r \in IndexOf(q, "func") : wanted \subseteq r.has
    BY <1>5, IndexRows DEF Fact, Has
  <2> HIDE DEF byIndex
  <2> QED BY <1>2, <1>3, <1>5, <2>1, <2>2 DEF Ample
<1>6. CASE byIndex /\ wanted = {"file", "func"}
  <2>1. PICK seed \in ScanEq(Widened(q), "file") :
             rows \in Newest(HavingAll(seed, wanted), q.limit)
    BY <1>6 DEF ActivityAnswers, HavingAll
  <2>2. Cardinality(IndexOf(Widened(q), "file")) <= Widened(q).limit \/ Crowded(q, wanted)
    <3> DEFINE index == IndexOf(Widened(q), "file")
               touched == {r \in over : Matches(q, r, {"file"})}
    <3>1. index \subseteq touched
      BY <1>3, IndexRows DEF Matches, Fact, Has
    <3>2. IsFiniteSet(touched) /\ IsFiniteSet(index)
      <4>1. touched \subseteq Posted
        BY DEF StoreInv
      <4> QED BY <4>1, PostedRows, IndexRows
    <3>3. Crowded(q, wanted) <=> Cardinality(touched) > Widened(q).limit
      BY <1>6 DEF Crowded
    <3>4. Widened(q).limit \in Nat
      BY <1>3 DEF Ordinary
    <3> HIDE DEF index, touched
    <3>5. Cardinality(index) <= Cardinality(touched)
          /\ Cardinality(index) \in Nat /\ Cardinality(touched) \in Nat
      BY <3>1, <3>2, FS_Subset, FS_CardinalityType
    <3>6. Cardinality(index) <= Widened(q).limit \/ Crowded(q, wanted)
      BY <3>3, <3>4, <3>5
    <3> QED BY <3>6 DEF index
  <2> HIDE DEF byIndex
  <2> QED BY <1>2, <1>3, <1>6, <2>1, <2>2 DEF Ample
<1>7. CASE byIndex /\ wanted = {}
  <2>1. PICK seed \in ScanEq(Widened(q), "list") :
             rows \in Newest(HavingAll(seed, wanted), q.limit)
    BY <1>7 DEF ActivityAnswers, HavingAll
  <2>2. \A r \in IndexOf(Widened(q), "list") : wanted \subseteq r.has
    BY <1>7
  <2> HIDE DEF byIndex
  <2> QED BY <1>2, <1>3, <1>7, <2>1, <2>2 DEF Ample
<1>8. wanted \in {{}, {"file"}, {"func"}, {"file", "func"}}
  OBVIOUS
<1> HIDE DEF byIndex
<1> QED BY <1>1, <1>4, <1>5, <1>6, <1>7, <1>8

\* trailer_ref_lookup: the index if it is complete, or a walk.
LEMMA RefFits ==
    ASSUME StoreInv, NEW q, Ordinary(q), NEW rows \in RefAnswers(useOver, q)
    PROVE  Fits("lookup", q, {"ref"}, rows, {})
<1>1. CASE useOver /\ indexed
  <2> DEFINE index == DatedEntries(q, "ref")
  <2>1. rows \in Newest(index, q.limit)
    BY <1>1 DEF RefAnswers, ByTrailerRef
  <2>2. index \subseteq over /\ \A r \in index : Filters(q, r)
    BY DEF DatedEntries, ByColumn
  <2>3. \A r \in over : Matches(q, r, {"ref"}) => r \in index \/ r.date = Undated
    BY <1>1 DEF DatedEntries, ByColumn, Matches, Has, StoreInv
  <2>4. index \subseteq Posted /\ IsFiniteSet(index)
    BY <2>2, PostedRows DEF StoreInv
  <2>5. q.limit \in Nat
    BY DEF Ordinary
  <2> HIDE DEF index
  <2>6. rows \subseteq index /\ (Cardinality(rows) < q.limit => rows = index)
    BY <2>1, <2>4, <2>5, NewestRows
  <2>7. Honest("lookup", q, rows)
    BY <2>2, <2>6 DEF Honest, Filters
  <2>8. Complete("lookup", q, {"ref"}, rows)
    BY <1>1, <2>3, <2>6 DEF Complete, Unseen
  <2> QED BY <2>4, <2>6, <2>7, <2>8 DEF Fits, Found, Owned, Topmost, FromIndex
<1>2. CASE ~(useOver /\ indexed)
  <2> DEFINE matches == {r \in Walked : LenientFilters(q, r) /\ Has(r, "ref")}
  <2>1. rows = FirstOf(matches, q.limit)
    BY <1>2 DEF RefAnswers
  <2>2. /\ \A r \in matches : LenientFilters(q, r)
        /\ \A r \in Walked : Matches(q, r, {"ref"}) => r \in matches
        /\ matches \in SUBSET Walked
    BY DEF Matches, Has, LenientFilters, SinceOrUndated, Filters
  <2> HIDE DEF matches
  <2>3. /\ rows \subseteq matches /\ rows \subseteq Posted
        /\ Cardinality(rows) < q.limit => rows = matches
    BY <2>1, <2>2, WalkMatched DEF Ordinary
  <2>4. Honest("lookup", q, rows)
    BY <2>2, <2>3 DEF Honest, LenientFilters, SinceOrUndated
  <2>5. Complete("lookup", q, {"ref"}, rows)
    BY <2>2, <2>3 DEF Complete, Unseen, HiddenByCrossPost
  <2> QED BY <2>3, <2>4, <2>5 DEF Fits, Found, Owned, Topmost, FromIndex
<1> QED BY <1>1, <1>2

\* trailer_mentions: a walk.
LEMMA MentionRows ==
    ASSUME StoreInv, NEW q, Ordinary(q)
    PROVE  /\ Mentions(q) \subseteq Posted
           /\ \A r \in Mentions(q) : LenientFilters(q, r)
           /\ Cardinality(Mentions(q)) < q.limit =>
                \A r \in Posted : Filters(q, r) /\ Has(r, "line") =>
                  r \in Mentions(q) \/ HiddenByCrossPost(r)
<1> DEFINE matches == {r \in Walked : LenientFilters(q, r) /\ Has(r, "line")}
<1>1. Mentions(q) = FirstOf(matches, q.limit)
  BY DEF Mentions
<1>2. /\ \A r \in matches : LenientFilters(q, r)
      /\ \A r \in Walked : Filters(q, r) /\ Has(r, "line") => r \in matches
      /\ matches \in SUBSET Walked
  BY DEF LenientFilters, SinceOrUndated, Filters
<1> HIDE DEF matches
<1>3. /\ Mentions(q) \subseteq matches /\ Mentions(q) \subseteq Posted
      /\ Cardinality(Mentions(q)) < q.limit => Mentions(q) = matches
  BY <1>1, <1>2, WalkMatched DEF Ordinary
<1> QED BY <1>2, <1>3 DEF HiddenByCrossPost

\* So its rows are as the properties say.
LEMMA MentionsFit ==
    ASSUME StoreInv, NEW q, Ordinary(q)
    PROVE  \A rows \in {Mentions(q)} : Fits("lookup", q, {"line"}, rows, {})
<1>1. Honest("lookup", q, Mentions(q))
  BY MentionRows DEF Honest, LenientFilters, SinceOrUndated
<1>2. Complete("lookup", q, {"line"}, Mentions(q))
  BY MentionRows DEF Complete, Unseen, Matches, Has
<1> QED BY <1>1, <1>2, MentionRows DEF Fits, Found, Owned, Topmost, FromIndex

\* fetch_message: over.db, and Parquet if there is no deadline or no over.db.
LEMMA FetchRows ==
    ASSUME StoreInv, NEW q, NEW rows \in FetchAnswers(useOver, q)
    PROVE  /\ rows \subseteq Posted
           /\ rows = {} => \A r \in Posted : r.mid = q.mid => useOver /\ q.live /\ r \notin over
<1> DEFINE matches == {r \in Walked : r.mid = q.mid}
<1>1. /\ Get(q.mid) \subseteq Posted
      /\ Get(q.mid) = {} => \A r \in over : r.mid # q.mid
  BY GetRows
<1>2. CASE useOver /\ Get(q.mid) # {}
  <2>1. PICK r \in Get(q.mid) : rows = {r}
    BY <1>2 DEF FetchAnswers
  <2> QED BY <1>1, <2>1
<1>3. CASE useOver /\ Get(q.mid) = {} /\ q.live
  <2>1. rows = {}
    BY <1>3 DEF FetchAnswers
  <2> QED BY <1>1, <1>3, <2>1
<1>4. CASE ~(useOver /\ Get(q.mid) # {}) /\ ~(useOver /\ Get(q.mid) = {} /\ q.live)
  <2>1. rows = FirstOf(matches, 1)
    BY <1>4 DEF FetchAnswers
  <2>2. matches \in SUBSET Walked
    OBVIOUS
  <2>3. matches = {} => \A r \in Posted : r.mid # q.mid
    BY WalkRows
  <2> HIDE DEF matches
  <2>4. rows \subseteq Posted /\ (rows = {} => matches = {})
    BY <2>1, <2>2, WalkMatched
  <2> QED BY <2>3, <2>4
<1> QED BY <1>2, <1>3, <1>4

\* So are those of fetch_message.
LEMMA FetchFits ==
    ASSUME StoreInv, NEW q, NEW rows \in FetchAnswers(useOver, q)
    PROVE  Fits("fetch", q, {"mid"}, rows, {})
<1>1. Found("fetch", q, rows)
  BY FetchRows DEF Found
<1> QED BY <1>1, FetchRows DEF Fits, Honest, Topmost, FromIndex, Complete, Owned

\* A series: the seed, or rows of over.db or of the walk.
LEMMA TimelineRows ==
    ASSUME StoreInv, NEW q, NEW rows \in TimelineAnswers(useOver, q)
    PROVE  rows \subseteq Posted
<1>1. PICK found \in FetchAnswers(useOver, q) :
           \/ found = {} /\ rows = {}
           \/ found # {} /\ \E s \in found : \/ rows = {s} \/ rows \subseteq over
                                             \/ rows \subseteq Walked
  <2>1. PICK found \in FetchAnswers(useOver, q) :
             rows = IF found = {} THEN {} ELSE
               LET s == CHOOSE s \in found : TRUE
               IN  IF ~Has(s, "author") THEN {s}
                   ELSE IF useOver /\ Has(s, "tid")
                   THEN {r \in over : Has(r, "tid") /\ Has(r, "author") /\ r.list = s.list}
                   ELSE {r \in Walked : Has(r, "author") /\ r.list = s.list}
    BY DEF TimelineAnswers
  <2>2. CASE found = {}
    BY <2>1, <2>2
  <2>3. CASE found # {}
    <3> DEFINE seed == CHOOSE s \in found : TRUE
    <3>1. seed \in found
      BY <2>3
    <3>2. \/ rows = {seed}
          \/ rows = {r \in over : Has(r, "tid") /\ Has(r, "author") /\ r.list = seed.list}
          \/ rows = {r \in Walked : Has(r, "author") /\ r.list = seed.list}
      BY <2>1, <2>3
    <3> HIDE DEF seed
    <3>3. rows = {seed} \/ rows \subseteq over \/ rows \subseteq Walked
      BY <3>2
    <3> QED BY <2>3, <3>1, <3>3
  <2> QED BY <2>2, <2>3
<1>2. found \subseteq Posted
  BY FetchRows
<1> QED BY <1>1, <1>2, WalkRows DEF StoreInv

\* A citation: the message, or the first matches of a walk.
LEMMA CitationRows ==
    ASSUME StoreInv, NEW q, Ordinary(q), NEW id, NEW rows \in CitationAnswers(useOver, q, id)
    PROVE  rows \subseteq Posted
<1> DEFINE matches == {r \in Walked : r.mid = q.mid \/ (~id /\ Has(r, "text"))}
<1>1. matches \in SUBSET Walked
  OBVIOUS
<1>2. (\E r \in Get(q.mid) : rows = {r}) \/ rows = FirstOf(matches, q.limit)
  BY DEF CitationAnswers
<1> HIDE DEF matches
<1>3. FirstOf(matches, q.limit) \subseteq Posted
  BY <1>1, WalkMatched DEF Ordinary
<1> QED BY <1>2, <1>3, GetRows

\* A regex on a header.
LEMMA HeaderRegexFits ==
    ASSUME StoreInv, NEW q, Ordinary(q), NEW rows \in HeaderRegexAnswers(q)
    PROVE  Fits("regex", q, {"text"}, rows, {})
<1> DEFINE matches == {r \in Walked : Filters(q, r) /\ Has(r, "text")}
           some == FirstOf(matches, Factor * q.limit)
<1>1. matches \in SUBSET Walked /\ \A r \in matches : Filters(q, r)
  OBVIOUS
<1>2. q.limit \in Nat /\ Factor * q.limit \in Nat \ {0}
  <2>1. q.limit \in Nat /\ q.limit > 0 /\ Factor \in Nat /\ Factor > 0
    BY FetchAssumption DEF Ordinary
  <2> QED BY <2>1
<1> HIDE DEF matches
<1>3. some \subseteq matches /\ some \subseteq Posted /\ IsFiniteSet(some)
  BY <1>1, <1>2, WalkMatched
<1>4. rows \in Newest(some, q.limit)
  BY DEF HeaderRegexAnswers, matches
<1> HIDE DEF some
<1>5. rows \subseteq some
  BY <1>2, <1>3, <1>4, NewestRows
<1>6. Honest("regex", q, rows)
  BY <1>1, <1>3, <1>5 DEF Honest, Filters
<1> QED BY <1>3, <1>5, <1>6 DEF Fits, Topmost, FromIndex, Complete, Found, Owned

\* A regex on a body.
LEMMA BodyRegexFits ==
    ASSUME StoreInv, NEW q, Ordinary(q), NEW rows \in BodyRegexAnswers(useOver, q)
    PROVE  Fits("regex", q, {"body"}, rows, {})
<1> DEFINE matches == {r \in Walked : Filters(q, r)}
           some == Select(Walk, matches)
           hits == FirstN(some, Factor * q.limit)
           Fetched(r) == {} \notin FetchAnswers(useOver, [q EXCEPT !.mid = r.mid])
           body == {r \in Walked : Has(r, "body") /\ Fetched(r)}
           left == Select(hits, body)
<1>1. q.limit \in Nat /\ Factor * q.limit \in Nat
  <2>1. q.limit \in Nat /\ Factor \in Nat
    BY FetchAssumption DEF Ordinary
  <2> QED BY <2>1
<1>2. \A r \in matches : Filters(q, r)
  OBVIOUS
<1>3. some \in Seq(AnyRow) /\ ToSet(some) = ToSet(Walk) \cap matches
  BY WalkRows, SelectRows
<1> HIDE DEF some, matches
<1>4. hits \in Seq(AnyRow) /\ ToSet(hits) \subseteq ToSet(some)
  BY <1>1, <1>3, FirstNKeeps
<1> HIDE DEF hits, body
<1>5. left \in Seq(AnyRow) /\ ToSet(left) \subseteq ToSet(hits)
  BY <1>4, SelectRows
<1>6. rows = ToSet(FirstN(left, q.limit))
  BY DEF BodyRegexAnswers, left, body, hits, some, matches
<1> HIDE DEF left
<1>7. rows \subseteq ToSet(left)
  BY <1>1, <1>5, <1>6, FirstNKeeps
<1>8. rows \subseteq matches /\ rows \subseteq Posted
  BY <1>3, <1>4, <1>5, <1>7, WalkRows DEF Walked
<1>9. Honest("regex", q, rows)
  BY <1>2, <1>8 DEF Honest, Filters
<1> QED BY <1>8, <1>9 DEF Fits, Topmost, FromIndex, Complete, Found, Owned

\* hydrate_candidates finds rows of files.
LEMMA HydratedRows ==
    ASSUME StoreInv, NEW q, NEW mids, NEW rows \in Hydrated(useOver, q, mids)
    PROVE  rows \subseteq Posted /\ IsFiniteSet(rows)
<1> DEFINE known == IF useOver THEN {m \in mids : Get(m) # {}} ELSE {}
           walked == {r \in Walked : r.mid \in mids \ known /\ InLists(q, r)}
<1>1. PICK pick \in [known -> over] :
           rows = {r \in {pick[m] : m \in known} : InLists(q, r)} \cup walked
  BY DEF Hydrated
<1>2. {pick[m] : m \in known} \subseteq over /\ walked \subseteq Walked
  <2> HIDE DEF known
  <2> QED BY <1>1
<1> HIDE DEF known, walked
<1>3. rows \subseteq over \cup Walked
  BY <1>1, <1>2
<1>4. rows \subseteq Posted
  BY <1>3, WalkRows DEF StoreInv
<1> QED BY <1>4, PostedRows

\* The confirmed hits of a patch search are rows of files.
LEMMA PatchRows ==
    ASSUME StoreInv, NEW q, Ordinary(q), NEW candidates,
           NEW rows \in PatchAnswers(useOver, q, candidates)
    PROVE  rows \subseteq Posted
<1>1. PICK hydrated \in Hydrated(useOver, q, candidates) : rows \in Confirmed(hydrated, q)
  BY DEF PatchAnswers
<1> DEFINE confirmed == {r \in hydrated : Has(r, "body")}
<1>2. hydrated \subseteq Posted /\ IsFiniteSet(hydrated)
  BY HydratedRows
<1>3. confirmed \subseteq hydrated /\ IsFiniteSet(confirmed)
  BY <1>2, FS_Subset
<1>4. rows \in Newest(confirmed, q.limit)
  BY <1>1 DEF Confirmed
<1> HIDE DEF confirmed
<1>5. rows \subseteq confirmed
  BY <1>3, <1>4, NewestRows DEF Ordinary
<1> QED BY <1>2, <1>3, <1>5

\* The rows of a text search are of files.
LEMMA ProseRows ==
    ASSUME StoreInv, NEW q, NEW rows \in ProseAnswers(useOver, q)
    PROVE  rows \subseteq Posted
<1> DEFINE anywhere == [q EXCEPT !.list = Absent]
<1>1. PICK top \in TopDocuments(q) : rows \in Hydrated(useOver, anywhere, MidsOf(top))
  BY DEF ProseAnswers
<1> HIDE DEF anywhere
<1> QED BY <1>1, HydratedRows

\* author_profile: a column and a walk, and whether either hit the limit.
LEMMA ProfileFits ==
    ASSUME StoreInv, NEW q, Ordinary(q), NEW authored \in EqAnswers(useOver, q, "author")
    PROVE  LET profile == Profile(authored, Mentions(q), q)
           IN  \A rows \in {profile.rows} :
                 Fits("profile", q, {"author", "line"}, rows, profile.told)
<1> DEFINE more == {r \in Mentions(q) : r.mid \notin MidsOf(authored)}
           rows == authored \cup more
           told == IF LimitHit(authored, Mentions(q), q) THEN {"limit_hit"} ELSE {}
<1>1. Profile(authored, Mentions(q), q).rows = rows
      /\ Profile(authored, Mentions(q), q).told = told
  BY DEF Profile
<1>2. /\ authored \subseteq Posted /\ \A r \in authored : Filters(q, r)
      /\ Cardinality(authored) < q.limit =>
           \A r \in Posted : Filters(q, r) /\ Has(r, "author") =>
             r \in authored \/ Excusable(r, "author")
  BY EqRows
<1>3. /\ Mentions(q) \subseteq Posted /\ \A r \in Mentions(q) : LenientFilters(q, r)
      /\ Cardinality(Mentions(q)) < q.limit =>
           \A r \in Posted : Filters(q, r) /\ Has(r, "line") =>
             r \in Mentions(q) \/ HiddenByCrossPost(r)
  BY MentionRows
<1>4. told = {} => Cardinality(authored) < q.limit /\ Cardinality(Mentions(q)) < q.limit
  <2>1. IsFiniteSet(authored) /\ IsFiniteSet(Mentions(q))
    BY <1>2, <1>3, PostedRows
  <2>2. Cardinality(authored) \in Nat /\ Cardinality(Mentions(q)) \in Nat /\ q.limit \in Nat
    BY <2>1, FS_CardinalityType DEF Ordinary
  <2>3. told = {} => ~LimitHit(authored, Mentions(q), q)
    OBVIOUS
  <2> HIDE DEF told
  <2> QED BY <2>2, <2>3 DEF LimitHit
<1>5. \A r \in Mentions(q) : r.mid \in MidsOf(authored) \/ r \in more
  OBVIOUS
<1>6. more \subseteq Mentions(q) /\ MidsOf(authored) \subseteq MidsOf(rows)
      /\ \A r \in rows : r.mid \in MidsOf(rows)
  BY DEF MidsOf
<1>7. authored \subseteq rows /\ more \subseteq rows /\ rows \subseteq authored \cup more
  OBVIOUS
<1> HIDE DEF more, rows, told
<1>8. rows \subseteq Posted
  BY <1>2, <1>3, <1>6, <1>7
<1>9. Honest("profile", q, rows)
  BY <1>2, <1>3, <1>6, <1>7 DEF Honest, LenientFilters, SinceOrUndated, Filters
<1>10. Owned("profile", q, {"author", "line"}, rows, told)
  <2>1. ASSUME told = {}, NEW r \in Posted, Filters(q, r), r.has \cap {"author", "line"} # {}
        PROVE  r.mid \in MidsOf(rows) \/ r \notin over \/ HiddenByCrossPost(r)
    <3>1. CASE Has(r, "author")
      <4>1. ~Stale(r, {"author"})
        BY DEF Stale, Unguarded
      <4> QED BY <1>2, <1>4, <1>6, <1>7, <2>1, <3>1, <4>1 DEF Excusable
    <3>2. CASE Has(r, "line")
      BY <1>3, <1>4, <1>5, <1>6, <1>7, <2>1, <3>2
    <3> QED BY <2>1, <3>1, <3>2 DEF Has
  <2> QED BY <2>1 DEF Owned
<1>11. Fits("profile", q, {"author", "line"}, rows, told)
  BY <1>8, <1>9, <1>10 DEF Fits, Topmost, FromIndex, Complete, Found
<1> QED BY <1>1, <1>11

\* maintainer_profile: a sample of a path, and whether it names the maintainer.
LEMMA MaintainersFit ==
    ASSUME StoreInv, NEW q, Ordinary(q),
           NEW sample \in ActivityAnswers(useOver, q, {"file"})
    PROVE  \A rows \in {sample} : Fits("maintainers", q, {"file", "email"}, rows, Silent(sample))
<1>1. sample \subseteq Posted /\ Complete("activity", q, {"file"}, sample)
  BY ActivityFits DEF Fits
<1>2. ~Crowded(q, {"file"})
  BY DEF Crowded
<1>3. ASSUME Silent(sample) # {}, Cardinality(sample) < q.limit,
             NEW r \in Posted, Matches(q, r, {"file", "email"})
      PROVE  Unseen("maintainers", {"file", "email"}, r)
  <2>1. Matches(q, r, {"file"}) /\ "email" \in r.has
    BY <1>3 DEF Matches
  <2>2. r \notin sample
    BY <1>3, <2>1 DEF Silent, Has
  <2>3. Unseen("activity", {"file"}, r)
    BY <1>1, <1>2, <1>3, <2>1, <2>2 DEF Complete
  <2>4. Stale(r, {"file"}) => Stale(r, {"file", "email"})
    BY DEF Stale, Unguarded
  <2> QED BY <2>3, <2>4 DEF Unseen
<1>4. Owned("maintainers", q, {"file", "email"}, sample, Silent(sample))
  BY <1>3 DEF Owned
<1>5. Fits("maintainers", q, {"file", "email"}, sample, Silent(sample))
  BY <1>1, <1>4 DEF Fits, Honest, Topmost, FromIndex, Complete, Found
<1> QED BY <1>5

------------------------------------------------------------------------------
(* Every step of a reader and of ingest. *)

\* What holds of the stores and of the last answer.
QueryInv == StoreInv /\ Answered /\ answer.rows \subseteq Posted

\* A reader starts with empty stores.
LEMMA QueryStarts ==
    ASSUME QueryInit PROVE QueryInv
<1>1. files = <<>> /\ files \in Seq(Seq(AnyRow))
  BY DEF QueryInit
<1>2. ToSet(files) = {}
  BY <1>1 DEF ToSet
<1>3. Posted = {}
  BY <1>1, <1>2, FileRows DEF Posted
<1>4. StoreInv
  BY <1>1, <1>3 DEF StoreInv, QueryInit
<1> QED BY <1>4 DEF QueryInv, QueryInit, Answered, NoAnswer

\* A file that ingest writes.
LEMMA IngestKeeps ==
    ASSUME StoreInv, Ingest
    PROVE  StoreInv' /\ Posted \subseteq Posted' /\ asked' = NotAsked /\ answer' = answer
<1>1. PICK l \in Lists, batch \in Batches, old \in BOOLEAN, kept \in BOOLEAN :
           LET rows == [i \in DOMAIN batch |-> Row(batch[i], l)]
           IN /\ old => files = <<>> /\ kept
              /\ files' = <<rows>> \o files
              /\ over' = IF kept THEN over \cup ToSet(rows) ELSE over
              /\ entered' = IF kept /\ ~old THEN entered \cup ToSet(rows) ELSE entered
              /\ indexed' = (indexed /\ ~old)
  BY DEF Ingest
<1> DEFINE rows == [i \in DOMAIN batch |-> Row(batch[i], l)]
<1>2. batch \in Seq(Mids) /\ Contents \subseteq [date : Nat, has : SUBSET Facts]
      /\ \A c \in Contents : "email" \in c.has => "line" \in c.has
  BY ContentAssumption
<1>3. ASSUME NEW m \in Mids
      PROVE  Row(m, l) \in AnyRow /\ ("email" \in Row(m, l).has => "line" \in Row(m, l).has)
  <2>1. mail[m] \in Contents
    BY DEF StoreInv
  <2>2. mail[m].date \in Nat /\ mail[m].has \in SUBSET Facts
        /\ ("email" \in mail[m].has => "line" \in mail[m].has)
    BY <1>2, <2>1
  <2> QED BY <2>2 DEF Row, AnyRow
<1>4. rows \in Seq(AnyRow) /\ \A i \in DOMAIN batch : rows[i] = Row(batch[i], l)
  BY <1>2, <1>3
<1>5. \A r \in ToSet(rows) : "email" \in r.has => "line" \in r.has
  <2> SUFFICES ASSUME NEW r \in ToSet(rows) PROVE "email" \in r.has => "line" \in r.has
    OBVIOUS
  <2>1. PICK i \in DOMAIN batch : r = Row(batch[i], l)
    BY <1>4 DEF ToSet
  <2>2. batch[i] \in Mids
    BY <1>2
  <2> QED BY <1>3, <2>1, <2>2
<1>6. files' = <<rows>> \o files
      /\ over' = (IF kept THEN over \cup ToSet(rows) ELSE over)
      /\ entered' = (IF kept /\ ~old THEN entered \cup ToSet(rows) ELSE entered)
      /\ indexed' = (indexed /\ ~old) /\ (old => kept)
  BY <1>1
<1> HIDE DEF rows
<1>7. <<rows>> \in Seq(Seq(AnyRow)) /\ ToSet(<<rows>>) = {rows}
  <2>1. <<rows>> \in Seq(Seq(AnyRow)) /\ DOMAIN <<rows>> = {1} /\ <<rows>>[1] = rows
    BY <1>4
  <2> QED BY <2>1 DEF ToSet
<1>8. files \in Seq(Seq(AnyRow))
  BY DEF StoreInv
<1>9. files' \in Seq(Seq(AnyRow)) /\ ToSet(files') = {rows} \cup ToSet(files)
  <2>1. /\ <<rows>> \o files \in Seq(Seq(AnyRow))
        /\ ToSet(<<rows>> \o files) = ToSet(<<rows>>) \cup ToSet(files)
    <3> DEFINE head == <<rows>>
               T == Seq(AnyRow)
    <3>1. head \in Seq(T) /\ files \in Seq(T)
      BY <1>7, <1>8
    <3> HIDE DEF head, T
    <3>2. head \o files \in Seq(T) /\ ToSet(head \o files) = ToSet(head) \cup ToSet(files)
      BY <3>1, ConcatRows
    <3> QED BY <3>2 DEF head, T
  <2> QED BY <1>6, <1>7, <2>1
<1>10. \A r : r \in Posted' <=> r \in ToSet(rows) \/ r \in Posted
  <2>1. \A r : r \in ToSet(FlattenSeq(files)) <=> \E f \in ToSet(files) : r \in ToSet(f)
    BY <1>8, FileRows
  <2>2. \A r : r \in ToSet(FlattenSeq(files')) <=> \E f \in ToSet(files') : r \in ToSet(f)
    BY <1>9, FileRows
  <2> QED BY <1>9, <2>1, <2>2 DEF Posted
<1>11. mail' = mail /\ asked' = NotAsked /\ answer' = answer
  BY DEF Ingest
<1>12. over' \subseteq Posted' /\ entered' \subseteq over' /\ (indexed' => entered' = over')
  BY <1>6, <1>10 DEF StoreInv
<1>13. \A r \in Posted' : "email" \in r.has => "line" \in r.has
  BY <1>5, <1>10 DEF StoreInv
<1>14. StoreInv'
  BY <1>9, <1>11, <1>12, <1>13 DEF StoreInv
<1> QED BY <1>10, <1>11, <1>14

\* A query: its rows are as the properties say, and the stores stand still.
LEMMA QueryKeeps ==
    ASSUME StoreInv, Query
    PROVE  Answered' /\ answer'.rows \subseteq Posted' /\ UNCHANGED store
<1>1. \A q \in Queries : Ordinary(q)
  BY Asked
<1>2. Filtered \subseteq Queries /\ Named \subseteq Queries
  BY DEF Filtered, Named
<1>3. CASE Eq
  <2>1. PICK q \in Queries, f \in Facts \cup {"list", "mid"} :
             Reply("eq", q, {f}, EqAnswers(useOver, q, f), {})
    BY <1>2, <1>3 DEF Eq, Facts
  <2>2. \A rows \in EqAnswers(useOver, q, f) : Fits("eq", q, {f}, rows, {})
    BY <1>1, EqFits
  <2> QED BY <2>1, <2>2, Replies
<1>4. CASE InList
  <2>1. PICK q \in Queries : Reply("walk", q, {"author", "email"},
                                   InListAnswers(q, {"author", "email"}), {})
    BY <1>2, <1>4 DEF InList
  <2>2. \A rows \in InListAnswers(q, {"author", "email"}) :
           Fits("walk", q, {"author", "email"}, rows, {})
    BY <1>1, WalksFit
  <2> QED BY <2>1, <2>2, Replies
<1>5. CASE SubstrSubject
  <2>1. PICK q \in Queries : Reply("walk", q, {"text"}, SubjectAnswers(q), {})
    BY <1>2, <1>5 DEF SubstrSubject
  <2>2. \A rows \in SubjectAnswers(q) : Fits("walk", q, {"text"}, rows, {})
    BY <1>1, WalksFit
  <2> QED BY <2>1, <2>2, Replies
<1>6. CASE SubstrTrailers
  <2>1. PICK q \in Queries : Reply("walk", q, {"line"}, TrailerAnswers(q), {})
    BY <1>2, <1>6 DEF SubstrTrailers
  <2>2. \A rows \in TrailerAnswers(q) : Fits("walk", q, {"line"}, rows, {})
    BY <1>1, WalksFit
  <2> QED BY <2>1, <2>2, Replies
<1>7. CASE Count
  <2>1. PICK q \in Queries : Reply("count", q, {"author"}, {Counted(q, "author")}, {})
    BY <1>2, <1>7 DEF Count
  <2>2. \A rows \in {Counted(q, "author")} : Fits("count", q, {"author"}, rows, {})
    BY CountFits
  <2> QED BY <2>1, <2>2, Replies
<1>8. CASE CorpusStats
  <2>1. PICK q \in Queries : Reply("stats", q, {}, {Corpus(useOver)}, {})
    BY <1>2, <1>8 DEF CorpusStats
  <2>2. \A rows \in {Corpus(useOver)} : Fits("stats", q, {}, rows, {})
    BY CountFits
  <2> QED BY <2>1, <2>2, Replies
<1>9. CASE AllRows
  <2>1. PICK q \in Queries : Reply("rows", q, {}, ListAnswers(useOver, q), {})
    BY <1>2, <1>9 DEF AllRows
  <2>2. \A rows \in ListAnswers(useOver, q) : Fits("rows", q, {}, rows, {})
    BY <1>1, ListFits
  <2> QED BY <2>1, <2>2, Replies
<1>10. CASE Activity
  <2>1. PICK q \in Queries, wanted \in SUBSET {"file", "func"} :
             Reply("activity", q, wanted, ActivityAnswers(useOver, q, wanted), {})
    BY <1>2, <1>10 DEF Activity
  <2>2. \A rows \in ActivityAnswers(useOver, q, wanted) :
           Fits("activity", q, wanted, rows, {})
    BY <1>1, ActivityFits
  <2> QED BY <2>1, <2>2, Replies
<1>11. CASE TrailerRefLookup
  <2>1. PICK q \in Queries : Reply("lookup", q, {"ref"}, RefAnswers(useOver, q), {})
    BY <1>2, <1>11 DEF TrailerRefLookup
  <2>2. \A rows \in RefAnswers(useOver, q) : Fits("lookup", q, {"ref"}, rows, {})
    BY <1>1, RefFits
  <2> QED BY <2>1, <2>2, Replies
<1>12. CASE TrailerMentions
  <2>1. PICK q \in Queries : Reply("lookup", q, {"line"}, {Mentions(q)}, {})
    BY <1>2, <1>12 DEF TrailerMentions
  <2>2. \A rows \in {Mentions(q)} : Fits("lookup", q, {"line"}, rows, {})
    BY <1>1, MentionsFit
  <2> QED BY <2>1, <2>2, Replies
<1>13. CASE FetchMessage
  <2>1. PICK q \in Queries : Reply("fetch", q, {"mid"}, FetchAnswers(useOver, q), {})
    BY <1>2, <1>13 DEF FetchMessage
  <2>2. \A rows \in FetchAnswers(useOver, q) : Fits("fetch", q, {"mid"}, rows, {})
    BY FetchFits
  <2> QED BY <2>1, <2>2, Replies
<1>14. CASE SeriesTimeline
  <2>1. PICK q \in Queries : Reply("series", q, {"author"}, TimelineAnswers(useOver, q), {})
    BY <1>2, <1>14 DEF SeriesTimeline
  <2>2. \A rows \in TimelineAnswers(useOver, q) : Fits("series", q, {"author"}, rows, {})
    BY TimelineRows, LooseFits
  <2> QED BY <2>1, <2>2, Replies
<1>15. CASE ExpandCitation
  <2>1. PICK q \in Queries, id \in BOOLEAN :
             Reply("cite", q, {"mid"}, CitationAnswers(useOver, q, id), {})
    BY <1>2, <1>15 DEF ExpandCitation
  <2>2. \A rows \in CitationAnswers(useOver, q, id) : Fits("cite", q, {"mid"}, rows, {})
    BY <1>1, CitationRows, LooseFits
  <2> QED BY <2>1, <2>2, Replies
<1>16. CASE HeaderRegex
  <2>1. PICK q \in Queries : Reply("regex", q, {"text"}, HeaderRegexAnswers(q), {})
    BY <1>2, <1>16 DEF HeaderRegex
  <2>2. \A rows \in HeaderRegexAnswers(q) : Fits("regex", q, {"text"}, rows, {})
    BY <1>1, HeaderRegexFits
  <2> QED BY <2>1, <2>2, Replies
<1>17. CASE BodyRegex
  <2>1. PICK q \in Queries : Reply("regex", q, {"body"}, BodyRegexAnswers(useOver, q), {})
    BY <1>2, <1>17 DEF BodyRegex
  <2>2. \A rows \in BodyRegexAnswers(useOver, q) : Fits("regex", q, {"body"}, rows, {})
    BY <1>1, BodyRegexFits
  <2> QED BY <2>1, <2>2, Replies
<1>18. CASE PatchSearch
  <2>0. PICK q \in Filtered : \E candidates \in Candidates(q) :
             IF Cardinality(candidates) >= MaxCandidates
             THEN Reply("patch", q, {"body"}, {{}}, {"refused"})
             ELSE Reply("patch", q, {"body"}, PatchAnswers(useOver, q, candidates), {})
    BY <1>18 DEF PatchSearch
  <2>1. PICK candidates \in Candidates(q) :
             \/ Reply("patch", q, {"body"}, {{}}, {"refused"})
             \/ Reply("patch", q, {"body"}, PatchAnswers(useOver, q, candidates), {})
    BY <2>0
  <2>2. \A rows \in {{}} : Fits("patch", q, {"body"}, rows, {"refused"})
    BY RefusalFits
  <2>3. \A rows \in PatchAnswers(useOver, q, candidates) : Fits("patch", q, {"body"}, rows, {})
    BY <1>1, <1>2, PatchRows, LooseFits
  <2>4. CASE Reply("patch", q, {"body"}, {{}}, {"refused"})
    <3> DEFINE none == {{}}
    <3>1. Reply("patch", q, {"body"}, none, {"refused"})
      BY <2>4
    <3>2. \A rows \in none : Fits("patch", q, {"body"}, rows, {"refused"})
      BY <2>2
    <3> HIDE DEF none
    <3> QED BY <3>1, <3>2, Replies
  <2>5. CASE Reply("patch", q, {"body"}, PatchAnswers(useOver, q, candidates), {})
    BY <2>3, <2>5, Replies
  <2> QED BY <2>1, <2>4, <2>5
<1>19. CASE ProseSearch
  <2>1. PICK q \in Queries :
             \/ Reply("prose", q, {"text"}, {{}}, {"stale"})
             \/ Reply("prose", q, {"text"}, ProseAnswers(useOver, q), {})
    BY <1>2, <1>19 DEF ProseSearch
  <2>2. \A rows \in {{}} : Fits("prose", q, {"text"}, rows, {"stale"})
    BY RefusalFits
  <2>3. \A rows \in ProseAnswers(useOver, q) : Fits("prose", q, {"text"}, rows, {})
    BY ProseRows, LooseFits
  <2>4. CASE Reply("prose", q, {"text"}, {{}}, {"stale"})
    <3> DEFINE none == {{}}
    <3>1. Reply("prose", q, {"text"}, none, {"stale"})
      BY <2>4
    <3>2. \A rows \in none : Fits("prose", q, {"text"}, rows, {"stale"})
      BY <2>2
    <3> HIDE DEF none
    <3> QED BY <3>1, <3>2, Replies
  <2>5. CASE Reply("prose", q, {"text"}, ProseAnswers(useOver, q), {})
    BY <2>3, <2>5, Replies
  <2> QED BY <2>1, <2>4, <2>5
<1>20. CASE AuthorProfile
  <2>1. PICK q \in Filtered : \E authored \in EqAnswers(useOver, q, "author") :
             LET profile == Profile(authored, Mentions(q), q)
             IN  Reply("profile", q, {"author", "line"}, {profile.rows}, profile.told)
    BY <1>20 DEF AuthorProfile
  <2>2. PICK authored \in EqAnswers(useOver, q, "author") :
             LET profile == Profile(authored, Mentions(q), q)
             IN  Reply("profile", q, {"author", "line"}, {profile.rows}, profile.told)
    BY <2>1
  <2>3. Ordinary(q)
    BY <1>1, <1>2
  <2>4. LET profile == Profile(authored, Mentions(q), q)
        IN  \A rows \in {profile.rows} :
              Fits("profile", q, {"author", "line"}, rows, profile.told)
    BY <2>3, ProfileFits
  <2> QED BY <2>2, <2>4, Replies
<1>21. CASE MaintainerProfile
  <2>1. PICK q \in Filtered : \E sample \in ActivityAnswers(useOver, q, {"file"}) :
             q.list = Absent
             /\ Reply("maintainers", q, {"file", "email"}, {sample}, Silent(sample))
    BY <1>21 DEF MaintainerProfile
  <2>2. PICK sample \in ActivityAnswers(useOver, q, {"file"}) :
             Reply("maintainers", q, {"file", "email"}, {sample}, Silent(sample))
    BY <2>1
  <2>3. Ordinary(q)
    BY <1>1, <1>2
  <2>4. \A rows \in {sample} : Fits("maintainers", q, {"file", "email"}, rows, Silent(sample))
    BY <2>3, MaintainersFit
  <2> QED BY <2>2, <2>4, Replies
<1> QED BY <1>3, <1>4, <1>5, <1>6, <1>7, <1>8, <1>9, <1>10, <1>11, <1>12, <1>13, <1>14,
           <1>15, <1>16, <1>17, <1>18, <1>19, <1>20, <1>21 DEF Query

\* One step of a reader, of ingest or of neither.
LEMMA QueryStep ==
    ASSUME QueryInv, [QueryNext]_queryVars
    PROVE  QueryInv'
<1>1. CASE Ingest
  BY <1>1, IngestKeeps DEF QueryInv, Answered
<1>2. CASE UNCHANGED store /\ asked' = asked /\ answer' = answer
  <2>1. files' = files /\ over' = over /\ entered' = entered /\ indexed' = indexed
        /\ mail' = mail
    BY <1>2 DEF store
  <2>2. Posted' = Posted
    BY <2>1 DEF Posted
  <2>3. StoreInv'
    BY <2>1, <2>2 DEF StoreInv, QueryInv
  <2>4. Answered'
    <3>1. CASE asked = NotAsked
      BY <1>2, <3>1 DEF Answered
    <3>2. CASE Fits(asked.op, asked.q, asked.facts, answer.rows, answer.told)
      <4>1. PICK op, q, facts, rows, told :
                 op = asked.op /\ q = asked.q /\ facts = asked.facts
                 /\ rows = answer.rows /\ told = answer.told
        OBVIOUS
      <4>2. Fits(op, q, facts, rows, told)'
        BY <1>2, <3>2, <4>1, Frozen
      <4>3. op = asked'.op /\ q = asked'.q /\ facts = asked'.facts
            /\ rows = answer'.rows /\ told = answer'.told
        BY <1>2, <4>1
      <4>4. Fits(asked.op, asked.q, asked.facts, answer.rows, answer.told)'
        BY <4>2, <4>3 DEF Fits, Honest, Topmost, FromIndex, Complete, Found, Owned, Unseen
      <4> QED BY <4>4 DEF Answered
    <3> QED BY <3>1, <3>2 DEF Answered, QueryInv
  <2> QED BY <1>2, <2>2, <2>3, <2>4 DEF QueryInv
<1>3. CASE Query
  <2>1. Answered' /\ answer'.rows \subseteq Posted' /\ UNCHANGED store
    BY <1>3, QueryKeeps DEF QueryInv
  <2>2. Posted' = Posted /\ StoreInv'
    <3>1. Posted' = Posted
      BY <2>1 DEF store, Posted
    <3> QED BY <2>1, <3>1 DEF QueryInv, StoreInv, store
  <2> QED BY <2>1, <2>2 DEF QueryInv
<1>4. CASE UNCHANGED queryVars
  BY <1>2, <1>4 DEF queryVars, store
<1> QED BY <1>1, <1>3, <1>4 DEF QueryNext

------------------------------------------------------------------------------
(* lore_search: the tiers, their fusion and the pages. *)

\* An order of a finite set has each of its members once.
LEMMA OrderedRows ==
    ASSUME NEW S, IsFiniteSet(S), NEW s \in SetToSeqs(S)
    PROVE  s \in Seq(S) /\ IsInjective(s) /\ ToSet(s) = S
<1> DEFINE k == Cardinality(S)
<1>1. k \in Nat
  BY FS_CardinalityType
<1>2. s \in [1 .. k -> S] /\ \A i, j \in 1 .. k : i # j => s[i] # s[j]
  BY DEF SetToSeqs
<1> HIDE DEF k
<1>3. s \in Seq(S) /\ DOMAIN s = 1 .. k /\ Len(s) = k
  BY <1>1, <1>2
<1>4. IsInjective(s)
  BY <1>2, <1>3 DEF IsInjective
<1>5. ToSet(s) \in SUBSET S
  BY <1>3, RowAt
<1>6. Cardinality(ToSet(s)) = k
  BY <1>3, <1>4, DistinctCount
<1>7. Cardinality(S) = Cardinality(ToSet(s)) => S = ToSet(s)
  BY <1>5, FS_Subset
<1> QED BY <1>3, <1>4, <1>6, <1>7 DEF k

\* A tier's hits are rows of files.
LEMMA OrderedPosted ==
    ASSUME StoreInv, NEW rows, rows \subseteq Posted, NEW s \in SetToSeqs(rows)
    PROVE  s \in Seq(AnyRow) /\ ToSet(s) \subseteq Posted
<1>1. IsFiniteSet(rows) /\ rows \subseteq AnyRow
  BY PostedRows
<1>2. s \in Seq(rows) /\ ToSet(s) \subseteq rows
  BY <1>1, OrderedRows
<1> QED BY <1>1, <1>2

\* A tier without hits.
LEMMA NoHits == <<>> \in Seq(AnyRow) /\ ToSet(<<>>) = {}
  BY DEF ToSet

\* A page has a hit, and the tool asks for more than nothing.
LEMMA BudgetPositive ==
    PageSize \in Nat \ {0} /\ Budget \in Nat \ {0} /\ 2 * Budget \in Nat \ {0}
<1>1. PageSize \in Nat \ {0}
  BY PageAssumption DEF PageSize
<1> DEFINE a == 2 * PageLimit + 1
           b == ConciseHits + 1
<1>2. a \in Nat \ {0} /\ b \in Nat \ {0}
  BY PageAssumption
<1>3. Budget = Max({a, b})
  BY DEF Budget
<1> HIDE DEF a, b
<1>4. Budget \in Nat \ {0}
  BY <1>2, <1>3, MinMax
<1> QED BY <1>1, <1>4

\* The hits of the metadata tier are rows of files, whichever predicate it answers.
LEMMA MetadataRows ==
    ASSUME StoreInv, NEW p, NEW tier \in MetadataTier(p)
    PROVE  tier \in Seq(AnyRow) /\ ToSet(tier) \subseteq Posted
<1> DEFINE q == AsQuery(p, Budget)
           columns == <<"mid", "fixes", "file", "author">>
           first == Select(columns, p.by)
           answers == CASE first[1] = "mid"    -> FetchAnswers(useOver, q)
                        [] first[1] = "fixes"  -> CitationAnswers(useOver, q, FALSE)
                        [] first[1] = "file"   -> ActivityAnswers(useOver, q, {"file"})
                        [] first[1] = "author" -> EqAnswers(useOver, q, "author")
<1>1. Ordinary(q) /\ Ordinary(Widened(q))
  BY Asked, BudgetPositive, Wider
<1>2. first # <<>> => first[1] \in {"mid", "fixes", "file", "author"}
  <2> DEFINE names == {"mid", "fixes", "file", "author"}
  <2>1. columns \in Seq(names)
    OBVIOUS
  <2> HIDE DEF columns, names
  <2>2. first \in Seq(names)
    BY <2>1, SelectRows
  <2> HIDE DEF first
  <2>3. first # <<>> => first[1] \in names
    BY <2>2
  <2> QED BY <2>3 DEF names
<1> HIDE DEF q
<1>3. ASSUME first # <<>>, NEW rows \in answers PROVE rows \subseteq Posted
  <2> HIDE DEF first
  <2>1. CASE first[1] = "mid"
    <3>1. rows \in FetchAnswers(useOver, q)
      BY <1>3, <2>1
    <3> QED BY <3>1, FetchRows
  <2>2. CASE first[1] = "fixes"
    <3>1. rows \in CitationAnswers(useOver, q, FALSE)
      BY <1>3, <2>2
    <3> QED BY <1>1, <3>1, CitationRows
  <2>3. CASE first[1] = "file"
    <3>1. rows \in ActivityAnswers(useOver, q, {"file"}) /\ {"file"} \in SUBSET {"file", "func"}
      BY <1>3, <2>3
    <3> QED BY <1>1, <3>1, ActivityFits DEF Fits
  <2>4. CASE first[1] = "author"
    <3>1. rows \in EqAnswers(useOver, q, "author")
      BY <1>3, <2>4
    <3> QED BY <1>1, <3>1, EqRows
  <2> QED BY <1>2, <1>3, <2>1, <2>2, <2>3, <2>4
<1>4. \/ tier = <<>>
      \/ \E rows \in ListAnswers(useOver, Widened(q)) :
           tier \in SetToSeqs(rows) \/ tier = Select(Walk, rows)
      \/ first # <<>> /\ \E rows \in answers : tier \in SetToSeqs(rows)
  <2> HIDE DEF first, answers
  <2>1. tier \in LET bounded == p.list # Absent \/ p.since # Absent \/ p.until # Absent
                     Ordered(some) == UNION {Sorted(rows, Newer) : rows \in some}
                 IN CASE first = <<>> /\ (p.patch \/ p.text \/ ~bounded) -> {<<>>}
                      [] first = <<>> -> IF useOver /\ p.list # Absent
                                         THEN Ordered(ListAnswers(useOver, Widened(q)))
                                         ELSE {Select(Walk, rows) : rows \in
                                                 ListAnswers(useOver, Widened(q))}
                      [] OTHER -> Ordered(answers)
    BY DEF MetadataTier, q, first, answers, columns
  <2> QED BY <2>1 DEF Sorted
<1> HIDE DEF answers, first
<1>5. CASE tier = <<>>
  BY <1>5, NoHits
<1>6. ASSUME NEW rows \in ListAnswers(useOver, Widened(q)),
             tier \in SetToSeqs(rows) \/ tier = Select(Walk, rows)
      PROVE  tier \in Seq(AnyRow) /\ ToSet(tier) \subseteq Posted
  <2>1. rows \subseteq Posted
    BY <1>1, ListFits DEF Fits
  <2>2. CASE tier \in SetToSeqs(rows)
    BY <2>1, <2>2, OrderedPosted
  <2>3. CASE tier = Select(Walk, rows)
    <3>1. Select(Walk, rows) \in Seq(AnyRow) /\ ToSet(Select(Walk, rows)) = ToSet(Walk) \cap rows
      BY WalkRows, SelectRows
    <3> QED BY <2>1, <2>3, <3>1
  <2> QED BY <1>6, <2>2, <2>3
<1>7. ASSUME first # <<>>, NEW rows \in answers, tier \in SetToSeqs(rows)
      PROVE  tier \in Seq(AnyRow) /\ ToSet(tier) \subseteq Posted
  BY <1>3, <1>7, OrderedPosted
<1> QED BY <1>4, <1>5, <1>6, <1>7

\* So are those of the trigram tier.
LEMMA TrigramRows ==
    ASSUME StoreInv, NEW p, NEW candidates, NEW tier \in TrigramTier(p, candidates)
    PROVE  tier \in Seq(AnyRow) /\ ToSet(tier) \subseteq Posted
<1>1. \/ tier = <<>>
      \/ \E rows \in PatchAnswers(useOver, AsQuery(p, Budget), candidates) :
           tier \in SetToSeqs(rows)
  BY DEF TrigramTier, Sorted
<1>2. ASSUME NEW rows \in PatchAnswers(useOver, AsQuery(p, Budget), candidates),
             tier \in SetToSeqs(rows)
      PROVE  tier \in Seq(AnyRow) /\ ToSet(tier) \subseteq Posted
  <2>1. Ordinary(AsQuery(p, Budget))
    BY Asked, BudgetPositive
  <2>2. rows \subseteq Posted
    BY <2>1, PatchRows
  <2> QED BY <1>2, <2>2, OrderedPosted
<1> QED BY <1>1, <1>2, NoHits

\* And those of the BM25 tier.
LEMMA BM25Rows ==
    ASSUME StoreInv, NEW p, NEW fresh, NEW tier \in BM25Tier(p, fresh)
    PROVE  tier \in Seq(AnyRow) /\ ToSet(tier) \subseteq Posted
<1>1. \/ tier = <<>>
      \/ \E rows \in ProseAnswers(useOver, AsQuery(p, 2 * Budget)) : tier \in SetToSeqs(rows)
  BY DEF BM25Tier, Sorted
<1>2. ASSUME NEW rows \in ProseAnswers(useOver, AsQuery(p, 2 * Budget)),
             tier \in SetToSeqs(rows)
      PROVE  tier \in Seq(AnyRow) /\ ToSet(tier) \subseteq Posted
  BY <1>2, ProseRows, OrderedPosted
<1> QED BY <1>1, <1>2, NoHits

------------------------------------------------------------------------------
(* The fusion. *)

\* The answers of three tiers; their rows with the ranks; the hits made of them.
Typed(tiers) == \A t \in {1, 2, 3} : tiers[t] \in Seq(AnyRow)
MetRow == [row : AnyRow, rank : Nat]
AHit == [row : AnyRow, mid : Mids, score : Nat]

LEMMA MetRows ==
    ASSUME NEW tiers, Typed(tiers), NEW order \in Orders
    PROVE  Met(tiers, order) \in Seq(MetRow)
<1>1. ASSUME NEW tier \in Seq(AnyRow) PROVE Ranked(tier) \in Seq(MetRow)
  <2>1. DOMAIN tier = 1 .. Len(tier) /\ Len(tier) \in Nat
    OBVIOUS
  <2>2. \A n \in 1 .. Len(tier) : tier[n] \in AnyRow /\ n \in Nat
    OBVIOUS
  <2>3. Ranked(tier) \in [1 .. Len(tier) -> MetRow]
    BY <2>1, <2>2 DEF Ranked, MetRow
  <2> QED BY <2>1, <2>3
<1>2. order[1] \in {1, 2, 3} /\ order[2] \in {1, 2, 3} /\ order[3] \in {1, 2, 3}
  BY DEF Orders
<1> DEFINE a == Ranked(tiers[order[1]])
           b == Ranked(tiers[order[2]])
           c == Ranked(tiers[order[3]])
<1>3. a \in Seq(MetRow) /\ b \in Seq(MetRow) /\ c \in Seq(MetRow)
  BY <1>1, <1>2 DEF Typed
<1>4. Met(tiers, order) = a \o b \o c
  BY DEF Met
<1> HIDE DEF a, b, c
<1>5. a \o b \in Seq(MetRow)
  BY <1>3
<1> QED BY <1>3, <1>4, <1>5

\* A float of the model is a natural number.
LEMMA Floats ==
    /\ \A x \in Nat : Rounded(x) \in Nat
    /\ \A rank \in Nat : Contribution(rank) \in Nat
<1>1. \A x \in Nat : Ulp(x) \in {1, 2, 4, 8}
  BY DEF Ulp
<1>2. ASSUME NEW x \in Nat PROVE Rounded(x) \in Nat
  <2> DEFINE u == Ulp(x)
             more == 2 * (x % u) > u \/ (2 * (x % u) = u /\ (x \div u) % 2 = 1)
  <2>1. u \in {1, 2, 4, 8}
    BY <1>1
  <2>2. Rounded(x) = u * (x \div u) + (IF more THEN u ELSE 0)
    BY DEF Rounded
  <2> HIDE DEF u, more
  <2>3. x \div u \in Nat
    BY <2>1
  <2>4. u * (x \div u) \in Nat
    BY <2>1, <2>3
  <2> QED BY <2>1, <2>2, <2>4
<1>3. ASSUME NEW rank \in Nat PROVE Contribution(rank) \in Nat
  <2> DEFINE u == Ulp(1073741824 \div (RrfK + rank))
             d == u * (RrfK + rank)
             n == 1073741824 + (d \div 2)
  <2>0. 1073741824 \div (RrfK + rank) \in Nat
    BY DEF RrfK
  <2>1. u \in {1, 2, 4, 8}
    BY <1>1, <2>0
  <2>2. Contribution(rank) = u * (n \div d)
    BY DEF Contribution
  <2> HIDE DEF u
  <2>3. d \in Nat \ {0}
    BY <2>1 DEF RrfK
  <2> HIDE DEF d
  <2>4. n \in Nat
    BY <2>3
  <2> HIDE DEF n
  <2>5. n \div d \in Nat
    BY <2>3, <2>4
  <2> QED BY <2>1, <2>2, <2>5
<1> QED BY <1>2, <1>3

\* So is the score of a message, which adds them up.
LEMMA ScoreNat ==
    ASSUME NEW met \in Seq(MetRow), NEW m
    PROVE  Score(met, m) \in Nat
<1> DEFINE k == Len(met)
           Next(n, x) == IF met[n].row.mid # m THEN x
                         ELSE Rounded(x + Contribution(met[n].rank))
           step == [n \in 1 .. k |-> [x \in Nat |-> Next(n, x)]]
           Body(f) == [n \in 0 .. k |->
                         CASE n = 0 -> 0
                           [] n > 0 /\ met[n].row.mid # m -> f[n - 1]
                           [] OTHER -> Rounded(f[n - 1] + Contribution(met[n].rank))]
           sum == CHOOSE f : f = Body(f)
<1>1. k \in Nat /\ \A n \in 1 .. k : met[n].rank \in Nat
  <2>1. k \in Nat /\ \A n \in 1 .. k : met[n] \in MetRow
    OBVIOUS
  <2>2. \A r \in MetRow : r.rank \in Nat
    BY DEF MetRow
  <2> QED BY <2>1, <2>2
<1>2. step \in [1 .. k -> [Nat -> Nat]]
  <2>1. ASSUME NEW n \in 1 .. k, NEW x \in Nat PROVE Next(n, x) \in Nat
    <3>1. Contribution(met[n].rank) \in Nat
      BY <1>1, Floats
    <3>2. x + Contribution(met[n].rank) \in Nat
      BY <3>1
    <3> QED BY <3>2, Floats
  <2> HIDE DEF Next
  <2> QED BY <2>1
<1>3. PICK f \in [0 .. k -> Nat] : Recurs(f, 0, k, step)
  <2> HIDE DEF step, k
  <2>1. step \in Turns(Nat, k)
    BY <1>2 DEF Turns
  <2> QED BY <1>1, <2>1, Recursion
<1>4. f = Body(f)
  <2>1. f[0] = 0 /\ \A n \in 1 .. k : f[n] = step[n][f[n - 1]]
    BY <1>3 DEF Recurs
  <2>2. ASSUME NEW n \in 0 .. k, n # 0
        PROVE  n \in 1 .. k /\ n > 0 /\ f[n] = Next(n, f[n - 1])
    <3>1. n \in 1 .. k /\ n - 1 \in 0 .. k /\ n > 0
      BY <2>2, <1>1
    <3>2. f[n - 1] \in Nat
      BY <3>1
    <3> HIDE DEF Next
    <3> QED BY <2>1, <3>1, <3>2
  <2>3. ASSUME NEW n \in 0 .. k
        PROVE  f[n] = CASE n = 0 -> 0
                        [] n > 0 /\ met[n].row.mid # m -> f[n - 1]
                        [] OTHER -> Rounded(f[n - 1] + Contribution(met[n].rank))
    <3>1. CASE n = 0
      BY <2>1, <3>1
    <3>2. CASE n # 0
      BY <2>2, <3>2
    <3> QED BY <3>1, <3>2
  <2> HIDE DEF step
  <2> QED BY <2>3
<1>5. sum = Body(sum)
  <2> HIDE DEF Body
  <2> QED BY <1>4
<1>6. Score(met, m) = sum[k]
  BY DEF Score
<1> DEFINE T == {n \in 0 .. k : sum[n] \in Nat}
<1> HIDE DEF sum
<1>7. 0 \in T
  BY <1>1, <1>5
<1>8. ASSUME NEW n \in 0 .. k, n < k, n \in T PROVE n + 1 \in T
  <2>1. n + 1 \in 1 .. k /\ n + 1 \in 0 .. k /\ n + 1 # 0 /\ n + 1 > 0 /\ (n + 1) - 1 = n
    BY <1>1, <1>8
  <2>2. sum[n + 1] = Next(n + 1, sum[n])
    BY <1>5, <2>1
  <2>3. sum[n] \in Nat /\ Contribution(met[n + 1].rank) \in Nat
    BY <1>1, <1>8, <2>1, Floats
  <2>4. sum[n] + Contribution(met[n + 1].rank) \in Nat
    BY <2>3
  <2>5. Next(n + 1, sum[n]) \in Nat
    BY <2>3, <2>4, Floats
  <2> QED BY <2>1, <2>2, <2>5
<1>9. k \in T
  <2> HIDE DEF T, k
  <2>1. 0 .. k \subseteq T
    BY <1>1, <1>7, <1>8, InductTo
  <2> QED BY <2>1, <1>1
<1> QED BY <1>6, <1>9

\* The hits: finitely many, one of each message.
LEMMA HitsTyped ==
    ASSUME NEW met \in Seq(MetRow)
    PROVE  /\ IsFiniteSet(Hits(met)) /\ Hits(met) \subseteq AHit
           /\ \A h, g \in Hits(met) : h.mid = g.mid => h = g
<1> DEFINE places(m) == {n \in DOMAIN met : met[n].row.mid = m}
           Hit(m) == [row |-> met[Min(places(m))].row, mid |-> m, score |-> Score(met, m)]
           named(r) == r.row.mid
           rows == ToSet(met)
           f == [r \in rows |-> Hit(r.row.mid)]
<1>1. DOMAIN met = 1 .. Len(met) /\ Len(met) \in Nat
      /\ \A n \in DOMAIN met : met[n].row \in AnyRow /\ met[n].row.mid \in Mids
  <2>1. DOMAIN met = 1 .. Len(met) /\ Len(met) \in Nat /\ \A n \in DOMAIN met : met[n] \in MetRow
    OBVIOUS
  <2>2. \A r \in MetRow : r.row \in AnyRow /\ r.row.mid \in Mids
    BY DEF MetRow, AnyRow
  <2> QED BY <2>1, <2>2
<1>2. ASSUME NEW n \in DOMAIN met PROVE Hit(met[n].row.mid) \in AHit
  <2> DEFINE m == met[n].row.mid
             least == Min(places(m))
  <2>1. places(m) \in SUBSET Nat /\ n \in places(m)
    BY <1>1
  <2>2. least \in places(m)
    <3> HIDE DEF places
    <3>1. \E x \in places(m) : \A y \in places(m) : x <= y
      BY <2>1, NatMin
    <3> QED BY <3>1 DEF Min
  <2>3. met[least].row \in AnyRow
    BY <1>1, <2>2
  <2>4. m \in Mids /\ Score(met, m) \in Nat
    BY <1>1, ScoreNat
  <2> HIDE DEF m, least
  <2>5. [row |-> met[least].row, mid |-> m, score |-> Score(met, m)] \in AHit
    BY <2>3, <2>4 DEF AHit
  <2> QED BY <2>5 DEF least, m
<1>3. Hits(met) = {Hit(m) : m \in {met[n].row.mid : n \in DOMAIN met}}
  BY DEF Hits
<1>4. \A m : Hit(m).mid = m
  OBVIOUS
<1> HIDE DEF Hit
<1>5. \A h : h \in Hits(met) <=> \E n \in DOMAIN met : h = Hit(met[n].row.mid)
  BY <1>3
<1>6. f \in Surjection(rows, Hits(met))
  <2>1. ASSUME NEW r \in rows PROVE f[r] \in Hits(met)
    BY <1>5, <2>1 DEF ToSet
  <2>2. ASSUME NEW h \in Hits(met) PROVE \E r \in rows : f[r] = h
    <3>1. PICK n \in DOMAIN met : h = Hit(met[n].row.mid)
      BY <1>5
    <3>2. met[n] \in rows
      BY DEF ToSet
    <3> QED BY <3>1, <3>2
  <2> QED BY <2>1, <2>2 DEF Surjection
<1>7. IsFiniteSet(Hits(met))
  <2>1. IsFiniteSet(rows)
    BY RowsFinite
  <2> HIDE DEF f, rows
  <2> QED BY <1>6, <2>1, FS_Surjection
<1>8. Hits(met) \subseteq AHit
  BY <1>2, <1>5
<1>9. \A h, g \in Hits(met) : h.mid = g.mid => h = g
  BY <1>4, <1>5
<1> QED BY <1>7, <1>8, <1>9

\* Hits that are in a sequence once, and one of each message.
Ranking(hits) ==
    /\ hits \in Seq(AHit)
    /\ IsInjective(hits)
    /\ \A h, g \in ToSet(hits) : h.mid = g.mid => h = g

\* The highest first.
InOrder(hits) == \A i, j \in 1 .. Len(hits) : i < j => hits[i].score >= hits[j].score

\* The hits that a filter keeps, and the first of them, are such too.
LEMMA RankingSelect ==
    ASSUME NEW hits, Ranking(hits), NEW keep
    PROVE  /\ Ranking(Select(hits, keep)) /\ ToSet(Select(hits, keep)) = ToSet(hits) \cap keep
           /\ InOrder(hits) => InOrder(Select(hits, keep))
<1>1. hits \in Seq(AHit)
  BY DEF Ranking
<1>2. /\ Select(hits, keep) \in Seq(AHit)
      /\ ToSet(Select(hits, keep)) = ToSet(hits) \cap keep
  BY <1>1, SelectRows
<1>3. IsInjective(Select(hits, keep))
  BY <1>1, SelectDistinct DEF Ranking
<1>4. ASSUME InOrder(hits) PROVE InOrder(Select(hits, keep))
  <2> DEFINE R == {pair \in AHit \X AHit : pair[1].score >= pair[2].score}
  <2>1. \A i, j \in 1 .. Len(hits) : i < j => <<hits[i], hits[j]>> \in R
    BY <1>1, <1>4 DEF InOrder
  <2>2. \A h, g : <<h, g>> \in R => h.score >= g.score
    OBVIOUS
  <2> HIDE DEF R
  <2>3. \A i, j \in 1 .. Len(Select(hits, keep)) :
          i < j => <<Select(hits, keep)[i], Select(hits, keep)[j]>> \in R
    BY <1>1, <2>1, SelectInOrder
  <2> QED BY <2>2, <2>3 DEF InOrder
<1> QED BY <1>2, <1>3, <1>4 DEF Ranking

LEMMA RankingFirst ==
    ASSUME NEW hits, Ranking(hits), NEW n \in Nat
    PROVE  /\ Ranking(FirstN(hits, n)) /\ ToSet(FirstN(hits, n)) \subseteq ToSet(hits)
           /\ InOrder(hits) => InOrder(FirstN(hits, n))
<1>1. hits \in Seq(AHit)
  BY DEF Ranking
<1>2. /\ FirstN(hits, n) \in Seq(AHit) /\ ToSet(FirstN(hits, n)) \subseteq ToSet(hits)
  BY <1>1, FirstNKeeps
<1>3. IsInjective(FirstN(hits, n))
  BY <1>1, FirstNDistinct DEF Ranking
<1>4. \A i \in 1 .. Len(FirstN(hits, n)) : i \in 1 .. Len(hits) /\ FirstN(hits, n)[i] = hits[i]
  BY <1>1, FirstNRows
<1>5. InOrder(hits) => InOrder(FirstN(hits, n))
  BY <1>4 DEF InOrder
<1> QED BY <1>2, <1>3, <1>5 DEF Ranking

\* An order of some hits, the highest first.
Ordering(F, hits) == Ranking(hits) /\ InOrder(hits) /\ ToSet(hits) = F

\* The fusion puts the hits of an order of the tiers in such an order.
LEMMA FusedRanking ==
    ASSUME NEW tiers, Typed(tiers), NEW hits \in Fused(tiers)
    PROVE  \E order \in Orders : Ordering(Hits(Met(tiers, order)), hits)
<1>1. PICK order \in Orders : hits \in Sorted(Hits(Met(tiers, order)), Higher)
  BY DEF Fused
<1> DEFINE F == Hits(Met(tiers, order))
<1>2. IsFiniteSet(F) /\ F \subseteq AHit /\ \A h, g \in F : h.mid = g.mid => h = g
  BY MetRows, HitsTyped
<1>3. hits \in SetToSeqs(F) /\ \A i, j \in DOMAIN hits : i < j => ~Higher(hits[j], hits[i])
  BY <1>1 DEF Sorted
<1> HIDE DEF F
<1>4. hits \in Seq(F) /\ IsInjective(hits) /\ ToSet(hits) = F
  BY <1>2, <1>3, OrderedRows
<1>5. hits \in Seq(AHit)
  BY <1>2, <1>4
<1>6. InOrder(hits)
  <2> SUFFICES ASSUME NEW i \in 1 .. Len(hits), NEW j \in 1 .. Len(hits), i < j
               PROVE  hits[i].score >= hits[j].score
    BY DEF InOrder
  <2>1. ~(hits[j].score > hits[i].score)
    BY <1>3, <1>5 DEF Higher
  <2>2. hits[i] \in AHit /\ hits[j] \in AHit
    BY <1>5
  <2>3. hits[i].score \in Nat /\ hits[j].score \in Nat
    BY <2>2 DEF AHit
  <2> QED BY <2>1, <2>3
<1>7. Ordering(F, hits)
  BY <1>2, <1>4, <1>5, <1>6 DEF Ordering, Ranking
<1> QED BY <1>7 DEF F

------------------------------------------------------------------------------
(* What two answers of the router have in common. *)

\* The hits of F that score at least as much as x.
AtLeast(F, x) == {y \in F : y.score >= x.score}

\* As many as n hits are first in an order if no more of them score so much.
LEMMA SureFirst ==
    ASSUME NEW F, NEW hits, Ordering(F, hits), NEW n \in Nat,
           NEW x \in F, Cardinality(AtLeast(F, x)) <= n
    PROVE  x \in ToSet(FirstN(hits, n))
<1>1. /\ hits \in Seq(AHit) /\ IsInjective(hits) /\ InOrder(hits)
      /\ ToSet(hits) = F /\ Len(hits) \in Nat
  BY DEF Ordering, Ranking
<1>2. PICK k \in 1 .. Len(hits) : hits[k] = x
  BY <1>1, RowAt
<1> DEFINE ahead == FirstN(hits, k)
<1>3. /\ ahead \in Seq(AHit) /\ Len(ahead) = k /\ IsInjective(ahead)
      /\ \A i \in 1 .. k : ahead[i] = hits[i]
  <2>1. k \in Nat /\ ~(Len(hits) < k)
    BY <1>1
  <2> QED BY <1>1, <2>1, FirstNRows, FirstNDistinct
<1>4. ToSet(ahead) \subseteq F
  BY <1>1, FirstNKeeps
<1> HIDE DEF ahead
<1>5. \A y \in F : y.score \in Nat
  <2>1. \A h \in AHit : h.score \in Nat
    BY DEF AHit
  <2> QED BY <1>1, <2>1, RowAt
<1>6. ToSet(ahead) \in SUBSET AtLeast(F, x)
  <2> SUFFICES ASSUME NEW y \in ToSet(ahead) PROVE y \in AtLeast(F, x)
    OBVIOUS
  <2>1. PICK i \in 1 .. k : hits[i] = y
    BY <1>3, RowAt
  <2>2. i < k \/ i = k
    BY <1>1
  <2>3. y.score >= x.score
    BY <1>1, <1>2, <1>5, <2>1, <2>2 DEF InOrder
  <2> QED BY <1>4, <2>3 DEF AtLeast
<1>7. IsFiniteSet(AtLeast(F, x))
  <2>1. IsFiniteSet(F) /\ AtLeast(F, x) \in SUBSET F
    BY <1>1, RowsFinite DEF AtLeast
  <2> QED BY <2>1, FS_Subset
<1>8. /\ Cardinality(ToSet(ahead)) = k /\ k \in Nat
      /\ Cardinality(ToSet(ahead)) <= Cardinality(AtLeast(F, x))
      /\ Cardinality(AtLeast(F, x)) \in Nat
  BY <1>3, <1>6, <1>7, DistinctCount, FS_Subset, FS_CardinalityType
<1>9. k <= n
  BY <1>8
<1>10. /\ FirstN(hits, n) \in Seq(AHit)
       /\ Len(FirstN(hits, n)) = IF Len(hits) < n THEN Len(hits) ELSE n
       /\ \A i \in 1 .. Len(FirstN(hits, n)) : FirstN(hits, n)[i] = hits[i]
  BY <1>1, FirstNRows
<1>11. k \in 1 .. Len(FirstN(hits, n))
  BY <1>1, <1>9, <1>10
<1> QED BY <1>2, <1>10, <1>11, RowAt

\* No more than n hits score as much as one that outscores one of the first n.
LEMMA Outscored ==
    ASSUME NEW F, NEW hits, Ordering(F, hits), NEW n \in Nat,
           NEW c \in ToSet(FirstN(hits, n)), NEW x \in F, x.score > c.score
    PROVE  Cardinality(AtLeast(F, x)) <= n
<1>1. /\ hits \in Seq(AHit) /\ InOrder(hits) /\ ToSet(hits) = F /\ Len(hits) \in Nat
  BY DEF Ordering, Ranking
<1>2. /\ FirstN(hits, n) \in Seq(AHit)
      /\ Len(FirstN(hits, n)) = IF Len(hits) < n THEN Len(hits) ELSE n
      /\ \A i \in 1 .. Len(FirstN(hits, n)) : FirstN(hits, n)[i] = hits[i]
  BY <1>1, FirstNRows
<1>3. PICK j \in 1 .. Len(FirstN(hits, n)) : hits[j] = c
  BY <1>2, RowAt
<1>4. j \in 1 .. Len(hits) /\ j <= n /\ j \in Nat
  BY <1>1, <1>2, <1>3
<1> DEFINE ahead == FirstN(hits, j)
<1>5. /\ ahead \in Seq(AHit) /\ Len(ahead) = j /\ \A i \in 1 .. j : ahead[i] = hits[i]
  <2>1. ~(Len(hits) < j)
    BY <1>1, <1>4
  <2> QED BY <1>1, <1>4, <2>1, FirstNRows
<1> HIDE DEF ahead
<1>6. \A y \in F : y.score \in Nat
  <2>1. \A h \in AHit : h.score \in Nat
    BY DEF AHit
  <2> QED BY <1>1, <2>1, RowAt
<1>7. AtLeast(F, x) \in SUBSET ToSet(ahead)
  <2> SUFFICES ASSUME NEW y \in F, y.score >= x.score PROVE y \in ToSet(ahead)
    BY DEF AtLeast
  <2>1. PICK i \in 1 .. Len(hits) : hits[i] = y
    BY <1>1, RowAt
  <2>2. c \in F
    BY <1>1, <1>3, <1>4, RowAt
  <2>3. y.score > c.score /\ ~(c.score >= y.score)
    BY <1>6, <2>2
  <2>4. ~(j < i)
    BY <1>1, <1>3, <1>4, <2>1, <2>3 DEF InOrder
  <2>5. i \in 1 .. j
    BY <1>4, <2>4
  <2> QED BY <1>5, <2>1, <2>5, RowAt
<1>8. IsFiniteSet(ToSet(ahead)) /\ Cardinality(ToSet(ahead)) <= j
      /\ Cardinality(ToSet(ahead)) \in Nat
  BY <1>5, RowsFinite
<1>9. /\ Cardinality(AtLeast(F, x)) <= Cardinality(ToSet(ahead))
      /\ Cardinality(AtLeast(F, x)) \in Nat
  BY <1>7, <1>8, FS_Subset, FS_CardinalityType
<1> QED BY <1>4, <1>8, <1>9

\* The first hits of F that pass the filters, of a fetch of two budgets.
Best(p, F, hits) ==
    /\ Ranking(hits) /\ InOrder(hits) /\ Len(hits) <= Budget
    /\ \A h \in ToSet(hits) : h \in F /\ PostFilter(p, h)
    /\ \A x \in F, c \in ToSet(hits) :
         PostFilter(p, x) /\ x.score > c.score =>
           x \in ToSet(hits) /\ Cardinality(AtLeast(F, x)) <= 2 * Budget
    /\ Len(hits) < Budget =>
         \A x \in F : PostFilter(p, x) /\ Cardinality(AtLeast(F, x)) <= 2 * Budget =>
           x \in ToSet(hits)

\* What the router answers.
LEMMA DispatchBest ==
    ASSUME NEW p, NEW tiers, Typed(tiers), NEW hits \in Dispatch(p, tiers)
    PROVE  \E order \in Orders : Best(p, Hits(Met(tiers, order)), hits)
<1>1. PICK fused \in Fused(tiers) :
           hits = FirstN(Select(FirstN(fused, 2 * Budget),
                                {hit \in ToSet(fused) : PostFilter(p, hit)}), Budget)
  BY DEF Dispatch
<1>2. PICK order \in Orders : Ordering(Hits(Met(tiers, order)), fused)
  BY FusedRanking
<1> DEFINE F == Hits(Met(tiers, order))
           kept == {hit \in ToSet(fused) : PostFilter(p, hit)}
           some == FirstN(fused, 2 * Budget)
           passed == Select(some, kept)
<1>3. Ordering(F, fused) /\ hits = FirstN(passed, Budget)
  BY <1>1, <1>2
<1> HIDE DEF F
<1>4. Budget \in Nat /\ 2 * Budget \in Nat
  BY BudgetPositive
<1>5. Ranking(fused) /\ InOrder(fused) /\ ToSet(fused) = F
  BY <1>3 DEF Ordering
<1>6. \A h : h \in kept <=> h \in F /\ PostFilter(p, h)
  BY <1>5
<1> HIDE DEF kept
<1>7. Ranking(some) /\ InOrder(some) /\ ToSet(some) \subseteq F
  BY <1>4, <1>5, RankingFirst
<1>8. Ranking(passed) /\ InOrder(passed) /\ ToSet(passed) = ToSet(some) \cap kept
  <2> HIDE DEF some
  <2> QED BY <1>7, RankingSelect
<1>9. ASSUME NEW x \in F, NEW c \in ToSet(some), x.score > c.score
      PROVE  Cardinality(AtLeast(F, x)) <= 2 * Budget /\ x \in ToSet(some)
  <2>1. Cardinality(AtLeast(F, x)) <= 2 * Budget
    BY <1>3, <1>4, <1>9, Outscored
  <2> QED BY <1>3, <1>4, <2>1, SureFirst
<1>10. ASSUME NEW x \in F, Cardinality(AtLeast(F, x)) <= 2 * Budget PROVE x \in ToSet(some)
  BY <1>3, <1>4, <1>10, SureFirst
<1> HIDE DEF some
<1>11. Ordering(ToSet(passed), passed)
  BY <1>8 DEF Ordering
<1> HIDE DEF passed
<1>12. /\ Ranking(hits) /\ InOrder(hits) /\ ToSet(hits) \subseteq ToSet(passed)
  BY <1>3, <1>4, <1>8, RankingFirst
<1>13. /\ Len(hits) = IF Len(passed) < Budget THEN Len(passed) ELSE Budget
       /\ Len(passed) <= Budget => hits = passed
       /\ Len(passed) \in Nat
  BY <1>3, <1>4, <1>8, FirstNRows DEF Ranking
<1>14. Len(hits) <= Budget
  BY <1>4, <1>13
<1>15. \A h \in ToSet(hits) : h \in F /\ PostFilter(p, h)
  BY <1>6, <1>7, <1>8, <1>12
<1>16. ASSUME NEW x \in F, NEW c \in ToSet(hits), PostFilter(p, x), x.score > c.score
       PROVE  x \in ToSet(hits) /\ Cardinality(AtLeast(F, x)) <= 2 * Budget
  <2>1. c \in ToSet(some) /\ c \in ToSet(FirstN(passed, Budget))
    BY <1>3, <1>8, <1>12, <1>16
  <2>2. Cardinality(AtLeast(F, x)) <= 2 * Budget /\ x \in ToSet(passed)
    BY <1>6, <1>8, <1>9, <1>16, <2>1
  <2>3. Cardinality(AtLeast(ToSet(passed), x)) <= Budget
    BY <1>4, <1>11, <1>16, <2>1, <2>2, Outscored
  <2>4. x \in ToSet(hits)
    BY <1>3, <1>4, <1>11, <2>2, <2>3, SureFirst
  <2> QED BY <2>2, <2>4
<1>17. ASSUME Len(hits) < Budget, NEW x \in F, PostFilter(p, x),
              Cardinality(AtLeast(F, x)) <= 2 * Budget
       PROVE  x \in ToSet(hits)
  <2>1. hits = passed
    BY <1>4, <1>13, <1>17
  <2> QED BY <1>6, <1>8, <1>10, <1>17, <2>1
<1>18. Best(p, F, hits)
  BY <1>12, <1>14, <1>15, <1>16, <1>17 DEF Best
<1> QED BY <1>18 DEF F

\* No two hits with the same score: each outscores the next ones.
LEMMA Untied ==
    ASSUME NEW hits, Ranking(hits), InOrder(hits), ~Tied(hits)
    PROVE  /\ \A i, j \in 1 .. Len(hits) : i < j => hits[i].score > hits[j].score
           /\ \A i \in 1 .. Len(hits) : hits[i].score \in Nat
           /\ \A i, j \in 1 .. Len(hits) : hits[i].score > hits[j].score => i < j
<1>1. hits \in Seq(AHit) /\ DOMAIN hits = 1 .. Len(hits) /\ Len(hits) \in Nat
  BY DEF Ranking
<1>2. \A i \in 1 .. Len(hits) : hits[i].score \in Nat
  <2>1. \A h \in AHit : h.score \in Nat
    BY DEF AHit
  <2> QED BY <1>1, <2>1
<1>3. \A i, j \in 1 .. Len(hits) : i < j => hits[i].score > hits[j].score
  BY <1>1, <1>2 DEF InOrder, Tied
<1>4. ASSUME NEW i \in 1 .. Len(hits), NEW j \in 1 .. Len(hits), hits[i].score > hits[j].score
      PROVE  i < j
  <2>1. i < j \/ i = j \/ j < i
    OBVIOUS
  <2>2. ~(hits[j].score > hits[i].score)
    BY <1>2, <1>4
  <2> QED BY <1>2, <1>3, <1>4, <2>1, <2>2
<1> QED BY <1>2, <1>3, <1>4

\* Two answers without ties to the same query, from the same hits, agree but for the
\* last hit of the first.
LEMMA Agree ==
    ASSUME NEW p, NEW F, NEW hits, NEW again, Best(p, F, hits), Best(p, F, again),
           ~Tied(hits), ~Tied(again)
    PROVE  \A i \in 1 .. Len(hits) - 1 : i \in 1 .. Len(again) /\ again[i] = hits[i]
<1>1. /\ Len(hits) \in Nat /\ Len(again) \in Nat /\ Budget \in Nat
      /\ Len(hits) <= Budget /\ Len(again) <= Budget
      /\ Ranking(hits) /\ InOrder(hits) /\ Ranking(again) /\ InOrder(again)
  BY BudgetPositive DEF Best, Ranking
<1>2. /\ \A x : x \in ToSet(hits) <=> \E i \in 1 .. Len(hits) : hits[i] = x
      /\ \A x : x \in ToSet(again) <=> \E i \in 1 .. Len(again) : again[i] = x
  BY <1>1, RowAt DEF Ranking
<1>3. /\ \A i, j \in 1 .. Len(hits) : i < j => hits[i].score > hits[j].score
      /\ \A i \in 1 .. Len(hits) : hits[i].score \in Nat
      /\ \A i, j \in 1 .. Len(hits) : hits[i].score > hits[j].score => i < j
  BY <1>1, Untied
<1>4. /\ \A i, j \in 1 .. Len(again) : i < j => again[i].score > again[j].score
      /\ \A i \in 1 .. Len(again) : again[i].score \in Nat
      /\ \A i, j \in 1 .. Len(again) : again[i].score > again[j].score => i < j
  BY <1>1, Untied
<1> DEFINE Same(i) == i \in 1 .. Len(again) /\ again[i] = hits[i]
           T == {n \in 0 .. Len(hits) : n < Len(hits) => \A i \in 1 .. n : Same(i)}
<1>5. 0 \in T
  BY <1>1
<1>6. ASSUME NEW n \in 0 .. Len(hits), n < Len(hits), n \in T PROVE n + 1 \in T
  <2> SUFFICES ASSUME n + 1 < Len(hits) PROVE n + 1 \in 0 .. Len(hits) /\ Same(n + 1)
    <3>1. \A i \in 1 .. n + 1 : i \in 1 .. n \/ i = n + 1
      BY <1>1
    <3> HIDE DEF Same
    <3> QED BY <1>1, <1>6, <3>1
  <2>1. \A i \in 1 .. n : Same(i)
    BY <1>6
  <2> DEFINE x == hits[n + 1]
             z == hits[n + 2]
  <2>2. n + 1 \in 1 .. Len(hits) /\ n + 2 \in 1 .. Len(hits) /\ n + 1 < n + 2
        /\ n \in Nat /\ \A i \in 1 .. n : i < n + 1 /\ i \in 1 .. Len(hits)
    BY <1>1, <1>6
  <2>3. x \in ToSet(hits) /\ z \in ToSet(hits) /\ x.score > z.score
    BY <1>2, <1>3, <2>2
  <2>4. x \in F /\ PostFilter(p, x) /\ Cardinality(AtLeast(F, x)) <= 2 * Budget
    BY <2>3 DEF Best
  <2>5. ASSUME x \in ToSet(again) PROVE \E k \in 1 .. Len(again) : k > n /\ again[k] = x
    <3>1. PICK k \in 1 .. Len(again) : again[k] = x
      BY <1>2, <2>5
    <3>2. CASE k \in 1 .. n
      <4>1. hits[k] = x /\ hits[k].score > x.score
        BY <1>3, <2>1, <2>2, <3>1, <3>2
      <4>2. x.score \in Nat
        BY <1>3, <2>2
      <4> QED BY <4>1, <4>2
    <3> QED BY <2>2, <3>1, <3>2
  <2>6. n + 1 \in 1 .. Len(again)
    <3> SUFFICES ASSUME ~(n + 1 <= Len(again)) PROVE FALSE
      BY <1>1, <2>2
    <3>1. Len(again) <= n /\ Len(again) < Budget
      BY <1>1, <2>2
    <3>2. x \in ToSet(again)
      BY <2>4, <3>1 DEF Best
    <3> QED BY <1>1, <2>2, <2>5, <3>1, <3>2
  <2> DEFINE y == again[n + 1]
  <2>7. y \in ToSet(again) /\ y \in F /\ PostFilter(p, y)
    BY <1>2, <2>6 DEF Best
  <2>8. x.score \in Nat /\ y.score \in Nat /\ z.score \in Nat
    BY <1>3, <1>4, <2>2, <2>6
  <2>9. ~(x.score > y.score)
    <3> SUFFICES ASSUME x.score > y.score PROVE FALSE
      OBVIOUS
    <3>1. x \in ToSet(again)
      BY <2>4, <2>7 DEF Best
    <3>2. PICK k \in 1 .. Len(again) : k > n /\ again[k] = x
      BY <2>5, <3>1
    <3>3. k < n + 1
      BY <1>4, <2>6, <3>2
    <3> QED BY <2>2, <3>2, <3>3
  <2>10. ASSUME y \in ToSet(hits) PROVE \E k \in 1 .. Len(hits) : k > n /\ hits[k] = y
    <3>1. PICK k \in 1 .. Len(hits) : hits[k] = y
      BY <1>2, <2>10
    <3>2. CASE k \in 1 .. n
      <4>1. again[k] = y /\ k \in 1 .. Len(again) /\ again[k].score > y.score
        BY <1>4, <2>1, <2>2, <2>6, <3>1, <3>2
      <4> QED BY <2>8, <4>1
    <3> QED BY <2>2, <3>1, <3>2
  <2>11. ~(y.score > x.score)
    <3> SUFFICES ASSUME y.score > x.score PROVE FALSE
      OBVIOUS
    <3>1. y \in ToSet(hits)
      BY <2>3, <2>7 DEF Best
    <3>2. PICK k \in 1 .. Len(hits) : k > n /\ hits[k] = y
      BY <2>10, <3>1
    <3>3. k < n + 1
      BY <1>3, <2>2, <3>2
    <3> QED BY <2>2, <3>2, <3>3
  <2>12. y.score = x.score /\ y.score > z.score
    BY <2>3, <2>8, <2>9, <2>11
  <2>13. PICK k \in 1 .. Len(hits) : k > n /\ hits[k] = y
    <3>1. y \in ToSet(hits)
      BY <2>3, <2>7, <2>12 DEF Best
    <3> QED BY <2>10, <3>1
  <2>14. k = n + 1
    <3>1. ~(n + 1 < k)
      BY <1>3, <2>2, <2>8, <2>12, <2>13
    <3> QED BY <2>2, <2>13, <3>1
  <2> QED BY <2>2, <2>6, <2>13, <2>14
<1>7. 0 .. Len(hits) \subseteq T
  <2> HIDE DEF T
  <2> QED BY <1>1, <1>5, <1>6, InductTo
<1>8. ASSUME NEW i \in 1 .. Len(hits) - 1 PROVE Same(i)
  <2>1. i \in 0 .. Len(hits) /\ i < Len(hits) /\ i \in 1 .. i
    BY <1>1
  <2>2. i \in T
    BY <1>7, <2>1
  <2> HIDE DEF Same
  <2> QED BY <2>1, <2>2
<1> QED BY <1>8

------------------------------------------------------------------------------
(* The pages. *)

\* A session with all its fields.
Fields(s) ==
    s = [at |-> s.at, p |-> s.p, fresh |-> s.fresh, cursor |-> s.cursor, page |-> s.page,
         served |-> s.served, found |-> s.found, tiers |-> s.tiers, steady |-> s.steady,
         tied |-> s.tied, moved |-> s.moved]

\* The messages of the first k hits, and of a page.
MidsTo(hits, k) == [i \in 1 .. k |-> hits[i].mid]
MidsOn(page) == [i \in DOMAIN page |-> page[i].mid]

\* Nothing was tied so far: the client has the first k hits of the last answer, all of
\* them or up to the cursor; of no answer, none.
Paged(s) ==
    s.steady /\ ~s.tied =>
      \E hits : \E k \in 0 .. Len(hits) :
        /\ Ranking(hits) /\ InOrder(hits) /\ ~Tied(hits)
        /\ s.served = MidsTo(hits, k)
        /\ s.found = {hits[i].mid : i \in DOMAIN hits}
        /\ s.at = "done" => k = Len(hits)
        /\ s.at = "more" =>
             /\ k \in 1 .. Len(hits) - 1 /\ s.cursor = Cursor(hits[k])
             /\ Typed(s.tiers) /\ ~Ambiguous(s.tiers) /\ hits \in Dispatch(s.p, s.tiers)

\* The query of the client, the page it was given last, and the pages so far.
SessionInv ==
    \/ session = NoSession
    \/ /\ Fields(session)
       /\ Ranking(session.page)
       /\ \A h \in ToSet(session.page) : PostFilter(session.p, h)
       /\ Paged(session)

\* The tiers answer with rows.
LEMMA TiersTyped ==
    ASSUME StoreInv, NEW p, NEW fresh, NEW few, NEW tiers \in Tiers(p, fresh, few)
    PROVE  Typed(tiers)
<1>1. /\ tiers[1] \in MetadataTier(p) /\ tiers[3] \in BM25Tier(p, fresh)
      /\ \E c \in few : tiers[2] \in TrigramTier(p, c)
  BY DEF Tiers
<1>2. tiers[1] \in Seq(AnyRow) /\ tiers[2] \in Seq(AnyRow) /\ tiers[3] \in Seq(AnyRow)
  BY <1>1, MetadataRows, TrigramRows, BM25Rows
<1> QED BY <1>2 DEF Typed

\* No message comes before itself.
LEMMA Irreflexive == \A m \in Mids : ~MidLess(m, m)
<1> SUFFICES ASSUME NEW m \in Mids PROVE ~MidLess(m, m)
  OBVIOUS
<1>1. MidOrder \in Seq(Mids) /\ m \in ToSet(MidOrder)
  BY OrderAssumption
<1>2. \E i \in DOMAIN MidOrder : MidOrder[i] = m
  BY <1>1 DEF ToSet
<1>3. Place(MidOrder, m) \in DOMAIN MidOrder
  BY <1>2 DEF Place
<1>4. Place(MidOrder, m) \in Nat
  BY <1>1, <1>3
<1> QED BY <1>4 DEF MidLess

\* After the cursor of the k-th hit are the hits that follow it.
LEMMA Following ==
    ASSUME NEW hits, Ranking(hits), InOrder(hits), ~Tied(hits), NEW k \in 1 .. Len(hits)
    PROVE  \A i \in 1 .. Len(hits) : After(Cursor(hits[k]), hits[i]) <=> i > k
<1> SUFFICES ASSUME NEW i \in 1 .. Len(hits)
             PROVE  After(Cursor(hits[k]), hits[i]) <=> i > k
  OBVIOUS
<1>1. /\ \A a, b \in 1 .. Len(hits) : a < b => hits[a].score > hits[b].score
      /\ \A a \in 1 .. Len(hits) : hits[a].score \in Nat
  BY Untied
<1>2. Cursor(hits[k]).score = hits[k].score /\ Cursor(hits[k]).mid = hits[k].mid
  BY DEF Cursor
<1>3. hits[k].mid \in Mids
  <2>1. \A h \in AHit : h.mid \in Mids
    BY DEF AHit
  <2>2. hits[k] \in AHit
    BY DEF Ranking
  <2> QED BY <2>1, <2>2
<1>4. CASE i < k
  BY <1>1, <1>2, <1>4 DEF After
<1>5. CASE i = k
  BY <1>1, <1>2, <1>3, <1>5, Irreflexive DEF After
<1>6. CASE i > k
  BY <1>1, <1>2, <1>6 DEF After
<1> QED BY <1>4, <1>5, <1>6

\* Those of the first k hits are k messages.
LEMMA MidsDistinct ==
    ASSUME NEW hits, Ranking(hits), NEW k \in 0 .. Len(hits)
    PROVE  /\ MidsTo(hits, k) \in Seq(Mids) /\ IsInjective(MidsTo(hits, k))
           /\ ToSet(MidsTo(hits, k)) = {hits[i].mid : i \in 1 .. k}
<1> DEFINE mids == MidsTo(hits, k)
<1>1. hits \in Seq(AHit) /\ Len(hits) \in Nat /\ DOMAIN hits = 1 .. Len(hits) /\ k \in Nat
      /\ \A i \in 1 .. k : i \in 1 .. Len(hits)
  BY DEF Ranking
<1>2. DOMAIN mids = 1 .. k /\ mids \in Seq(Mids) /\ \A i \in 1 .. k : mids[i] = hits[i].mid
  <2>1. \A h \in AHit : h.mid \in Mids
    BY DEF AHit
  <2>2. \A i \in 1 .. k : hits[i] \in AHit
    BY <1>1
  <2>3. mids \in [1 .. k -> Mids] /\ \A i \in 1 .. k : mids[i] = hits[i].mid
    BY <2>1, <2>2 DEF MidsTo
  <2> HIDE DEF mids
  <2> QED BY <1>1, <2>3
<1> HIDE DEF mids
<1>3. IsInjective(mids)
  <2>1. \A i, j \in 1 .. k : hits[i].mid = hits[j].mid => i = j
    <3>1. \A i \in 1 .. Len(hits) : hits[i] \in ToSet(hits)
      BY <1>1, RowAt
    <3> QED BY <1>1, <3>1 DEF Ranking, IsInjective
  <2> QED BY <1>2, <2>1 DEF IsInjective
<1>4. ToSet(mids) = {hits[i].mid : i \in 1 .. k}
  BY <1>2 DEF ToSet
<1> QED BY <1>2, <1>3, <1>4 DEF mids

\* The messages of some hits, and of those that follow.
LEMMA MidsJoin ==
    ASSUME NEW hits, Ranking(hits), NEW k \in 0 .. Len(hits), NEW n \in Nat,
           k + n <= Len(hits), NEW page, page \in Seq(AHit), Len(page) = n,
           \A i \in 1 .. n : page[i] = hits[k + i]
    PROVE  MidsTo(hits, k) \o MidsOn(page) = MidsTo(hits, k + n)
<1> DEFINE a == MidsTo(hits, k)
           b == MidsOn(page)
           c == MidsTo(hits, k + n)
<1>1. \A i \in 1 .. Len(hits) : hits[i].mid \in Mids
  <2>1. \A h \in AHit : h.mid \in Mids
    BY DEF AHit
  <2>2. \A i \in 1 .. Len(hits) : hits[i] \in AHit
    BY DEF Ranking
  <2> QED BY <2>1, <2>2
<1>2. k \in Nat /\ n \in Nat /\ Len(hits) \in Nat
  BY DEF Ranking
<1>3. a \in Seq(Mids) /\ Len(a) = k /\ \A i \in 1 .. k : a[i] = hits[i].mid
  <2>1. a \in [1 .. k -> Mids] /\ \A i \in 1 .. k : a[i] = hits[i].mid
    BY <1>1, <1>2 DEF MidsTo
  <2> HIDE DEF a
  <2> QED BY <1>2, <2>1
<1>4. b \in Seq(Mids) /\ Len(b) = n /\ \A i \in 1 .. n : b[i] = hits[k + i].mid
  <2>1. DOMAIN page = 1 .. n
    OBVIOUS
  <2>2. \A i \in 1 .. n : k + i \in 1 .. Len(hits)
    BY <1>2
  <2>3. b \in [1 .. n -> Mids] /\ \A i \in 1 .. n : b[i] = hits[k + i].mid
    BY <1>1, <2>1, <2>2 DEF MidsOn
  <2> HIDE DEF b
  <2> QED BY <1>2, <2>3
<1>5. c \in Seq(Mids) /\ Len(c) = k + n /\ \A i \in 1 .. k + n : c[i] = hits[i].mid
  <2>1. k + n \in Nat /\ \A i \in 1 .. k + n : i \in 1 .. Len(hits)
    BY <1>2
  <2>2. c \in [1 .. k + n -> Mids] /\ \A i \in 1 .. k + n : c[i] = hits[i].mid
    BY <1>1, <2>1 DEF MidsTo
  <2> HIDE DEF c
  <2> QED BY <2>1, <2>2
<1> HIDE DEF a, b, c
<1> DEFINE d == a \o b
<1>6. /\ d \in Seq(Mids) /\ Len(d) = k + n
      /\ \A i \in 1 .. k : d[i] = a[i]
      /\ \A i \in 1 .. n : d[k + i] = b[i]
  <2>1. a \in Seq(Mids) /\ b \in Seq(Mids) /\ Len(a) = k /\ Len(b) = n
    BY <1>3, <1>4
  <2>2. /\ a \o b \in Seq(Mids) /\ Len(a \o b) = Len(a) + Len(b)
        /\ \A i \in 1 .. Len(a) : (a \o b)[i] = a[i]
        /\ \A i \in 1 .. Len(b) : (a \o b)[Len(a) + i] = b[i]
    <3>1. a \in Seq(Mids) /\ b \in Seq(Mids)
      BY <2>1
    <3> QED BY <3>1
  <2> QED BY <2>1, <2>2
<1> HIDE DEF d
<1>7. ASSUME NEW i \in 1 .. k + n PROVE d[i] = c[i]
  <2>1. CASE i <= k
    <3>1. i \in 1 .. k
      BY <1>2, <2>1
    <3> QED BY <1>3, <1>5, <1>6, <3>1
  <2>2. CASE i > k
    <3>1. i - k \in 1 .. n /\ k + (i - k) = i
      BY <1>2, <2>2
    <3>2. d[k + (i - k)] = hits[k + (i - k)].mid
      BY <1>4, <1>6, <3>1
    <3> QED BY <1>5, <3>1, <3>2
  <2> QED BY <1>2, <2>1, <2>2
<1>8. DOMAIN d = 1 .. k + n /\ DOMAIN c = 1 .. k + n /\ d = [i \in DOMAIN d |-> d[i]]
      /\ c = [i \in DOMAIN c |-> c[i]]
  BY <1>5, <1>6
<1>9. d = c
  BY <1>7, <1>8
<1> QED BY <1>9 DEF a, b, c, d

\* A page after the first k hits leaves the client with all, or with a page more.
LEMMA PageServes ==
    ASSUME NEW hits, Ranking(hits), NEW k \in 0 .. Len(hits), NEW left,
           \A i \in 1 .. Len(hits) : hits[i] \in left <=> i > k,
           NEW rest, rest = Select(hits, left), NEW page, page = FirstN(rest, PageSize),
           NEW served, served = MidsTo(hits, k) \o MidsOn(page)
    PROVE  /\ Len(rest) > PageSize =>
                /\ k + PageSize \in 1 .. Len(hits) - 1
                /\ rest[PageSize] = hits[k + PageSize]
                /\ served = MidsTo(hits, k + PageSize)
           /\ ~(Len(rest) > PageSize) => served = MidsTo(hits, Len(hits))
<1>1. hits \in Seq(AHit) /\ Len(hits) \in Nat /\ k \in Nat /\ PageSize \in Nat \ {0}
  BY BudgetPositive DEF Ranking
<1>2. /\ rest \in Seq(AHit) /\ Len(rest) = Len(hits) - k
      /\ \A i \in 1 .. Len(hits) - k : rest[i] = hits[k + i]
  BY <1>1, SelectTail
<1>3. /\ page \in Seq(AHit) /\ Len(page) = IF Len(rest) < PageSize THEN Len(rest) ELSE PageSize
      /\ \A i \in 1 .. Len(page) : i \in 1 .. Len(rest) /\ page[i] = rest[i]
  <2>1. rest \in Seq(AHit) /\ PageSize \in Nat
    BY <1>1, <1>2
  <2> QED BY <2>1, FirstNRows
<1>4. Len(page) \in Nat /\ k + Len(page) <= Len(hits)
      /\ \A i \in 1 .. Len(page) : page[i] = hits[k + i]
  BY <1>1, <1>2, <1>3
<1>5. served = MidsTo(hits, k + Len(page))
  BY <1>3, <1>4, MidsJoin
<1>6. ASSUME Len(rest) > PageSize
      PROVE  /\ k + PageSize \in 1 .. Len(hits) - 1 /\ rest[PageSize] = hits[k + PageSize]
             /\ served = MidsTo(hits, k + PageSize)
  <2>1. Len(page) = PageSize /\ PageSize \in 1 .. Len(hits) - k
    BY <1>1, <1>2, <1>3, <1>6
  <2>2. k + PageSize \in 1 .. Len(hits) - 1
    BY <1>1, <1>2, <1>6
  <2> QED BY <1>2, <1>5, <2>1, <2>2
<1>7. ASSUME ~(Len(rest) > PageSize) PROVE served = MidsTo(hits, Len(hits))
  <2>1. Len(rest) \in Nat /\ Len(rest) = Len(hits) - k /\ Len(rest) <= PageSize
    BY <1>1, <1>2, <1>7
  <2>2. Len(page) = Len(rest)
    <3> DEFINE a == Len(page)
               b == Len(rest)
    <3>1. a = (IF b < PageSize THEN b ELSE PageSize) /\ PageSize \in Nat
          /\ b \in Nat /\ b <= PageSize
      BY <1>1, <1>3, <2>1
    <3> HIDE DEF a, b
    <3>2. a = b
      BY <3>1
    <3> QED BY <3>2 DEF a, b
  <2>3. k + Len(page) = Len(hits)
    BY <1>1, <2>1, <2>2
  <2> QED BY <1>5, <2>3
<1> QED BY <1>6, <1>7

\* A page that the tool cuts out of the hits of the router.
LEMMA PageCut ==
    ASSUME NEW s, NEW tiers, Typed(tiers), NEW hits \in Dispatch(s.p, tiers),
           Fields(s), (s.at = "new" /\ s.served = <<>>) \/ (s.at = "more" /\ Paged(s)),
           Page(s, tiers, hits)
    PROVE  /\ SessionInv'
           /\ s.at # "new" /\ session'.at = "more" =>
                \E h : After(s.cursor, h) /\ session'.cursor = Cursor(h)
<1> DEFINE left == {hit \in ToSet(hits) : s.at = "new" \/ After(s.cursor, hit)}
           rest == Select(hits, left)
           page == FirstN(rest, PageSize)
           served == s.served \o MidsOn(page)
           found == {hits[i].mid : i \in DOMAIN hits}
           more == Len(rest) > PageSize
<1>1. session' = [s EXCEPT
        !.at = IF more THEN "more" ELSE "done", !.cursor = IF more THEN CursorOf(rest) ELSE Absent,
        !.page = page, !.served = served, !.tiers = IF more THEN tiers ELSE <<>>,
        !.steady = s.steady /\ (s.at = "new" \/ tiers = s.tiers),
        !.tied = s.tied \/ Tied(hits) \/ Ambiguous(tiers), !.found = found]
  BY DEF Page, MidsOn
<1>2. PICK order \in Orders : Best(s.p, Hits(Met(tiers, order)), hits)
  BY DispatchBest
<1>3. Ranking(hits) /\ InOrder(hits) /\ \A h \in ToSet(hits) : PostFilter(s.p, h)
  BY <1>2 DEF Best
<1>4. \A h \in left : h \in ToSet(hits) /\ (s.at = "new" \/ After(s.cursor, h))
  OBVIOUS
<1>5. Ranking(rest) /\ ToSet(rest) = ToSet(hits) \cap left
  BY <1>3, RankingSelect
<1>6. Ranking(page) /\ ToSet(page) \subseteq ToSet(rest)
  BY <1>5, BudgetPositive, RankingFirst
<1>7. hits \in Seq(AHit) /\ Len(hits) \in Nat /\ DOMAIN hits = 1 .. Len(hits)
      /\ \A i \in 1 .. Len(hits) : hits[i] \in ToSet(hits)
  BY <1>3, RowAt DEF Ranking
<1>8. \A i \in 1 .. Len(hits) : hits[i] \in left <=> s.at = "new" \/ After(s.cursor, hits[i])
  BY <1>7
<1> DEFINE steady == s.steady /\ (s.at = "new" \/ tiers = s.tiers)
           tied == s.tied \/ Tied(hits) \/ Ambiguous(tiers)
           at == IF more THEN "more" ELSE "done"
           cursor == IF more THEN CursorOf(rest) ELSE Absent
           answers == IF more THEN tiers ELSE <<>>
<1>9. session' = [at |-> at, p |-> s.p, fresh |-> s.fresh, cursor |-> cursor, page |-> page,
                  served |-> served, found |-> found, tiers |-> answers, steady |-> steady,
                  tied |-> tied, moved |-> s.moved]
  <2> HIDE DEF at, cursor, page, served, found, answers, steady, tied, more, rest
  <2> QED BY <1>1 DEF Fields, at, cursor, answers, steady, tied
<1>10. /\ at = "more" => more /\ cursor = Cursor(rest[PageSize]) /\ answers = tiers
       /\ at = "done" => ~more
       /\ steady => s.steady /\ (s.at = "new" \/ tiers = s.tiers)
       /\ ~tied => ~s.tied /\ ~Tied(hits) /\ ~Ambiguous(tiers)
  BY DEF CursorOf
\* How many of the hits the client had before this page.
<1>11. ASSUME steady, ~tied
       PROVE  \E k \in 0 .. Len(hits) :
                /\ s.served = MidsTo(hits, k)
                /\ \A i \in 1 .. Len(hits) : hits[i] \in left <=> i > k
  <2> HIDE DEF left
  <2>1. CASE s.at = "new"
    <3>1. s.served = MidsTo(hits, 0)
      <4>1. MidsTo(hits, 0) = <<>>
        BY DEF MidsTo
      <4> QED BY <2>1, <4>1
    <3>2. 0 \in 0 .. Len(hits) /\ \A i \in 1 .. Len(hits) : i > 0
      BY <1>7
    <3> QED BY <1>8, <2>1, <3>1, <3>2
  <2>2. CASE s.at # "new"
    <3>1. s.at = "more" /\ Paged(s) /\ s.steady /\ ~s.tied /\ tiers = s.tiers
      BY <1>10, <1>11, <2>2
    <3>2. PICK before, k :
            /\ k \in 1 .. Len(before) - 1
            /\ Ranking(before) /\ InOrder(before) /\ ~Tied(before)
            /\ s.served = MidsTo(before, k) /\ s.cursor = Cursor(before[k])
            /\ ~Ambiguous(tiers) /\ before \in Dispatch(s.p, tiers)
      BY <3>1 DEF Paged
    <3>3. PICK other \in Orders : Best(s.p, Hits(Met(tiers, other)), before)
      BY <3>2, DispatchBest
    <3>4. Hits(Met(tiers, other)) = Hits(Met(tiers, order))
      BY <3>2, <3>3 DEF Ambiguous
    <3>5. \A i \in 1 .. Len(before) - 1 : i \in 1 .. Len(hits) /\ hits[i] = before[i]
      <4> DEFINE F == Hits(Met(tiers, order))
      <4>1. Best(s.p, F, before) /\ Best(s.p, F, hits) /\ ~Tied(before) /\ ~Tied(hits)
        BY <1>2, <1>10, <1>11, <3>2, <3>3, <3>4
      <4> HIDE DEF F
      <4> QED BY <4>1, Agree
    <3>6. Len(before) \in Nat /\ \A i \in 1 .. k : i \in 1 .. Len(before) - 1
      BY <3>2 DEF Ranking
    <3>7. s.served = MidsTo(hits, k)
      BY <3>2, <3>5, <3>6 DEF MidsTo
    <3>8. k \in 1 .. Len(hits) /\ k \in 0 .. Len(hits) /\ s.cursor = Cursor(hits[k])
      BY <1>7, <3>2, <3>5
    <3>9. \A i \in 1 .. Len(hits) : hits[i] \in left <=> i > k
      BY <1>3, <1>8, <1>10, <1>11, <2>2, <3>8, Following
    <3> QED BY <3>7, <3>8, <3>9
  <2> QED BY <2>1, <2>2
<1>12. ASSUME steady, ~tied
       PROVE  \E k \in 0 .. Len(hits) :
                /\ served = MidsTo(hits, k)
                /\ at = "done" => k = Len(hits)
                /\ at = "more" => k \in 1 .. Len(hits) - 1 /\ cursor = Cursor(hits[k])
  <2>1. PICK k \in 0 .. Len(hits) :
          /\ s.served = MidsTo(hits, k)
          /\ \A i \in 1 .. Len(hits) : hits[i] \in left <=> i > k
    BY <1>11, <1>12
  <2>2. served = MidsTo(hits, k) \o MidsOn(page)
    BY <2>1
  <2> HIDE DEF left
  <2>3. PICK r : r = rest
    OBVIOUS
  <2>4. PICK g : g = page
    OBVIOUS
  <2>5. PICK v : v = served
    OBVIOUS
  <2>6. r = Select(hits, left) /\ g = FirstN(r, PageSize)
        /\ v = MidsTo(hits, k) \o MidsOn(g)
    BY <2>2, <2>3, <2>4, <2>5
  <2>7. /\ Len(r) > PageSize =>
             /\ k + PageSize \in 1 .. Len(hits) - 1 /\ r[PageSize] = hits[k + PageSize]
             /\ v = MidsTo(hits, k + PageSize)
        /\ ~(Len(r) > PageSize) => v = MidsTo(hits, Len(hits))
    <3>1. Ranking(hits) /\ \A i \in 1 .. Len(hits) : hits[i] \in left <=> i > k
      BY <1>3, <2>1
    <3> QED BY <2>6, <3>1, PageServes, ZenonT(60)
  <2>8. CASE more
    <3>1. Len(r) > PageSize /\ at = "more" /\ at # "done" /\ cursor = Cursor(r[PageSize])
      BY <1>10, <2>3, <2>8
    <3>2. k + PageSize \in 0 .. Len(hits)
      BY <1>7, <2>7, <3>1
    <3> QED BY <2>5, <2>7, <3>1, <3>2
  <2>9. CASE ~more
    <3>1. ~(Len(r) > PageSize) /\ at = "done" /\ at # "more" /\ Len(hits) \in 0 .. Len(hits)
      BY <1>7, <2>3, <2>9
    <3> QED BY <2>5, <2>7, <3>1
  <2> QED BY <2>8, <2>9
<1> HIDE DEF left, rest, page, served, found, steady, tied, at, cursor, answers, more
<1>13. PICK t : t = session'
  OBVIOUS
<1>14. /\ t.at = at /\ t.p = s.p /\ t.cursor = cursor /\ t.page = page /\ t.served = served
       /\ t.found = found /\ t.tiers = answers /\ t.steady = steady /\ t.tied = tied
       /\ Fields(t)
  BY <1>9, <1>13 DEF Fields
<1>15. Paged(t)
  <2> SUFFICES ASSUME t.steady, ~t.tied
               PROVE  \E list : \E k \in 0 .. Len(list) :
                        /\ Ranking(list) /\ InOrder(list) /\ ~Tied(list)
                        /\ t.served = MidsTo(list, k)
                        /\ t.found = {list[i].mid : i \in DOMAIN list}
                        /\ t.at = "done" => k = Len(list)
                        /\ t.at = "more" =>
                             /\ k \in 1 .. Len(list) - 1 /\ t.cursor = Cursor(list[k])
                             /\ Typed(t.tiers) /\ ~Ambiguous(t.tiers)
                             /\ list \in Dispatch(t.p, t.tiers)
    BY DEF Paged
  <2>1. steady /\ ~tied
    BY <1>14
  <2>2. ~Tied(hits) /\ ~Ambiguous(tiers)
    BY <1>10, <2>1
  <2>3. PICK k \in 0 .. Len(hits) :
          /\ served = MidsTo(hits, k)
          /\ at = "done" => k = Len(hits)
          /\ at = "more" => k \in 1 .. Len(hits) - 1 /\ cursor = Cursor(hits[k])
    BY <1>12, <2>1
  <2>4. t.found = {hits[i].mid : i \in DOMAIN hits}
    BY <1>14 DEF found
  <2>5. t.at = "more" => t.tiers = tiers
    BY <1>10, <1>14
  <2> QED BY <1>3, <1>14, <2>2, <2>3, <2>4, <2>5
<1>16. SessionInv'
  <2>1. Ranking(t.page) /\ \A h \in ToSet(t.page) : PostFilter(t.p, h)
    BY <1>3, <1>5, <1>6, <1>14
  <2> QED BY <1>13, <1>14, <1>15, <2>1 DEF SessionInv
<1>17. ASSUME s.at # "new", session'.at = "more"
       PROVE  \E h : After(s.cursor, h) /\ session'.cursor = Cursor(h)
  <2>1. more /\ session'.cursor = Cursor(rest[PageSize])
    BY <1>10, <1>13, <1>14, <1>17
  <2>2. rest[PageSize] \in ToSet(rest)
    <3>1. rest \in Seq(AHit) /\ PageSize \in Nat \ {0}
      BY <1>5, BudgetPositive DEF Ranking
    <3>2. PageSize \in 1 .. Len(rest)
      BY <2>1, <3>1 DEF more
    <3> QED BY <3>1, <3>2, RowAt
  <2> QED BY <1>4, <1>5, <1>17, <2>1, <2>2
<1> QED BY <1>16, <1>17

\* One page, for a session with all its fields.
LEMMA AskedRouter ==
    ASSUME NEW s, StoreInv, AskRouter(s), Fields(s),
           (s.at = "new" /\ s.served = <<>> /\ s.found = {}) \/ (s.at = "more" /\ Paged(s))
    PROVE  /\ SessionInv'
           /\ s.at # "new" /\ session'.at = "more" =>
                \E h : After(s.cursor, h) /\ session'.cursor = Cursor(h)
<1>1. \/ session' = [s EXCEPT !.at = "refused", !.page = <<>>, !.cursor = Absent]
      \/ \E few : \E tiers \in Tiers(s.p, s.fresh, few) :
           \E hits \in Dispatch(s.p, tiers) : Page(s, tiers, hits)
  BY DEF AskRouter
<1>2. CASE session' = [s EXCEPT !.at = "refused", !.page = <<>>, !.cursor = Absent]
  <2>1. PICK t : t = session'
    OBVIOUS
  <2>2. /\ Fields(t) /\ t.at = "refused" /\ t.page = <<>> /\ t.served = s.served
        /\ t.found = s.found /\ t.steady = s.steady /\ t.tied = s.tied
    BY <1>2, <2>1 DEF Fields
  <2>3. Ranking(<<>>) /\ ToSet(<<>>) = {}
    BY NoHits DEF Ranking, IsInjective
  <2>4. Paged(t)
    <3>1. CASE s.at = "new"
      <4> DEFINE none == <<>>
      <4>1. /\ InOrder(none) /\ ~Tied(none) /\ 0 \in 0 .. Len(none)
            /\ MidsTo(none, 0) = <<>> /\ {none[i].mid : i \in DOMAIN none} = {}
        BY DEF InOrder, Tied, MidsTo
      <4>2. t.served = <<>> /\ t.found = {} /\ t.at \notin {"more", "done"}
        BY <2>2, <3>1
      <4>3. Ranking(none)
        BY <2>3
      <4> HIDE DEF none
      <4> QED BY <4>1, <4>2, <4>3 DEF Paged
    <3>2. CASE s.at # "new"
      BY <2>2, <3>2 DEF Paged
    <3> QED BY <3>1, <3>2
  <2>5. SessionInv'
    BY <2>1, <2>2, <2>3, <2>4 DEF SessionInv
  <2> QED BY <2>1, <2>2, <2>5
<1>3. ASSUME NEW few, NEW tiers \in Tiers(s.p, s.fresh, few), NEW hits \in Dispatch(s.p, tiers),
             Page(s, tiers, hits)
      PROVE  /\ SessionInv'
             /\ s.at # "new" /\ session'.at = "more" =>
                  \E h : After(s.cursor, h) /\ session'.cursor = Cursor(h)
  <2>1. Typed(tiers)
    BY TiersTyped
  <2> QED BY <1>3, <2>1, PageCut
<1> QED BY <1>1, <1>2, <1>3

\* Another page.
LEMMA NextPageStep ==
    ASSUME StoreInv, SessionInv, NextPage
    PROVE  /\ SessionInv'
           /\ session'.at = "more" =>
                \E h : After(session.cursor, h) /\ session'.cursor = Cursor(h)
<1>1. session.at = "more" /\ AskRouter(session)
  BY DEF NextPage
<1>2. PICK s : s = session
  OBVIOUS
<1>3. Fields(s) /\ s.at = "more" /\ Paged(s)
  BY <1>1, <1>2 DEF SessionInv, NoSession
<1>4. AskRouter(s)
  BY <1>1, <1>2
<1> QED BY <1>1, <1>2, <1>3, <1>4, AskedRouter

------------------------------------------------------------------------------
(* The theorems. *)

\* What every step keeps.
IInv == QueryInv /\ SessionInv

\* Every step of a search, a query or ingest keeps it.
LEMMA SearchStep ==
    ASSUME IInv, [SearchNext]_searchVars
    PROVE  IInv'
<1>1. [QueryNext]_queryVars
  BY DEF SearchNext, searchVars, queryVars, LoreSearch, NextPage, MoveCorpus, QueryNext, store
<1>2. QueryInv'
  BY <1>1, QueryStep DEF IInv
<1>3. CASE UNCHANGED session
  BY <1>2, <1>3 DEF IInv, SessionInv
<1>4. CASE LoreSearch
  <2>1. PICK p, fresh :
          AskRouter([at |-> "new", p |-> p, fresh |-> fresh, cursor |-> Absent, page |-> <<>>,
                     served |-> <<>>, found |-> {}, tiers |-> <<>>,
                     steady |-> TRUE, tied |-> FALSE, moved |-> FALSE])
    BY <1>4 DEF LoreSearch
  <2>2. PICK s : s = [at |-> "new", p |-> p, fresh |-> fresh, cursor |-> Absent, page |-> <<>>,
                      served |-> <<>>, found |-> {}, tiers |-> <<>>,
                      steady |-> TRUE, tied |-> FALSE, moved |-> FALSE]
    OBVIOUS
  <2>3. Fields(s) /\ s.at = "new" /\ s.served = <<>> /\ s.found = {}
    BY <2>2 DEF Fields
  <2>4. AskRouter(s)
    BY <2>1, <2>2
  <2>5. SessionInv'
    BY <2>3, <2>4, AskedRouter DEF IInv, QueryInv
  <2> QED BY <1>2, <2>5 DEF IInv
<1>5. CASE NextPage
  BY <1>2, <1>5, NextPageStep DEF IInv, QueryInv
<1>6. CASE MoveCorpus
  <2>1. session.at = "more" /\ session' = [session EXCEPT !.moved = TRUE]
    BY <1>6 DEF MoveCorpus
  <2>2. PICK s : s = session
    OBVIOUS
  <2>3. Fields(s) /\ Paged(s) /\ Ranking(s.page) /\ \A h \in ToSet(s.page) : PostFilter(s.p, h)
    BY <2>1, <2>2 DEF IInv, SessionInv, NoSession
  <2>4. PICK t : t = session'
    OBVIOUS
  <2>5. /\ t.at = s.at /\ t.p = s.p /\ t.cursor = s.cursor /\ t.page = s.page
        /\ t.served = s.served /\ t.found = s.found /\ t.tiers = s.tiers
        /\ t.steady = s.steady /\ t.tied = s.tied /\ Fields(t)
    BY <2>1, <2>2, <2>3, <2>4 DEF Fields
  <2>6. Paged(t) /\ Ranking(t.page) /\ \A h \in ToSet(t.page) : PostFilter(t.p, h)
    BY <2>3, <2>5 DEF Paged
  <2>7. SessionInv'
    BY <2>4, <2>5, <2>6 DEF SessionInv
  <2> QED BY <1>2, <2>7 DEF IInv
<1> QED BY <1>2, <1>3, <1>4, <1>5, <1>6 DEF SearchNext, searchVars, IInv

\* What holds of the stores, of the last answer and of the session holds always:
\* every answer is given as the properties say, and ingest undoes none of it.
THEOREM Inductive == SearchSpec => []IInv
<1>1. SearchInit => IInv
  BY QueryStarts DEF SearchInit, IInv, SessionInv
<1>2. IInv /\ [SearchNext]_searchVars => IInv'
  BY SearchStep
<1> QED BY <1>1, <1>2, PTL DEF SearchSpec

\* The stores hold rows of messages, over.db rows of files only, and an answer too.
THEOREM TypeCorrect == SearchSpec => []TypeOK
<1>1. IInv => TypeOK
  BY DEF IInv, QueryInv, StoreInv, TypeOK
<1> QED BY <1>1, Inductive, PTL

\* Whichever index or walk finds a row, the filters of the query hold of it.
THEOREM FiltersAlwaysHonoured == SearchSpec => []FiltersHonoured
<1>1. IInv => FiltersHonoured
  BY AnsweredMeans DEF IInv, QueryInv
<1> QED BY <1>1, Inductive, PTL

\* When the limit cuts the answer of an index, the newest rows are kept.
THEOREM NewestAlwaysKept == SearchSpec => []NewestKept
<1>1. IInv => NewestKept
  BY AnsweredMeans DEF IInv, QueryInv
<1> QED BY <1>1, Inductive, PTL

\* A match is missing from an answer below its limit only for a known reason.
THEOREM NothingElseEverMissed == SearchSpec => []NothingElseMissed
<1>1. IInv => NothingElseMissed
  BY AnsweredMeans DEF IInv, QueryInv
<1> QED BY <1>1, Inductive, PTL

\* A profile that does not say so has not hit a limit.
THEOREM ProfileLimitAlwaysTold == SearchSpec => []ProfileLimitTold
<1>1. IInv => ProfileLimitTold
  BY AnsweredMeans DEF IInv, QueryInv
<1> QED BY <1>1, Inductive, PTL

\* No tier's hits get past the filters of a search, and a page has no message twice.
THEOREM HitsAlwaysHonourFilters == SearchSpec => []HitsHonourFilters
<1>1. IInv => HitsHonourFilters
  <2> SUFFICES ASSUME IInv, session # NoSession PROVE HitsHonourFilters
    BY DEF HitsHonourFilters
  <2>1. /\ Ranking(session.page) /\ \A h \in ToSet(session.page) : PostFilter(session.p, h)
    BY DEF IInv, SessionInv
  <2>2. \A i \in DOMAIN session.page : session.page[i] \in ToSet(session.page)
    BY DEF ToSet
  <2>3. ASSUME NEW i \in DOMAIN session.page
        PROVE  /\ Filters(AsQuery(session.p, Budget), session.page[i].row)
               /\ "author" \in session.p.by => Has(session.page[i].row, "author")
    BY <2>1, <2>2 DEF PostFilter
  <2>4. ASSUME NEW i \in DOMAIN session.page, NEW j \in DOMAIN session.page,
               session.page[i].mid = session.page[j].mid
        PROVE  i = j
    BY <2>1, <2>2, <2>4 DEF Ranking, IsInjective
  <2> QED BY <2>3, <2>4 DEF HitsHonourFilters
<1> QED BY <1>1, Inductive, PTL

\* While the tiers answer alike and nothing is tied, a client that pages to the end has
\* every hit of the router, each one once: none lost between two pages, none repeated.
THEOREM PagesAlwaysWhole == SearchSpec => []PagesWhole
<1>1. IInv => PagesWhole
  <2> SUFFICES ASSUME IInv, session.at = "done", session.steady, ~session.tied
               PROVE  EveryHitOnce
    BY DEF PagesWhole
  <2>1. Paged(session)
    BY DEF IInv, SessionInv, NoSession
  <2>2. PICK hits :
          /\ Ranking(hits)
          /\ session.served = MidsTo(hits, Len(hits))
          /\ session.found = {hits[i].mid : i \in DOMAIN hits}
    BY <2>1 DEF Paged
  <2>3. Len(hits) \in 0 .. Len(hits)
    BY <2>2 DEF Ranking
  <2>4. /\ MidsTo(hits, Len(hits)) \in Seq(Mids) /\ IsInjective(MidsTo(hits, Len(hits)))
        /\ ToSet(MidsTo(hits, Len(hits))) = {hits[i].mid : i \in 1 .. Len(hits)}
    BY <2>2, <2>3, MidsDistinct
  <2>5. DOMAIN hits = 1 .. Len(hits)
    BY <2>2 DEF Ranking
  <2> QED BY <2>2, <2>4, <2>5, DistinctCount DEF EveryHitOnce
<1> QED BY <1>1, Inductive, PTL

\* Nor do two pages have a message in common, at any time: only a tie, or a tier that
\* answers otherwise, can repeat one.
THEOREM UntiedPagesDisjoint ==
    SearchSpec => [](session # NoSession /\ ~session.tied => PagesDisjoint)
<1> DEFINE Untangled == session # NoSession /\ ~session.tied => PagesDisjoint
<1>1. IInv => Untangled
  <2> SUFFICES ASSUME IInv, session # NoSession, ~session.tied, session.steady
               PROVE  IsInjective(session.served)
    BY DEF PagesDisjoint
  <2>1. Paged(session)
    BY DEF IInv, SessionInv
  <2>2. PICK hits : \E k \in 0 .. Len(hits) : Ranking(hits) /\ session.served = MidsTo(hits, k)
    BY <2>1 DEF Paged
  <2> QED BY <2>2, MidsDistinct
<1> QED BY <1>1, Inductive, PTL

\* No client pages round in a circle: while the files stand still, each page's cursor
\* is after the one before.
THEOREM CursorAlwaysAdvances == SearchSpec => CursorAdvances
<1> DEFINE advances == session'.cursor.score < session.cursor.score
                       \/ (session'.cursor.score = session.cursor.score
                           /\ MidLess(session.cursor.mid, session'.cursor.mid))
           Step == session.at = "more" /\ session'.at = "more" /\ UNCHANGED files => advances
<1>1. IInv /\ [SearchNext]_searchVars => [Step]_searchVars
  <2> SUFFICES ASSUME IInv, SearchNext, session.at = "more", session'.at = "more",
                      files' = files
               PROVE  advances
    OBVIOUS
  <2>1. NextPage \/ MoveCorpus
    BY DEF SearchNext, LoreSearch, NoSession
  <2>2. CASE NextPage
    <3>1. PICK h : After(session.cursor, h) /\ session'.cursor = Cursor(h)
      BY <2>2, NextPageStep DEF IInv, QueryInv
    <3>2. session'.cursor.score = h.score /\ session'.cursor.mid = h.mid
      BY <3>1 DEF Cursor
    <3> QED BY <3>1, <3>2 DEF After
  <2>3. CASE MoveCorpus
    <3>1. PICK rows : files' = <<rows>> \o files
      BY <2>3 DEF MoveCorpus, Ingest
    <3>2. files \in Seq(Seq(AnyRow))
      BY DEF IInv, QueryInv, StoreInv
    <3>3. Len(files') = 1 + Len(files) /\ Len(files) \in Nat
      BY <3>1, <3>2
    <3> QED BY <3>3
  <2> QED BY <2>1, <2>2, <2>3
<1>2. [][Step]_searchVars => CursorAdvances
  BY DEF CursorAdvances
<1> QED BY <1>1, <1>2, Inductive, PTL DEF SearchSpec
==============================================================================
