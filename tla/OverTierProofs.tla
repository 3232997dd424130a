--------------------------- MODULE OverTierProofs ---------------------------
(***************************************************************************)
(* Proofs about over.db for any messages, lists, parsers, chunk and window *)
(* sizes and any number of jobs: its side tables say what the rows say, an *)
(* index whose marker says complete is complete, the trailer backfill      *)
(* keeps the envelope, and the migration loses no trailer of a table whose *)
(* rowids have no gap wider than a window.                                 *)
(***************************************************************************)
EXTENDS OverTier, FiniteSetTheorems, SequenceTheorems, TLAPS

-----------------------------------------------------------------------------
(* Numbers and finite sets                                                 *)

\* A set of natural numbers that is not empty has a least element.
LEMMA NatMin ==
    ASSUME NEW S \in SUBSET Nat, S # {}
    PROVE  \E n \in S : \A m \in S : n <= m
<1>1. PICK n \in S : \A m \in S : ~ (<<m, n>> \in OpToRel(<, Nat))
  BY NatLessThanWellFounded, WFMin
<1>2. \A m \in S : ~ (m < n)
  BY <1>1 DEF OpToRel
<1> QED BY <1>2

\* And a greatest one, if it is bounded.
LEMMA BoundedMax ==
    ASSUME NEW S \in SUBSET Nat, S # {}, NEW b \in Nat, \A s \in S : s <= b
    PROVE  \E n \in S : \A m \in S : m <= n
<1> DEFINE Bounds == {c \in Nat : \A s \in S : s <= c}
<1>1. PICK c \in Bounds : \A d \in Bounds : c <= d
  BY NatMin
<1>2. ASSUME c \notin S PROVE FALSE
  <2>1. PICK s \in S : TRUE
    OBVIOUS
  <2>2. \A t \in S : t < c
    BY <1>1, <1>2
  <2>3. c - 1 \in Nat
    BY <2>1, <2>2
  <2>4. \A t \in S : t <= c - 1
    BY <2>2, <2>3
  <2>5. c - 1 \in Bounds
    BY <2>3, <2>4
  <2> QED BY <2>5, <1>1
<1> QED BY <1>1, <1>2

\* The elements of a finite set can be numbered without a number used twice.
LEMMA Numbering ==
    ASSUME NEW S, IsFiniteSet(S)
    PROVE  /\ Cardinality(S) \in Nat
           /\ \E r \in [S -> 1..Cardinality(S)] : \A m, n \in S : r[m] = r[n] => m = n
<1> DEFINE N == Cardinality(S)
<1>1. N \in Nat /\ ExistsBijection(1..N, S)
  BY FS_CardinalityType
<1> HIDE DEF N
<1>2. PICK f \in [1..N -> S] : \A t \in S : \E i \in 1..N : f[i] = t
  BY <1>1 DEF ExistsBijection, Bijection, Surjection, Injection
<1> DEFINE r == [t \in S |-> CHOOSE i \in 1..N : f[i] = t]
<1>3. \A t \in S : r[t] \in 1..N /\ f[r[t]] = t
  BY <1>2
<1>4. r \in [S -> 1..N]
  BY <1>3
<1>5. \A m, n \in S : r[m] = r[n] => m = n
  BY <1>3
<1> HIDE DEF r
<1>6. \E q \in [S -> 1..N] : \A m, n \in S : q[m] = q[n] => m = n
  BY <1>4, <1>5
<1> QED BY <1>1, <1>6 DEF N

-----------------------------------------------------------------------------
(* The inductive invariant                                                 *)

RowSet == [id : Nat \ {0}, ver : Versions, env : BOOLEAN]

\* Where a job can be, and what it was started with.
JobInv ==
  /\ job.op = "idle" => job.at = "end"
  /\ job.at \in {"mark", "markRef", "begin"} => job.cursor = 0
  /\ job.at \in {"parquet", "insert"} => job.op = "ingest"
  /\ job.at \in {"mails", "from", "drop"} => job.op = "migrate"
  /\ job.op = "ingest" => job.file \in Files
  /\ ~exists => job.op = "idle"

\* A file is empty until it exists, and while its markers are still to be written.
EmptyInv ==
  ~exists \/ (job.at \in {"mark", "markRef"} /\ ~job.stale) =>
    rows = NoRows /\ side = Nothing /\ mails = {}

\* AUTOINCREMENT: no two rows have a rowid, and the next one is greater.
IdInv ==
  /\ \A k \in Stored : rows[k].id <= lastId
  /\ \A k, q \in Stored : rows[k].id = rows[q].id => k = q

\* The legacy table is about messages that are stored.
MailsInv == \A e \in mails : rows[e.key] # NoRow

\* An entry says what its row says, and its date is the date of the row.
Fresh(f, e) ==
  /\ e \in Entries /\ rows[e.key] # NoRow
  /\ e.ver = rows[e.key].ver \/ (f = "trailer" /\ e.ver = 0)
  /\ f \in {"func", "ref"} /\ e.dated => Dated(e.key)
SideInv == \A f \in Families : \A e \in side[f] : Fresh(f, e)

\* An index is whole where its marker says so, and a backfill has made it whole
\* up to its cursor.
HasDated(f, k) == \E e \in side[f] : e.key = k /\ e.dated
WholeTo(f, n) == \A k \in Stored : Dated(k) /\ rows[k].id <= n => HasDated(f, k)
Whole(f) == \A k \in Stored : Dated(k) => HasDated(f, k)
At(op) == job.op = op /\ job.at = "chunk" /\ ~job.stale
WholeInv ==
  /\ meta.func = "complete" => Whole("func")
  /\ meta.ref = "complete" => Whole("ref")
  /\ At("funcs") => WholeTo("func", job.cursor)
  /\ At("refs") => WholeTo("ref", job.cursor)

\* A trailer is where the new release looks for it.
HasTrailer(k) == EntriesOf(side["trailer"], {k}) # {}

DataInv == TypeOK /\ IdInv
IInv ==
  DataInv /\ JobInv /\ EmptyInv /\ MailsInv /\ SideInv /\ WholeInv

-----------------------------------------------------------------------------
(* The operators                                                           *)

LEMMA SetFacts ==
    /\ IsFiniteSet(Keys)
    /\ Versions \subseteq Nat /\ 0 \in Versions
    /\ \A r \in RowSet : r # NoRow
<1>1. IsFiniteSet(Keys)
  BY SetAssumption, FS_Product DEF Keys
<1>2. ASSUME NEW r \in RowSet PROVE r \in [id : Nat, ver : Nat, env : BOOLEAN]
  <2>1. Versions \subseteq Nat
    BY SetAssumption DEF Versions
  <2> QED BY <2>1 DEF RowSet
<1> QED BY <1>1, <1>2, SetAssumption DEF Versions

\* What the payloads of a set of rows yield.
LEMMA DerivedFacts ==
    ASSUME NEW f, NEW ks \in SUBSET Keys, NEW table, \A k \in ks : table[k] \in RowSet
    PROVE  /\ \A e \in DerivedOf(f, ks, table) :
                e \in Entries /\ e.key \in ks /\ e.ver = table[e.key].ver /\ e.dated = Dated(e.key)
           /\ f # "env" => \A k \in ks : \E e \in DerivedOf(f, ks, table) : e.key = k /\ e.dated = Dated(k)
<1>1. \A k \in ks : Entry(k, table[k].ver) \in Entries
  BY DEF Entry, Entries, RowSet, Dated
<1>2. \A e \in DerivedOf(f, ks, table) : \E k \in ks : e = Entry(k, table[k].ver)
  BY DEF DerivedOf, Derived
<1>3. f # "env" => \A k \in ks : Entry(k, table[k].ver) \in DerivedOf(f, ks, table)
  BY DEF DerivedOf, Derived
<1>4. \A k \in ks : /\ Entry(k, table[k].ver).key = k
                    /\ Entry(k, table[k].ver).ver = table[k].ver
                    /\ Entry(k, table[k].ver).dated = Dated(k)
  BY DEF Entry
<1> QED BY <1>1, <1>2, <1>3, <1>4

\* A rewrite leaves the entries of other rows and no old one of these.
LEMMA RewrittenFacts ==
    ASSUME NEW f, NEW ks \in SUBSET Keys, NEW table, \A k \in ks : table[k] \in RowSet,
           NEW old \in SUBSET Entries
    PROVE  LET new == Rewritten(f, old, ks, table) IN
           /\ new \in SUBSET Entries
           /\ \A e \in new : (e \in old /\ e.key \notin ks)
                             \/ (e.key \in ks /\ e.ver = table[e.key].ver /\ e.dated = Dated(e.key))
           /\ \A e \in old : e.key \notin ks => e \in new
           /\ f # "env" => \A k \in ks : \E e \in new : e.key = k /\ e.dated = Dated(k)
<1>1. \A e \in old : e \in EntriesOf(old, ks) <=> e.key \in ks
  BY DEF EntriesOf
<1> QED BY <1>1, DerivedFacts DEF Rewritten

LEMMA StoredFacts ==
    ASSUME TypeOK
    PROVE  /\ Stored \subseteq Keys
           /\ \A k \in Keys : rows[k] # NoRow <=> k \in Stored
           /\ \A k \in Stored : rows[k] \in RowSet /\ rows[k].id \in Nat \ {0} /\ rows[k].ver \in Versions
  BY DEF TypeOK, Stored, RowSet

\* The last rowid of a chunk.
LEMMA LastRowidFacts ==
    ASSUME DataInv, NEW ks \in SUBSET Stored, ks # {}
    PROVE  /\ LastRowid(ks) \in Nat /\ \A k \in ks : rows[k].id <= LastRowid(ks)
           /\ \E k \in ks : rows[k].id = LastRowid(ks)
<1> DEFINE S == {rows[k].id : k \in ks}
<1>1. S \in SUBSET Nat /\ S # {} /\ lastId \in Nat /\ \A n \in S : n <= lastId
  BY StoredFacts DEF DataInv, IdInv, TypeOK
<1>2. \E n \in S : \A m \in S : m <= n
  BY <1>1, BoundedMax
<1>3. \E n \in S : \A k \in ks : rows[k].id <= n
  BY <1>2
<1>4. LastRowid(ks) \in S /\ \A k \in ks : rows[k].id <= LastRowid(ks)
  BY <1>3 DEF LastRowid
<1> QED BY <1>1, <1>4

\* A chunk is the first of the rows that are left, and is empty when none is.
LEMMA PendingFacts ==
    ASSUME DataInv
    PROVE  /\ Pending \subseteq Candidates /\ Candidates \subseteq Stored
           /\ Pending = {} => Candidates = {}
           /\ \A k \in Candidates, p \in Pending : rows[k].id <= rows[p].id => k \in Pending
<1> DEFINE Upto(k) == {q \in Candidates : rows[q].id <= rows[k].id}
<1>1. Pending \subseteq Candidates /\ Candidates \subseteq Stored
  BY DEF Pending, Candidates
<1>2. \A k \in Stored : rows[k].id \in Nat
  BY StoredFacts DEF DataInv
<1>3. ASSUME NEW k \in Candidates PROVE IsFiniteSet(Upto(k)) /\ Cardinality(Upto(k)) \in Nat
  <2>1. Upto(k) \in SUBSET Keys
    BY <1>1, StoredFacts DEF DataInv
  <2> QED BY <2>1, SetFacts, FS_Subset, FS_CardinalityType
<1>4. ASSUME Candidates # {} PROVE Pending # {}
  <2>1. {rows[q].id : q \in Candidates} \in SUBSET Nat /\ {rows[q].id : q \in Candidates} # {}
    BY <1>1, <1>2, <1>4
  <2> DEFINE Ids == {rows[q].id : q \in Candidates}
  <2>5. \E n \in Ids : \A m \in Ids : n <= m
    BY <2>1, NatMin
  <2>2. PICK c \in Candidates : \A q \in Candidates : rows[c].id <= rows[q].id
    BY <2>5
  <2>3. Upto(c) = {c}
    <3>1. ASSUME NEW q \in Candidates, rows[q].id <= rows[c].id PROVE q = c
      <4>1. rows[q].id = rows[c].id
        BY <2>2, <3>1, <1>1, <1>2
      <4> QED BY <4>1, <1>1 DEF DataInv, IdInv
    <3>2. rows[c].id <= rows[c].id
      BY <1>1, <1>2
    <3> QED BY <3>1, <3>2
  <2>4. Cardinality(Upto(c)) = 1
    BY <2>3, FS_Singleton
  <2> QED BY <2>4, BoundAssumption DEF Pending
<1>5. ASSUME NEW k \in Candidates, NEW p \in Pending, rows[k].id <= rows[p].id PROVE k \in Pending
  <2>1. p \in Candidates /\ Cardinality(Upto(p)) <= Chunk
    BY DEF Pending
  <2>2. Upto(k) \in SUBSET Upto(p)
    BY <1>5, <1>1, <1>2, <2>1
  <2>3. Cardinality(Upto(k)) <= Cardinality(Upto(p))
    BY <2>1, <2>2, <1>3, FS_Subset
  <2>4. Cardinality(Upto(k)) <= Chunk
    <3>1. Cardinality(Upto(k)) \in Nat /\ Cardinality(Upto(p)) \in Nat /\ Chunk \in Nat
      BY <1>3, <2>1, BoundAssumption
    <3> HIDE DEF Upto
    <3> QED BY <2>1, <2>3, <3>1
  <2> QED BY <2>4 DEF Pending
<1> QED BY <1>1, <1>4, <1>5

\* INSERT OR REPLACE of a file: new rowids for its messages, past the last one.
LEMMA ReplacedFacts ==
    ASSUME TypeOK, NEW file \in Files
    PROVE  LET new == Replaced(rows, lastId, file)
               last == lastId + Cardinality(file.mids) IN
           /\ last \in Nat /\ lastId <= last
           /\ KeysOf(file) \subseteq Keys
           /\ new \in [Keys -> {NoRow} \cup RowSet]
           /\ \A k \in Keys : k \notin KeysOf(file) => new[k] = rows[k]
           /\ \A k \in KeysOf(file) : /\ new[k] \in RowSet /\ new[k].ver = file.ver
                                      /\ lastId < new[k].id /\ new[k].id <= last
           /\ \A k, q \in KeysOf(file) : new[k].id = new[q].id => k = q
<1> DEFINE N == Cardinality(file.mids)
           rank == CHOOSE r \in [file.mids -> 1..N] : \A m, n \in file.mids : r[m] = r[n] => m = n
           new == Replaced(rows, lastId, file)
<1>1. file.mids \in SUBSET Mids /\ file.list \in Lists /\ file.ver \in Versions
  BY DEF Files
<1>2. IsFiniteSet(file.mids)
  BY <1>1, SetAssumption, FS_Subset
<1>3. N \in Nat /\ \E r \in [file.mids -> 1..N] : \A m, n \in file.mids : r[m] = r[n] => m = n
  BY <1>2, Numbering
<1>4. rank \in [file.mids -> 1..N] /\ \A m, n \in file.mids : rank[m] = rank[n] => m = n
  BY <1>3
<1>5. new = [k \in Keys |-> IF k \in KeysOf(file) THEN IngestedRow(file, lastId + rank[k[1]]) ELSE rows[k]]
  BY DEF Replaced
<1> HIDE DEF rank, new, N
<1>6. KeysOf(file) \subseteq Keys /\ \A k \in KeysOf(file) : k[1] \in file.mids /\ k = <<k[1], file.list>>
  BY <1>1 DEF KeysOf, Keys
<1>7. lastId \in Nat /\ rows \in [Keys -> {NoRow} \cup RowSet]
  BY DEF TypeOK, RowSet
<1>8. ASSUME NEW k \in KeysOf(file)
      PROVE  /\ rank[k[1]] \in 1..N /\ new[k] = IngestedRow(file, lastId + rank[k[1]])
             /\ new[k] \in RowSet /\ new[k].ver = file.ver
             /\ new[k].id = lastId + rank[k[1]]
             /\ lastId < new[k].id /\ new[k].id <= lastId + N
  <2>1. rank[k[1]] \in 1..N /\ new[k] = IngestedRow(file, lastId + rank[k[1]])
    BY <1>4, <1>5, <1>6
  <2>2. lastId + rank[k[1]] \in Nat \ {0} /\ lastId < lastId + rank[k[1]] /\ lastId + rank[k[1]] <= lastId + N
    BY <2>1, <1>3, <1>7
  <2> QED BY <2>1, <2>2, <1>1 DEF IngestedRow, RowSet
<1>9. \A k \in Keys : k \notin KeysOf(file) => new[k] = rows[k]
  BY <1>5
<1>10. new \in [Keys -> {NoRow} \cup RowSet]
  <2>1. \A k \in Keys : new[k] \in {NoRow} \cup RowSet
    BY <1>7, <1>8, <1>9
  <2> QED BY <2>1, <1>5
<1>11. ASSUME NEW k \in KeysOf(file), NEW q \in KeysOf(file), new[k].id = new[q].id PROVE k = q
  <2>1. rank[k[1]] = rank[q[1]]
    BY <1>11, <1>8, <1>3, <1>7
  <2>2. k[1] = q[1]
    BY <2>1, <1>4, <1>6
  <2> QED BY <2>2, <1>6
<1>12. lastId + N \in Nat /\ lastId <= lastId + N
  BY <1>3, <1>7
<1> QED BY <1>6, <1>8, <1>9, <1>10, <1>11, <1>12 DEF new, N

\* What a build scans, and how many.
LEMMA ScannedFacts ==
    ASSUME NEW files \in Seq(Files)
    PROVE  /\ Scanned(files) \subseteq Keys
           /\ Cardinality(Scanned(files)) \in Nat
           /\ \A k \in Scanned(files) : VersionIn(files, k) \in Versions
<1>1. \A i \in DOMAIN files : files[i].mids \subseteq Mids /\ files[i].list \in Lists /\ files[i].ver \in Versions
  <2>1. \A i \in DOMAIN files : files[i] \in Files
    OBVIOUS
  <2> QED BY <2>1 DEF Files
<1>2. Scanned(files) \in SUBSET Keys
  BY <1>1 DEF Scanned, ScannedIn, Keys
<1>3. Cardinality(Scanned(files)) \in Nat
  BY <1>2, SetFacts, FS_Subset, FS_CardinalityType
<1>4. ASSUME NEW k \in Scanned(files) PROVE VersionIn(files, k) \in Versions
  <2>1. PICK i \in DOMAIN files : k \in ScannedIn(i, files) \X {files[i].list}
    BY DEF Scanned
  <2>2. \E j \in DOMAIN files : files[j].list = k[2] /\ k[1] \in ScannedIn(j, files)
    BY <2>1
  <2> QED BY <2>2, <1>1 DEF VersionIn
<1> QED BY <1>2, <1>3, <1>4

\* Every row up to a chunk's last one was passed before or is in the chunk.
LEMMA ChunkFacts ==
    ASSUME TypeOK, IdInv, job.op # "subj"
    PROVE  /\ Pending = {} => \A k \in Stored : rows[k].id <= job.cursor
           /\ Pending # {} => /\ LastRowid(Pending) \in Nat
                              /\ \A k \in Stored : rows[k].id <= LastRowid(Pending) =>
                                   rows[k].id <= job.cursor \/ k \in Pending
<1>1. \A k \in Stored : rows[k].id \in Nat
  BY StoredFacts
<1>2. job.cursor \in Nat
  BY DEF TypeOK
<1>3. \A k \in Stored : rows[k].id <= job.cursor \/ k \in Candidates
  BY <1>1, <1>2 DEF Candidates
<1>4. ASSUME Pending # {}, NEW k \in Candidates, rows[k].id <= LastRowid(Pending) PROVE k \in Pending
  <2>1. \E p \in Pending : rows[p].id = LastRowid(Pending)
    BY <1>4, LastRowidFacts, PendingFacts DEF DataInv
  <2> QED BY <2>1, <1>4, PendingFacts DEF DataInv
<1>5. Pending # {} => LastRowid(Pending) \in Nat
  BY LastRowidFacts, PendingFacts DEF DataInv
<1> QED BY <1>3, <1>4, <1>5, PendingFacts DEF DataInv

\* A window's last rowid.
LEMMA WindowFacts ==
    ASSUME NEW ids \in SUBSET Nat, job.cursor \in Nat, InWindow(ids) # {}
    PROVE  /\ Last(InWindow(ids)) \in Nat /\ job.cursor < Last(InWindow(ids))
           /\ \A i \in ids : i <= Last(InWindow(ids)) => i <= job.cursor \/ i \in InWindow(ids)
<1> DEFINE W == InWindow(ids)
<1>1. \A i \in ids : i \in W <=> job.cursor < i /\ i <= job.cursor + Window
  BY DEF InWindow
<1>2. W \in SUBSET ids
  BY DEF InWindow
<1>3. job.cursor + Window \in Nat
  BY BoundAssumption
<1>4. Last(W) = CHOOSE n \in W : \A m \in W : m <= n
  BY DEF Last
<1> HIDE DEF W
<1>5. \E n \in W : \A m \in W : m <= n
  <2>1. W \in SUBSET Nat /\ W # {} /\ \A i \in W : i <= job.cursor + Window
    BY <1>1, <1>2 DEF W
  <2> QED BY <2>1, <1>3, BoundedMax
<1>6. Last(W) \in W
  BY <1>4, <1>5
<1>7. /\ Last(W) \in Nat /\ job.cursor < Last(W)
      /\ \A i \in ids : i <= Last(W) => i <= job.cursor \/ i \in W
  <2>1. Last(W) \in ids /\ job.cursor < Last(W) /\ Last(W) <= job.cursor + Window
    BY <1>1, <1>2, <1>6
  <2>2. ASSUME NEW i \in ids, i <= Last(W), ~(i <= job.cursor) PROVE i \in W
    <3>1. i \in Nat /\ Last(W) \in Nat /\ job.cursor \in Nat /\ job.cursor + Window \in Nat
      BY <2>1, <1>3
    <3> DEFINE last == Last(W)
               end == job.cursor + Window
    <3> HIDE DEF last, end
    <3>2. i <= last /\ last <= end /\ i \in Nat /\ last \in Nat /\ end \in Nat
      BY <2>1, <2>2, <3>1 DEF last, end
    <3>3. job.cursor < i /\ i <= job.cursor + Window
      BY <2>2, <3>1, <3>2 DEF end
    <3> QED BY <3>3, <1>1
  <2> QED BY <2>1, <2>2
<1> QED BY <1>7 DEF W

-----------------------------------------------------------------------------
(* Steps that write the side tables and no row                             *)

\* What such a step does to the side tables.
SideKept ==
  /\ side' \in [Families -> SUBSET Entries]
  /\ \A f \in Families : \A e \in side'[f] : Fresh(f, e)
  /\ \A f \in {"func", "ref"} : \A k \in Keys : HasDated(f, k) => HasDated(f, k)'

\* What is derived from the rows is fresh.
LEMMA DerivedFresh ==
    ASSUME TypeOK, NEW f \in Families, NEW ks \in SUBSET Stored
    PROVE  \A e \in DerivedOf(f, ks, rows) : Fresh(f, e)
<1>1. ks \in SUBSET Keys /\ \A k \in ks : rows[k] \in RowSet
  BY StoredFacts
<1>2. \A e \in DerivedOf(f, ks, rows) :
        e \in Entries /\ e.key \in ks /\ e.ver = rows[e.key].ver /\ e.dated = Dated(e.key)
  BY <1>1, DerivedFacts
<1> QED BY <1>2 DEF Fresh, Stored

\* A step that only adds fresh entries.
LEMMA AddedFresh ==
    ASSUME TypeOK, SideInv, side' \in [Families -> SUBSET Entries],
           \A f \in Families : \A e \in side'[f] : e \in side[f] \/ Fresh(f, e),
           \A f \in {"func", "ref"} : side[f] \subseteq side'[f]
    PROVE  SideKept
  BY DEF SideKept, SideInv, HasDated

\* A chunk that rewrites the entries of its rows in one table.
LEMMA RewriteSide ==
    ASSUME TypeOK, IdInv, SideInv, NEW op, NEW f \in Families, f # "env", RewriteChunk(op, f)
    PROVE  SideKept /\ \A k \in Pending : Dated(k) => HasDated(f, k)'
<1> DEFINE new == Rewritten(f, side[f], Pending, rows)
<1>1. Pending \in SUBSET Stored /\ Pending \in SUBSET Keys /\ \A k \in Pending : rows[k] \in RowSet
  BY PendingFacts, StoredFacts DEF DataInv
<1>2. side' = [side EXCEPT ![f] = new] /\ side \in [Families -> SUBSET Entries]
  BY DEF RewriteChunk, TypeOK
<1>3. side[f] \in SUBSET Entries
  BY <1>2
<1>4. /\ new \in SUBSET Entries
      /\ \A e \in new : \/ e \in side[f] /\ e.key \notin Pending
                        \/ e.key \in Pending /\ e.ver = rows[e.key].ver /\ e.dated = Dated(e.key)
      /\ \A e \in side[f] : e.key \notin Pending => e \in new
      /\ \A k \in Pending : \E e \in new : e.key = k /\ e.dated = Dated(k)
  BY <1>1, <1>3, RewrittenFacts
<1> HIDE DEF new
<1>5. side' \in [Families -> SUBSET Entries] /\ side'[f] = new /\ \A g \in Families : g # f => side'[g] = side[g]
  BY <1>2, <1>4
<1>6. \A e \in new : Fresh(f, e)
  BY <1>1, <1>4 DEF Fresh, SideInv, Stored
<1>7. \A k \in Pending : Dated(k) => HasDated(f, k)'
  BY <1>4, <1>5 DEF HasDated
<1>8. ASSUME NEW g \in {"func", "ref"}, NEW k \in Keys, HasDated(g, k) PROVE HasDated(g, k)'
  <2>1. g \in Families
    BY DEF Families
  <2>2. PICK e \in side[g] : e.key = k /\ e.dated
    BY <1>8 DEF HasDated
  <2>3. Dated(k)
    BY <2>1, <2>2 DEF SideInv, Fresh
  <2>4. CASE g # f
    BY <2>1, <2>2, <2>4, <1>5 DEF HasDated
  <2>5. CASE g = f /\ k \in Pending
    BY <2>3, <2>5, <1>7
  <2>6. CASE g = f /\ k \notin Pending
    BY <2>2, <2>6, <1>4, <1>5 DEF HasDated
  <2> QED BY <2>4, <2>5, <2>6
<1> QED BY <1>5, <1>6, <1>7, <1>8 DEF SideKept, SideInv

LEMMA EmailsSide ==
    ASSUME TypeOK, IdInv, SideInv, EmailsChunk
    PROVE  SideKept
<1>1. Pending \in SUBSET Stored /\ Pending \in SUBSET Keys /\ \A k \in Pending : rows[k] \in RowSet
  BY PendingFacts, StoredFacts DEF DataInv
<1>2. side' = [f \in Families |-> Emails(f, Pending)] /\ side \in [Families -> SUBSET Entries]
  BY DEF EmailsChunk, TypeOK
<1>3. \A f \in Families : /\ side[f] \in SUBSET Entries
                          /\ Rewritten(f, side[f], Pending, rows) \in SUBSET Entries
                          /\ DerivedOf(f, Pending, rows) \in SUBSET Entries
  BY <1>1, <1>2, RewrittenFacts, DerivedFacts
<1>4. \A f \in Families : /\ side'[f] = Emails(f, Pending)
                          /\ f \notin {"trailer", "env"} => side'[f] = side[f]
  BY <1>2 DEF Emails
<1>5. \A f \in Families : Emails(f, Pending) \in SUBSET Entries
  BY <1>3 DEF Emails
<1>6. side' \in [Families -> SUBSET Entries]
  BY <1>2, <1>5
<1>7. ASSUME NEW f \in Families, NEW e \in side'[f] PROVE e \in side[f] \/ Fresh(f, e)
  <2>1. e \in side[f] \/ e \in DerivedOf(f, Pending, rows)
    BY <1>7, <1>4 DEF Emails, Rewritten
  <2> QED BY <2>1, <1>1, DerivedFresh
<1>8. \A f \in {"func", "ref"} : side[f] \subseteq side'[f]
  BY <1>4 DEF Families
<1> QED BY <1>6, <1>7, <1>8, AddedFresh

LEMMA EnvelopesSide ==
    ASSUME TypeOK, IdInv, SideInv, EnvelopesChunk
    PROVE  SideKept
<1>1. Pending \in SUBSET Stored /\ Pending \in SUBSET Keys /\ \A k \in Pending : rows[k] \in RowSet
  BY PendingFacts, StoredFacts DEF DataInv
<1>2. PICK bad \in SUBSET Pending : side' = [f \in Families |-> Envelopes(f, Pending, bad)]
  BY DEF EnvelopesChunk
<1>3. side \in [Families -> SUBSET Entries]
  BY DEF TypeOK
<1>4. ASSUME NEW k \in Pending PROVE Entry(k, rows[k].ver) \in Entries /\ Fresh("env", Entry(k, rows[k].ver))
  BY <1>1 DEF Entry, Entries, RowSet, Dated, Fresh, Stored
<1>5. \A f \in Families : /\ Envelopes(f, Pending, bad) \in SUBSET Entries
                          /\ f # "env" => Envelopes(f, Pending, bad) = side[f]
                          /\ \A e \in Envelopes(f, Pending, bad) : e \in side[f] \/ Fresh(f, e)
  BY <1>3, <1>4 DEF Envelopes
<1>6. side' \in [Families -> SUBSET Entries] /\ \A f \in Families : side'[f] = Envelopes(f, Pending, bad)
  BY <1>2, <1>5
<1>7. \A f \in {"func", "ref"} : side[f] \subseteq side'[f]
  BY <1>5, <1>6 DEF Families
<1> QED BY <1>5, <1>6, <1>7, AddedFresh

\* The date backfill gives entries the date of their row and changes nothing else.
LEMMA DatesSide ==
    ASSUME TypeOK, SideInv, MailsInv, DatesChunk
    PROVE  /\ SideKept
           /\ mails' \subseteq [id : Nat, key : Keys, dated : BOOLEAN]
           /\ \A e \in mails' : rows[e.key] # NoRow
<1>0. PICK n \in DOMAIN DateTables : \E part \in SUBSET ToDate(TableAt(n)) \ {{}} :
        IF DateTables[n] = "mails"
        THEN mails' = DatedIn(mails, part) /\ UNCHANGED side
        ELSE side' = [side EXCEPT ![DateTables[n]] = DatedIn(@, part)] /\ UNCHANGED mails
  BY DEF DatesChunk
<1>1. PICK part \in SUBSET ToDate(TableAt(n)) :
        IF DateTables[n] = "mails"
        THEN mails' = DatedIn(mails, part) /\ UNCHANGED side
        ELSE side' = [side EXCEPT ![DateTables[n]] = DatedIn(@, part)] /\ UNCHANGED mails
  BY <1>0
<1>2. /\ side \in [Families -> SUBSET Entries] /\ mails \subseteq [id : Nat, key : Keys, dated : BOOLEAN]
      /\ rows \in [Keys -> {NoRow} \cup RowSet]
  BY DEF TypeOK, RowSet
<1>3. CASE DateTables[n] = "mails"
  <2>1. part \subseteq mails /\ mails' = DatedIn(mails, part) /\ side' = side
    BY <1>1, <1>3 DEF TableAt, ToDate
  <2>2. \A e \in mails : [e EXCEPT !.dated = TRUE] \in [id : Nat, key : Keys, dated : BOOLEAN]
                         /\ [e EXCEPT !.dated = TRUE].key = e.key
    BY <1>2
  <2>3. \A e \in mails' : e \in mails \/ \E d \in mails : e = [d EXCEPT !.dated = TRUE]
    BY <2>1 DEF DatedIn
  <2>4. SideKept
    BY <2>1, <1>2 DEF SideKept, SideInv, HasDated
  <2> QED BY <2>2, <2>3, <2>4, <1>2 DEF MailsInv
<1>4. CASE DateTables[n] # "mails"
  <2> DEFINE t == DateTables[n]
  <2>1. t \in {"ref", "file", "func"}
    BY <1>4 DEF DateTables
  <2>2. t \in Families
    BY <2>1 DEF Families
  <2>3. /\ side' = [side EXCEPT ![t] = DatedIn(side[t], part)] /\ mails' = mails
        /\ part \subseteq side[t] /\ \A e \in part : ~e.dated /\ Dated(e.key)
    BY <1>1, <1>4 DEF TableAt, ToDate
  <2> HIDE DEF t
  <2>4. \A e \in part : LET d == [e EXCEPT !.dated = TRUE] IN
          d \in Entries /\ d.key = e.key /\ d.ver = e.ver /\ d.dated
    <3>1. \A e \in part : e \in Entries
      BY <2>2, <2>3, <1>2
    <3> QED BY <3>1 DEF Entries
  <2>5. DatedIn(side[t], part) \in SUBSET Entries
    BY <2>2, <2>4, <1>2 DEF DatedIn
  <2>6. /\ side' \in [Families -> SUBSET Entries] /\ side'[t] = DatedIn(side[t], part)
        /\ \A f \in Families : f # t => side'[f] = side[f]
    BY <2>2, <2>3, <2>5, <1>2
  <2>7. ASSUME NEW e \in side'[t] PROVE Fresh(t, e)
    <3>1. CASE e \in side[t]
      BY <3>1, <2>2 DEF SideInv
    <3>2. CASE e \notin side[t]
      <4>1. PICK d \in part : e = [d EXCEPT !.dated = TRUE]
        BY <3>2, <2>6, <2>7 DEF DatedIn
      <4>2. e \in Entries /\ e.key = d.key /\ e.ver = d.ver /\ Dated(d.key) /\ Fresh(t, d)
        BY <4>1, <2>2, <2>3, <2>4 DEF SideInv
      <4> QED BY <4>2 DEF Fresh
    <3> QED BY <3>1, <3>2
  <2>8. \A f \in Families : \A e \in side'[f] : Fresh(f, e)
    BY <2>6, <2>7 DEF SideInv
  <2>9. ASSUME NEW f \in {"func", "ref"}, NEW k \in Keys, HasDated(f, k) PROVE HasDated(f, k)'
    <3>1. PICK e \in side[f] : e.key = k /\ e.dated
      BY <2>9 DEF HasDated
    <3>2. f \in Families
      BY DEF Families
    <3>3. e \in side'[f]
      BY <3>1, <3>2, <2>3, <2>6 DEF DatedIn
    <3> QED BY <3>1, <3>3 DEF HasDated
  <2> QED BY <2>3, <2>6, <2>8, <2>9, <1>2 DEF SideKept, MailsInv
<1> QED BY <1>3, <1>4

LEMMA MigrateSide ==
    ASSUME TypeOK, IdInv, SideInv, MailsInv, MigrateMails \/ MigrateFrom
    PROVE  SideKept
<1>1. side \in [Families -> SUBSET Entries] /\ mails \subseteq [id : Nat, key : Keys, dated : BOOLEAN]
  BY DEF TypeOK
<1>2. CASE side' = side
  BY <1>1, <1>2 DEF SideKept, SideInv, HasDated
<1>3. ASSUME NEW f \in {"trailer", "from"}, NEW new \in SUBSET Entries, \A e \in new : Fresh(f, e),
             side' = [side EXCEPT ![f] = @ \cup new]
      PROVE  SideKept
  <2>1. f \in Families /\ {"func", "ref"} \subseteq Families
    BY DEF Families
  <2>2. /\ side' \in [Families -> SUBSET Entries] /\ side'[f] = side[f] \cup new
        /\ \A g \in Families : g # f => side'[g] = side[g]
    BY <1>1, <1>3, <2>1
  <2>3. \A g \in Families : \A e \in side'[g] : e \in side[g] \/ Fresh(g, e)
    BY <1>3, <2>2
  <2>4. \A g \in {"func", "ref"} : side[g] \subseteq side'[g]
    BY <2>1, <2>2
  <2> QED BY <2>2, <2>3, <2>4, AddedFresh
<1>4. CASE MigrateMails /\ side' # side
  <2> DEFINE Moved == {x \in mails : x.id \in ToMove(MailIds)}
             new == {[key |-> e.key, ver |-> 0, dated |-> e.dated] : e \in Moved}
  <2>1. side' = [side EXCEPT !["trailer"] = @ \cup new]
    BY <1>4 DEF MigrateMails
  <2>2. \A e \in Moved : [key |-> e.key, ver |-> 0, dated |-> e.dated] \in Entries /\ rows[e.key] # NoRow
    BY <1>1, SetFacts DEF MailsInv, Entries
  <2>3. new \in SUBSET Entries /\ \A e \in new : Fresh("trailer", e)
    BY <2>2 DEF Fresh
  <2> QED BY <2>1, <2>3, <1>3
<1>5. CASE MigrateFrom /\ side' # side
  <2> DEFINE ks == {k \in Stored : rows[k].id \in InWindow(RowIds)}
             new == DerivedOf("from", ks, rows)
  <2>1. side' = [side EXCEPT !["from"] = @ \cup new]
    BY <1>5 DEF MigrateFrom
  <2>2. ks \in SUBSET Stored /\ "from" \in Families
    BY DEF Families
  <2>3. \A e \in new : Fresh("from", e)
    BY <2>2, DerivedFresh
  <2>4. new \in SUBSET Entries
    BY <2>3 DEF Fresh
  <2> HIDE DEF new
  <2> QED BY <2>1, <2>3, <2>4, <1>3
<1> QED BY <1>2, <1>4, <1>5

-----------------------------------------------------------------------------
(* Steps that write rows                                                   *)

\* What such a step leaves: the data typed, numbered and indexed.
RowsKept ==
  /\ rows' \in [Keys -> {NoRow} \cup RowSet] /\ lastId' \in Nat
  /\ IdInv' /\ side' \in [Families -> SUBSET Entries] /\ SideInv'
  /\ \A f \in {"func", "ref"} : Whole(f) => Whole(f)'

LEMMA InsertRows ==
    ASSUME TypeOK, IdInv, JobInv, SideInv, InsertBatch
    PROVE  /\ RowsKept /\ \A k \in Stored : rows'[k] # NoRow
           /\ \A k \in Keys : HasTrailer(k) => HasTrailer(k)'
           /\ \A k \in Stored' : k \in Stored \/ HasTrailer(k)'
<1> DEFINE ks == KeysOf(job.file)
           new == Replaced(rows, lastId, job.file)
<1>1. job.file \in Files
  BY DEF InsertBatch, JobInv
<1>2. /\ lastId + Cardinality(job.file.mids) \in Nat /\ lastId <= lastId + Cardinality(job.file.mids)
      /\ ks \subseteq Keys /\ new \in [Keys -> {NoRow} \cup RowSet]
      /\ \A k \in Keys : k \notin ks => new[k] = rows[k]
      /\ \A k \in ks : /\ new[k] \in RowSet /\ new[k].ver = job.file.ver
                       /\ lastId < new[k].id /\ new[k].id <= lastId + Cardinality(job.file.mids)
      /\ \A k, q \in ks : new[k].id = new[q].id => k = q
  BY <1>1, ReplacedFacts
<1>3. /\ rows' = new /\ lastId' = lastId + Cardinality(job.file.mids)
      /\ side' = [f \in Families |-> Rewritten(f, side[f], ks, new)]
  BY DEF InsertBatch
<1> HIDE DEF new, ks
<1>4. /\ rows' \in [Keys -> {NoRow} \cup RowSet] /\ lastId \in Nat /\ lastId' \in Nat /\ lastId <= lastId'
      /\ \A k \in Keys : k \notin ks => rows'[k] = rows[k]
      /\ \A k \in ks : k \in Keys /\ rows'[k] \in RowSet /\ lastId < rows'[k].id /\ rows'[k].id <= lastId'
      /\ \A k, q \in ks : rows'[k].id = rows'[q].id => k = q
  BY <1>2, <1>3 DEF TypeOK
<1>5. \A k \in Stored' : \/ k \in ks
                         \/ k \notin ks /\ k \in Stored /\ rows'[k] = rows[k]
  BY <1>4 DEF Stored
<1>6. \A k \in Stored : rows[k].id \in Nat /\ rows[k].id <= lastId
  BY StoredFacts DEF IdInv
<1>7. IdInv'
  <2>1. ASSUME NEW k \in Stored' PROVE rows'[k].id <= lastId'
    <3>1. CASE k \in ks
      BY <3>1, <1>4
    <3>2. CASE k \notin ks
      BY <3>2, <1>4, <1>5, <1>6
    <3> QED BY <3>1, <3>2
  <2>2. ASSUME NEW k \in Stored', NEW q \in Stored', rows'[k].id = rows'[q].id PROVE k = q
    <3>1. CASE k \in ks /\ q \in ks
      BY <3>1, <2>2, <1>4
    <3>2. CASE k \notin ks /\ q \notin ks
      BY <3>2, <2>2, <1>5 DEF IdInv
    <3>3. \A p \in ks : rows'[p].id \in Nat /\ lastId < rows'[p].id
      BY <1>4 DEF RowSet
    <3>4. \A p \in Stored' : p \notin ks => rows'[p].id \in Nat /\ rows'[p].id <= lastId
      BY <1>5, <1>6
    <3>5. ~(k \in ks /\ q \notin ks) /\ ~(k \notin ks /\ q \in ks)
      BY <2>2, <3>3, <3>4, <1>4
    <3> QED BY <3>1, <3>2, <3>5
  <2> QED BY <2>1, <2>2 DEF IdInv
<1>8. ASSUME NEW f \in Families
      PROVE  /\ side'[f] \in SUBSET Entries
             /\ \A e \in side'[f] : \/ e \in side[f] /\ e.key \notin ks
                                    \/ e.key \in ks /\ e.ver = rows'[e.key].ver /\ e.dated = Dated(e.key)
             /\ \A e \in side[f] : e.key \notin ks => e \in side'[f]
             /\ f # "env" => \A k \in ks : \E e \in side'[f] : e.key = k /\ e.dated = Dated(k)
  <2>1. side'[f] = Rewritten(f, side[f], ks, rows')
    BY <1>3
  <2>2. ks \in SUBSET Keys /\ side[f] \in SUBSET Entries /\ \A k \in ks : rows'[k] \in RowSet
    BY <1>2, <1>4 DEF TypeOK
  <2> QED BY <2>1, <2>2, RewrittenFacts
<1>9. ASSUME NEW f \in Families, NEW e \in side'[f] PROVE Fresh(f, e)'
  <2>1. e \in Entries /\ e.key \in Keys
    BY <1>8, <1>9 DEF Entries
  <2>2. CASE e \in side[f] /\ e.key \notin ks
    BY <2>1, <2>2, <1>4 DEF SideInv, Fresh
  <2>3. CASE e.key \in ks /\ e.ver = rows'[e.key].ver /\ e.dated = Dated(e.key)
    BY <2>1, <2>3, <1>4, SetFacts DEF Fresh
  <2> QED BY <2>2, <2>3, <1>8
<1>10. side' \in [Families -> SUBSET Entries]
  BY <1>3, <1>8
<1>11. ASSUME NEW f \in {"func", "ref"}, Whole(f), NEW k \in Stored', Dated(k) PROVE HasDated(f, k)'
  <2>1. f \in Families /\ f # "env"
    BY DEF Families
  <2>2. CASE k \in ks
    BY <2>1, <2>2, <1>8, <1>11 DEF HasDated
  <2>3. CASE k \notin ks
    <3>1. \E e \in side[f] : e.key = k /\ e.dated
      BY <2>3, <1>5, <1>11 DEF Whole, HasDated
    <3> QED BY <3>1, <2>1, <2>3, <1>8 DEF HasDated
  <2> QED BY <2>2, <2>3
<1>12. \A k \in Stored : rows'[k] # NoRow
  BY <1>4, SetFacts DEF Stored
<1>13. \A k \in ks : HasTrailer(k)'
  <2>1. "trailer" \in Families
    BY DEF Families
  <2> QED BY <2>1, <1>8 DEF HasTrailer, EntriesOf
<1>14. \A k \in Keys : HasTrailer(k) => HasTrailer(k)'
  <2>1. ASSUME NEW k \in Keys, HasTrailer(k), k \notin ks PROVE HasTrailer(k)'
    <3>1. "trailer" \in Families
      BY DEF Families
    <3>2. PICK e \in side["trailer"] : e.key = k
      BY <2>1 DEF HasTrailer, EntriesOf
    <3>3. e \in side'["trailer"]
      BY <2>1, <3>1, <3>2, <1>8
    <3> QED BY <3>2, <3>3 DEF HasTrailer, EntriesOf
  <2> QED BY <2>1, <1>13
<1> QED BY <1>4, <1>5, <1>7, <1>9, <1>10, <1>11, <1>12, <1>13, <1>14 DEF RowsKept, SideInv, Whole

LEMMA BuiltRows ==
    ASSUME TypeOK, BuildPublish
    PROVE  RowsKept /\ Whole("func")' /\ Whole("ref")' /\ \A k \in Stored' : HasTrailer(k)'
<1> DEFINE ks == Scanned(build)
           N == Cardinality(ks)
<1>1. ks \subseteq Keys /\ N \in Nat /\ \A k \in ks : VersionIn(build, k) \in Versions
  BY ScannedFacts DEF TypeOK
<1>2. PICK ids \in [ks -> 1..N] :
        /\ \A k, q \in DOMAIN ids : ids[k] = ids[q] => k = q
        /\ rows' = [k \in Keys |-> IF k \in DOMAIN ids THEN BuiltRow(build, k, ids[k]) ELSE NoRow]
  BY DEF BuildPublish
<1>3. lastId' = N /\ side' = [f \in Families |-> DerivedOf(f, ks, rows')]
  BY DEF BuildPublish
<1> HIDE DEF ks, N
<1>4. ASSUME NEW k \in ks PROVE rows'[k] \in RowSet /\ rows'[k].id = ids[k] /\ ids[k] \in 1..N
  <2>1. ids[k] \in 1..N /\ ids[k] \in Nat \ {0} /\ rows'[k] = BuiltRow(build, k, ids[k])
    BY <1>1, <1>2
  <2> QED BY <2>1, <1>1 DEF BuiltRow, RowSet
<1>5. \A k \in Keys : k \notin ks => rows'[k] = NoRow
  BY <1>2
<1>6. rows' \in [Keys -> {NoRow} \cup RowSet]
  <2>1. \A k \in Keys : rows'[k] \in {NoRow} \cup RowSet
    BY <1>4, <1>5
  <2> QED BY <2>1, <1>2
<1>7. Stored' = ks
  BY <1>1, <1>4, <1>5, SetFacts DEF Stored
<1>8. IdInv'
  BY <1>1, <1>2, <1>3, <1>4, <1>7 DEF IdInv
<1>9. ASSUME NEW f \in Families
      PROVE  /\ \A e \in side'[f] :
                  e \in Entries /\ e.key \in ks /\ e.ver = rows'[e.key].ver /\ e.dated = Dated(e.key)
             /\ f # "env" => \A k \in ks : \E e \in side'[f] : e.key = k /\ e.dated = Dated(k)
  <2>1. side'[f] = DerivedOf(f, ks, rows')
    BY <1>3
  <2> QED BY <2>1, <1>1, <1>4, DerivedFacts
<1>10. side' \in [Families -> SUBSET Entries]
  BY <1>3, <1>9
<1>11. SideInv'
  <2>1. ASSUME NEW f \in Families, NEW e \in side'[f] PROVE Fresh(f, e)'
    BY <1>9, <1>4, SetFacts DEF Fresh
  <2> QED BY <2>1 DEF SideInv
<1>12. \A f \in {"func", "ref"} : Whole(f)'
  <2>1. ASSUME NEW f \in {"func", "ref"}, NEW k \in Stored', Dated(k) PROVE HasDated(f, k)'
    <3>1. f \in Families /\ f # "env"
      BY DEF Families
    <3> QED BY <3>1, <2>1, <1>7, <1>9 DEF HasDated
  <2> QED BY <2>1 DEF Whole
<1>13. \A k \in Stored' : HasTrailer(k)'
  <2>1. "trailer" \in Families
    BY DEF Families
  <2> QED BY <2>1, <1>7, <1>9 DEF HasTrailer, EntriesOf
<1> QED BY <1>1, <1>3, <1>6, <1>8, <1>10, <1>11, <1>12, <1>13 DEF RowsKept

-----------------------------------------------------------------------------
(* The inductive invariant is preserved                                    *)

MailSet == [id : Nat, key : Keys, dated : BOOLEAN]
ChunkAction ==
  \/ SubjectsChunk \/ FilesChunk \/ FunctionsChunk \/ RefsChunk \/ EmailsChunk \/ EnvelopesChunk
QuietAction ==
  \/ StartMaintenance \/ StartIngest \/ MarkCreated \/ Begin \/ Crash \/ EndOnOrphan \/ WriteParquet
  \/ BackfillDone \/ DatesTableDone \/ MigrateDrop \/ BuildStart \/ BuildCrash

\* A step is one of these, or writes rows.
LEMMA ActionKinds ==
    Next <=> \/ QuietAction \/ ChunkAction \/ DatesChunk \/ MigrateMails \/ MigrateFrom
             \/ InsertBatch \/ BuildPublish
  BY DEF Next, JobStep, QuietAction, ChunkAction

LEMMA QuietUnchanged ==
    ASSUME QuietAction
    PROVE  UNCHANGED <<rows, lastId, side>> /\ (mails' = mails \/ mails' = {})
  BY DEF QuietAction, StartMaintenance, StartIngest, StartJob, MarkCreated, Begin, Crash, EndOnOrphan,
         WriteParquet, BackfillDone, DatesTableDone, MigrateDrop, BuildStart, BuildCrash, db

LEMMA ChunkUnchanged ==
    ASSUME ChunkAction
    PROVE  /\ UNCHANGED <<parquet, exists, rows, lastId, mails, meta, jobs, build>>
           /\ job.at = "chunk" /\ ~job.stale /\ Pending # {}
           /\ job' = [job EXCEPT !.cursor = LastRowid(Pending)]
  BY DEF ChunkAction, SubjectsChunk, FilesChunk, FunctionsChunk, RefsChunk, EmailsChunk, EnvelopesChunk,
         RewriteChunk, ChunkOf

LEMMA ChunkSide ==
    ASSUME TypeOK, IdInv, SideInv, ChunkAction
    PROVE  SideKept
  BY RewriteSide, EmailsSide, EnvelopesSide
     DEF ChunkAction, SubjectsChunk, FilesChunk, FunctionsChunk, RefsChunk, Families

\* A step that writes no row.
LEMMA SameRows ==
    ASSUME IInv, Next, ~InsertBatch, ~BuildPublish
    PROVE  /\ rows' = rows /\ lastId' = lastId /\ SideKept
           /\ mails' \subseteq MailSet /\ \A e \in mails' : rows[e.key] # NoRow
<1> USE DEF IInv, DataInv
<1>1. mails \subseteq MailSet /\ side \in [Families -> SUBSET Entries]
  BY DEF TypeOK, MailSet
<1>2. CASE QuietAction
  <2>1. side' = side /\ rows' = rows /\ lastId' = lastId /\ (mails' = mails \/ mails' = {})
    BY <1>2, QuietUnchanged
  <2>2. SideKept
    BY <1>1, <2>1 DEF SideKept, SideInv, HasDated
  <2> QED BY <1>1, <2>1, <2>2 DEF MailsInv
<1>3. CASE ChunkAction
  BY <1>1, <1>3, ChunkUnchanged, ChunkSide DEF MailsInv
<1>4. CASE DatesChunk
  BY <1>4, DatesSide DEF DatesChunk, MailSet
<1>5. CASE MigrateMails \/ MigrateFrom
  <2>1. UNCHANGED <<rows, lastId, mails>>
    BY <1>5 DEF MigrateMails, MigrateFrom
  <2> QED BY <2>1, <1>1, <1>5, MigrateSide DEF MailsInv
<1> QED BY <1>2, <1>3, <1>4, <1>5, ActionKinds

\* The rows and what is indexed of them, after any step.
LEMMA DataStep ==
    ASSUME IInv, Next
    PROVE  /\ rows' \in [Keys -> {NoRow} \cup RowSet] /\ lastId' \in Nat
           /\ side' \in [Families -> SUBSET Entries] /\ mails' \subseteq MailSet
           /\ IdInv' /\ SideInv' /\ MailsInv'
<1> USE DEF IInv, DataInv
<1>1. CASE InsertBatch
  <2>1. RowsKept /\ (\A k \in Stored : rows'[k] # NoRow) /\ mails' = mails
    BY <1>1, InsertRows DEF InsertBatch
  <2>2. \A e \in mails : e.key \in Keys /\ rows[e.key] # NoRow
    BY DEF MailsInv, TypeOK
  <2>3. MailsInv'
    BY <2>1, <2>2 DEF MailsInv, Stored
  <2> QED BY <2>1, <2>3 DEF RowsKept, TypeOK, MailSet
<1>2. CASE BuildPublish
  <2>1. mails' = {}
    BY <1>2 DEF BuildPublish
  <2> QED BY <1>2, <2>1, BuiltRows DEF RowsKept, MailsInv
<1>3. CASE ~InsertBatch /\ ~BuildPublish
  <2>1. /\ rows' = rows /\ lastId' = lastId /\ SideKept
        /\ mails' \subseteq MailSet /\ \A e \in mails' : rows[e.key] # NoRow
    BY <1>3, SameRows
  <2>2. Stored' = Stored
    BY <2>1 DEF Stored
  <2>3. IdInv'
    BY <2>1, <2>2 DEF IdInv
  <2>4. SideInv'
    BY <2>1 DEF SideKept, SideInv, Fresh
  <2> QED BY <2>1, <2>3, <2>4 DEF SideKept, MailsInv, TypeOK, RowSet
<1> QED BY <1>1, <1>2, <1>3

\* The cursor of a migration after a window.
LEMMA MigrateCursor ==
    ASSUME IInv, MigrateMails \/ MigrateFrom
    PROVE  \E n \in Nat, at \in {job.at, "from", "drop"} :
             job' = [job EXCEPT !.at = at, !.cursor = n]
<1> USE DEF IInv, DataInv
<1>1. job.cursor \in Nat /\ MailIds \in SUBSET Nat /\ RowIds \in SUBSET Nat
  BY StoredFacts DEF TypeOK, MailIds, RowIds
<1>2. job \in [op : Maintenance \cup {"idle", "ingest"}, at : Places, cursor : Nat,
               stale : BOOLEAN, file : Files \cup {NoFile}]
  BY DEF TypeOK
<1>3. CASE MigrateMails
  <2>1. CASE InWindow(MailIds) = {}
    BY <1>3, <2>1 DEF MigrateMails
  <2>2. CASE InWindow(MailIds) # {}
    <3>1. Last(InWindow(MailIds)) \in Nat
      BY <1>1, <2>2, WindowFacts
    <3>2. job' = [job EXCEPT !.at = job.at, !.cursor = Last(InWindow(MailIds))]
      BY <1>2, <1>3, <2>2 DEF MigrateMails
    <3> QED BY <3>1, <3>2
  <2> QED BY <2>1, <2>2
<1>4. CASE MigrateFrom
  <2>1. CASE InWindow(RowIds) = {}
    <3>1. job' = [job EXCEPT !.at = "drop", !.cursor = job.cursor]
      BY <1>2, <1>4, <2>1 DEF MigrateFrom
    <3> QED BY <3>1, <1>1
  <2>2. CASE InWindow(RowIds) # {}
    <3>1. Last(InWindow(RowIds)) \in Nat
      BY <1>1, <2>2, WindowFacts
    <3>2. job' = [job EXCEPT !.at = job.at, !.cursor = Last(InWindow(RowIds))]
      BY <1>2, <1>4, <2>2 DEF MigrateFrom
    <3> QED BY <3>1, <3>2
  <2> QED BY <2>1, <2>2
<1> QED BY <1>3, <1>4

\* What a new job is started with, and what it leaves alone.
LEMMA NewJob ==
    ASSUME StartMaintenance \/ StartIngest
    PROVE  /\ \E op \in Maintenance \cup {"ingest"}, file \in Files \cup {NoFile} :
                StartJob(op, file) /\ (op = "ingest" => file \in Files)
           /\ jobs' = jobs + 1 /\ exists' = TRUE /\ job'.at = MarkIfCreated("begin")
           /\ UNCHANGED <<parquet, rows, lastId, side, mails, meta, build>>
<1>1. \E op \in Maintenance \cup {"ingest"}, file \in Files \cup {NoFile} :
        StartJob(op, file) /\ (op = "ingest" => file \in Files)
  <2>1. CASE StartMaintenance
    BY <2>1 DEF StartMaintenance, Maintenance, Backfills
  <2>2. CASE StartIngest
    <3>1. PICK l \in Lists, ms \in SUBSET Mids, v \in Parsers :
            StartJob("ingest", [list |-> l, mids |-> ms, ver |-> v])
      BY <2>2 DEF StartIngest
    <3>2. [list |-> l, mids |-> ms, ver |-> v] \in Files
      BY DEF Files, Versions
    <3> QED BY <3>1, <3>2
  <2> QED BY <2>1, <2>2
<1>2. PICK op, file : StartJob(op, file)
  BY <1>1
<1> QED BY <1>1, <1>2 DEF StartJob

JobSet == [op : Maintenance \cup {"idle", "ingest"}, at : Places, cursor : Nat,
           stale : BOOLEAN, file : Files \cup {NoFile}]

\* Where a job goes, and that it stays one.
LEMMA JobStepKept ==
    ASSUME IInv, Next
    PROVE  job' \in JobSet /\ JobInv'
<1> USE DEF IInv, DataInv
<1>1. job \in JobSet /\ exists \in BOOLEAN
  BY DEF TypeOK, JobSet
<1>2. Idle \in JobSet
  BY DEF Idle, JobSet, Places
<1>3. ASSUME job' = Idle PROVE job' \in JobSet /\ JobInv'
  BY <1>2, <1>3 DEF Idle, JobInv
<1>4. CASE StartMaintenance \/ StartIngest
  <2>1. PICK op \in Maintenance \cup {"ingest"}, file \in Files \cup {NoFile} :
          StartJob(op, file) /\ (op = "ingest" => file \in Files)
    BY <1>4, NewJob
  <2>2. /\ job' = [op |-> op, at |-> MarkIfCreated("begin"), cursor |-> 0, stale |-> FALSE, file |-> file]
        /\ exists' = TRUE
    BY <2>1 DEF StartJob
  <2>3. MarkIfCreated("begin") \in {"mark", "begin"}
    BY DEF MarkIfCreated, FirstStep
  <2>4. job' \in JobSet
    BY <2>2, <2>3 DEF JobSet, Places
  <2>5. op # "idle"
    BY DEF Maintenance, Backfills
  <2> QED BY <2>1, <2>2, <2>3, <2>4, <2>5 DEF JobInv
<1>5. CASE Crash \/ EndOnOrphan \/ MigrateDrop \/ InsertBatch \/ BackfillDone
  BY <1>3, <1>5 DEF Crash, EndOnOrphan, MigrateDrop, InsertBatch, BackfillDone
<1>6. CASE MarkCreated
  <2>1. PICK at \in {"markRef", "begin"} : job' = [job EXCEPT !.at = at]
    BY <1>6 DEF MarkCreated
  <2>2. exists' = exists /\ job.at \in {"mark", "markRef"}
    BY <1>6 DEF MarkCreated
  <2>3. job' \in JobSet
    BY <1>1, <2>1 DEF JobSet, Places
  <2>4. /\ job'.at = at /\ job'.op = job.op /\ job'.file = job.file /\ job'.cursor = job.cursor
    BY <1>1, <2>1 DEF JobSet
  <2> QED BY <2>2, <2>3, <2>4 DEF JobInv
<1>7. CASE Begin
  <2>1. PICK at \in {"parquet", "mails", "chunk"} :
          /\ job' = [job EXCEPT !.at = at]
          /\ at = "parquet" => job.op = "ingest"
          /\ at = "mails" => job.op = "migrate"
    BY <1>7 DEF Begin
  <2>2. exists' = exists /\ job.at = "begin"
    BY <1>7 DEF Begin
  <2>3. job' \in JobSet
    BY <1>1, <2>1 DEF JobSet, Places
  <2>4. job'.at = at /\ job'.op = job.op /\ job'.file = job.file
    BY <1>1, <2>1 DEF JobSet
  <2> QED BY <2>1, <2>2, <2>3, <2>4 DEF JobInv
<1>8. CASE WriteParquet
  <2>1. job' = [job EXCEPT !.at = "insert"] /\ exists' = exists /\ job.at = "parquet"
    BY <1>8 DEF WriteParquet, db
  <2>2. job' \in JobSet
    BY <1>1, <2>1 DEF JobSet, Places
  <2>3. job'.at = "insert" /\ job'.op = job.op /\ job'.file = job.file
    BY <1>1, <2>1 DEF JobSet
  <2> QED BY <2>1, <2>2, <2>3 DEF JobInv
<1>9. CASE ChunkAction
  <2>1. /\ job' = [job EXCEPT !.cursor = LastRowid(Pending)] /\ exists' = exists /\ job.at = "chunk"
        /\ Pending # {}
    BY <1>9, ChunkUnchanged
  <2>2. LastRowid(Pending) \in Nat
    BY <2>1, LastRowidFacts, PendingFacts
  <2>3. job' \in JobSet
    BY <1>1, <2>1, <2>2 DEF JobSet
  <2>4. job'.at = "chunk" /\ job'.op = job.op /\ job'.file = job.file
    BY <1>1, <2>1 DEF JobSet
  <2> QED BY <2>1, <2>3, <2>4 DEF JobInv
<1>10. CASE DatesChunk \/ BuildStart \/ BuildCrash
  BY <1>1, <1>10 DEF DatesChunk, BuildStart, BuildCrash, db, JobInv
<1>11. CASE DatesTableDone
  <2>1. /\ job' = Idle \/ job' = [job EXCEPT !.cursor = job.cursor + 1]
        /\ exists' = exists /\ job.at = "chunk" /\ job.cursor \in Nat
    BY <1>1, <1>11 DEF DatesTableDone, AtTable, db, JobSet
  <2>2. CASE job' = [job EXCEPT !.cursor = job.cursor + 1]
    <3>1. job' \in JobSet /\ job'.at = "chunk" /\ job'.op = job.op /\ job'.file = job.file
      BY <1>1, <2>1, <2>2 DEF JobSet
    <3> QED BY <2>1, <3>1 DEF JobInv
  <2> QED BY <2>1, <2>2, <1>3
<1>12. CASE MigrateMails \/ MigrateFrom
  <2>1. PICK n \in Nat, at \in {job.at, "from", "drop"} : job' = [job EXCEPT !.at = at, !.cursor = n]
    BY <1>12, MigrateCursor
  <2>2. exists' = exists /\ job.at \in {"mails", "from"} /\ job.op = "migrate"
    BY <1>12 DEF MigrateMails, MigrateFrom, JobInv
  <2>3. job' \in JobSet /\ job'.at = at /\ job'.op = job.op
    BY <1>1, <2>1, <2>2 DEF JobSet, Places
  <2> QED BY <2>1, <2>2, <2>3 DEF JobInv
<1>13. CASE BuildPublish
  <2>1. job' = [job EXCEPT !.stale = (job.op # "idle")] /\ exists' = TRUE
    BY <1>13 DEF BuildPublish
  <2>2. job' \in JobSet /\ job'.at = job.at /\ job'.op = job.op /\ job'.file = job.file /\ job'.cursor = job.cursor
    BY <1>1, <2>1 DEF JobSet
  <2> QED BY <2>1, <2>2 DEF JobInv
<1> QED BY <1>4, <1>5, <1>6, <1>7, <1>8, <1>9, <1>10, <1>11, <1>12, <1>13, ActionKinds DEF QuietAction

LEMMA TypeStep ==
    ASSUME IInv, Next
    PROVE  TypeOK'
<1> USE DEF IInv, DataInv
<1>1. job' \in JobSet /\ rows' \in [Keys -> {NoRow} \cup RowSet] /\ lastId' \in Nat
      /\ side' \in [Families -> SUBSET Entries] /\ mails' \subseteq MailSet
  BY JobStepKept, DataStep
<1> DEFINE Rest == /\ parquet' \in Seq(Files) /\ build' \in Seq(Files)
                   /\ exists' \in BOOLEAN /\ jobs' \in Nat
                   /\ meta' \in [func : {"absent", "building", "complete"}, ref : {"absent", "complete"}]
<1>9. SUFFICES Rest
  BY <1>1 DEF TypeOK, JobSet, RowSet, MailSet
<1>2. parquet \in Seq(Files) /\ build \in Seq(Files) /\ exists \in BOOLEAN /\ jobs \in Nat
      /\ meta \in [func : {"absent", "building", "complete"}, ref : {"absent", "complete"}]
  BY DEF TypeOK
<1>8. build' \in {build, parquet, <<>>} => build' \in Seq(Files)
  <2>1. <<>> \in Seq(Files)
    OBVIOUS
  <2> QED BY <1>2, <2>1
<1>3. CASE WriteParquet
  <2>1. job.file \in Files
    BY <1>3 DEF WriteParquet, JobInv
  <2>2. parquet' = <<job.file>> \o parquet /\ UNCHANGED <<exists, meta, jobs, build>>
    BY <1>3 DEF WriteParquet, db
  <2>3. parquet' \in Seq(Files)
    BY <1>2, <2>1, <2>2
  <2> QED BY <1>2, <2>2, <2>3
<1>4. CASE BackfillDone \/ Begin \/ MarkCreated \/ BuildPublish
  <2>1. meta' \in [func : {"absent", "building", "complete"}, ref : {"absent", "complete"}]
    BY <1>2, <1>4 DEF BackfillDone, Begin, MarkCreated, BuildPublish
  <2>2. UNCHANGED <<parquet, jobs>> /\ exists' \in {exists, TRUE} /\ build' \in {build, <<>>}
    BY <1>4 DEF BackfillDone, Begin, MarkCreated, BuildPublish
  <2> QED BY <1>2, <1>8, <2>1, <2>2
<1>5. CASE StartMaintenance \/ StartIngest
  <2>1. jobs' = jobs + 1 /\ exists' = TRUE /\ UNCHANGED <<parquet, meta, build>>
    BY <1>5, NewJob
  <2> QED BY <1>2, <2>1
<1>6. CASE BuildStart \/ BuildCrash
  <2>1. UNCHANGED <<parquet, exists, meta, jobs>> /\ build' \in {parquet, <<>>}
    BY <1>6 DEF BuildStart, BuildCrash, db
  <2> QED BY <1>2, <1>8, <2>1
<1>7. CASE Crash \/ EndOnOrphan \/ MigrateDrop \/ InsertBatch \/ DatesChunk \/ DatesTableDone
           \/ MigrateMails \/ MigrateFrom \/ ChunkAction
  <2>1. UNCHANGED <<parquet, exists, meta, jobs, build>>
    BY <1>7, ChunkUnchanged DEF Crash, EndOnOrphan, MigrateDrop, InsertBatch, DatesChunk, DatesTableDone,
         MigrateMails, MigrateFrom, db
  <2> QED BY <1>2, <2>1
<1> QED BY <1>3, <1>4, <1>5, <1>6, <1>7, ActionKinds DEF QuietAction

LEMMA EmptyStep ==
    ASSUME IInv, Next
    PROVE  EmptyInv'
<1> USE DEF IInv, DataInv
<1>1. job \in JobSet /\ exists \in BOOLEAN
  BY DEF TypeOK, JobSet
<1> DEFINE Left == UNCHANGED <<rows, side, mails>>
<1>2. CASE StartMaintenance \/ StartIngest
  <2>1. /\ exists' = TRUE /\ job'.at = MarkIfCreated("begin") /\ Left
    BY <1>2, NewJob
  <2>2. job'.at \in {"mark", "markRef"} => ~exists
    BY <2>1 DEF MarkIfCreated, FirstStep
  <2> QED BY <2>1, <2>2 DEF EmptyInv
<1>3. CASE Crash \/ EndOnOrphan
  BY <1>3 DEF Crash, EndOnOrphan, db, Idle, EmptyInv
<1>4. CASE MigrateDrop \/ InsertBatch \/ BackfillDone
  BY <1>1, <1>4 DEF MigrateDrop, InsertBatch, BackfillDone, Idle, EmptyInv, JobInv
<1>5. CASE BuildPublish
  BY <1>1, <1>5 DEF BuildPublish, EmptyInv, JobInv, JobSet
<1>6. CASE BuildStart \/ BuildCrash
  BY <1>6 DEF BuildStart, BuildCrash, db, EmptyInv
<1>7. CASE MarkCreated
  <2>1. /\ job.at \in {"mark", "markRef"} /\ ~job.stale /\ exists' = exists /\ Left
    BY <1>7 DEF MarkCreated
  <2> QED BY <2>1 DEF EmptyInv
<1>12. CASE Begin \/ WriteParquet
  <2>1. job'.at \notin {"mark", "markRef"} /\ exists' = exists /\ Left
    BY <1>1, <1>12 DEF Begin, WriteParquet, db, JobSet
  <2> QED BY <2>1 DEF EmptyInv
<1>8. CASE ChunkAction
  <2>1. job.at = "chunk" /\ exists' = exists /\ job' = [job EXCEPT !.cursor = LastRowid(Pending)]
    BY <1>8, ChunkUnchanged
  <2>2. job'.at = "chunk" /\ exists
    BY <1>1, <2>1 DEF JobSet, JobInv
  <2> QED BY <2>1, <2>2 DEF EmptyInv
<1>9. CASE DatesChunk
  <2>1. job.at = "chunk" /\ exists' = exists /\ job' = job
    BY <1>9 DEF DatesChunk, AtTable
  <2>2. job'.at = "chunk" /\ exists
    BY <2>1 DEF JobInv
  <2> QED BY <2>1, <2>2 DEF EmptyInv
<1>10. CASE DatesTableDone
  <2>1. /\ job.at = "chunk" /\ exists' = exists
        /\ job' = Idle \/ job' = [job EXCEPT !.cursor = job.cursor + 1]
    BY <1>10 DEF DatesTableDone, AtTable, db
  <2>2. job'.at \notin {"mark", "markRef"} /\ exists
    BY <1>1, <2>1 DEF JobInv, JobSet, Idle
  <2> QED BY <2>1, <2>2 DEF EmptyInv
<1>11. CASE MigrateMails \/ MigrateFrom
  <2>1. job.at \in {"mails", "from"} /\ exists' = exists
    BY <1>11 DEF MigrateMails, MigrateFrom
  <2>2. PICK n \in Nat, at \in {job.at, "from", "drop"} : job' = [job EXCEPT !.at = at, !.cursor = n]
    BY <1>11, MigrateCursor
  <2>3. job'.at \notin {"mark", "markRef"} /\ exists
    BY <1>1, <2>1, <2>2 DEF JobInv, JobSet
  <2> QED BY <2>1, <2>3 DEF EmptyInv
<1> QED BY <1>2, <1>3, <1>4, <1>5, <1>6, <1>7, <1>8, <1>9, <1>10, <1>11, <1>12, ActionKinds
    DEF QuietAction

LEMMA WholeStep ==
    ASSUME IInv, Next
    PROVE  WholeInv'
<1> USE DEF IInv, DataInv
<1>1. job \in JobSet /\ meta \in [func : {"absent", "building", "complete"}, ref : {"absent", "complete"}]
  BY DEF TypeOK, JobSet
<1>2. \A f \in {"func", "ref"} : Whole(f) => Whole(f)'
  <2>1. CASE InsertBatch \/ BuildPublish
    BY <2>1, InsertRows, BuiltRows DEF RowsKept
  <2>2. CASE ~InsertBatch /\ ~BuildPublish
    <3>1. rows' = rows /\ SideKept
      BY <2>2, SameRows
    <3>2. Stored' = Stored /\ Stored \subseteq Keys
      BY <3>1 DEF Stored
    <3> QED BY <3>1, <3>2 DEF SideKept, Whole
  <2> QED BY <2>1, <2>2
<1>3. CASE BuildPublish
  <2>1. job' = [job EXCEPT !.stale = (job.op # "idle")]
    BY <1>3 DEF BuildPublish
  <2>2. ~(job'.at = "chunk" /\ ~job'.stale)
    BY <1>1, <2>1 DEF JobInv, JobSet
  <2> QED BY <1>3, <2>2, BuiltRows DEF WholeInv, At
<1>4. CASE MarkCreated
  <2>1. job'.at \in {"markRef", "begin"} /\ rows = NoRows /\ rows' = rows
    BY <1>1, <1>4 DEF MarkCreated, EmptyInv, JobSet
  <2>2. Stored' = {}
    BY <2>1 DEF Stored, NoRows
  <2> QED BY <2>1, <2>2 DEF WholeInv, Whole, At
<1>5. CASE Begin
  <2>1. /\ job.at = "begin" /\ rows' = rows
        /\ meta' = meta \/ meta' = [meta EXCEPT !.func = "building"]
        /\ \E at \in Places : job' = [job EXCEPT !.at = at]
    BY <1>5 DEF Begin, Places
  <2>2. job'.cursor = 0
    BY <1>1, <2>1 DEF JobInv, JobSet
  <2>3. \A k \in Stored' : rows'[k].id \in Nat \ {0}
    BY <2>1, StoredFacts DEF Stored
  <2>4. \A f \in {"func", "ref"} : WholeTo(f, job.cursor)'
    <3>1. \A k \in Stored' : ~(rows'[k].id <= job'.cursor)
      BY <2>2, <2>3
    <3> QED BY <3>1 DEF WholeTo
  <2>5. /\ meta'.func = "complete" => meta.func = "complete"
        /\ meta'.ref = "complete" => meta.ref = "complete"
    BY <1>1, <2>1
  <2> QED BY <2>4, <2>5, <1>2 DEF WholeInv
<1>6. CASE BackfillDone
  <2>1. job'.at = "end"
    BY <1>6 DEF BackfillDone, Idle
  <2>2. ASSUME NEW f \in {"func", "ref"}, WholeTo(f, job.cursor), job.op # "subj" PROVE Whole(f)
    <3>1. \A k \in Stored : rows[k].id <= job.cursor
      BY <2>2, <1>6, ChunkFacts DEF BackfillDone
    <3> QED BY <2>2, <3>1 DEF Whole, WholeTo
  <2>3. /\ meta'.func = "complete" => meta.func = "complete" \/ At("funcs")
        /\ meta'.ref = "complete" => meta.ref = "complete" \/ At("refs")
    BY <1>6 DEF BackfillDone, At
  <2>4. meta'.func = "complete" => Whole("func")
    BY <2>2, <2>3 DEF WholeInv, At
  <2>5. meta'.ref = "complete" => Whole("ref")
    BY <2>2, <2>3 DEF WholeInv, At
  <2> QED BY <2>1, <2>4, <2>5, <1>2 DEF WholeInv, At
<1>7. CASE ChunkAction
  <2>1. /\ UNCHANGED <<rows, meta>> /\ job.at = "chunk" /\ ~job.stale /\ Pending # {}
        /\ job' = [job EXCEPT !.cursor = LastRowid(Pending)]
    BY <1>7, ChunkUnchanged
  <2>2. job'.op = job.op /\ job'.cursor = LastRowid(Pending)
    BY <1>1, <2>1 DEF JobSet
  <2>3. SideKept /\ Stored' = Stored /\ Stored \subseteq Keys
    BY <1>7, <2>1, ChunkSide DEF Stored
  <2>4. ASSUME NEW f \in {"func", "ref"}, job.op # "subj", WholeTo(f, job.cursor),
               \A k \in Pending : Dated(k) => HasDated(f, k)'
        PROVE  WholeTo(f, job.cursor)'
    <3>1. ASSUME NEW k \in Stored, Dated(k), rows[k].id <= LastRowid(Pending) PROVE HasDated(f, k)'
      <4>1. rows[k].id <= job.cursor \/ k \in Pending
        BY <2>1, <2>4, <3>1, ChunkFacts
      <4> QED BY <4>1, <2>3, <2>4, <3>1 DEF WholeTo, SideKept
    <3> QED BY <3>1, <2>1, <2>2, <2>3 DEF WholeTo
  <2>5. ASSUME job.op = "funcs" PROVE WholeTo("func", job.cursor)'
    <3>1. FunctionsChunk
      BY <1>7, <2>5 DEF ChunkAction, SubjectsChunk, FilesChunk, FunctionsChunk, RefsChunk, EmailsChunk,
           EnvelopesChunk, RewriteChunk, ChunkOf
    <3>2. \A k \in Pending : Dated(k) => HasDated("func", k)'
      BY <3>1, RewriteSide DEF FunctionsChunk, Families
    <3> QED BY <2>1, <2>4, <2>5, <3>2 DEF WholeInv, At
  <2>6. ASSUME job.op = "refs" PROVE WholeTo("ref", job.cursor)'
    <3>1. RefsChunk
      BY <1>7, <2>6 DEF ChunkAction, SubjectsChunk, FilesChunk, FunctionsChunk, RefsChunk, EmailsChunk,
           EnvelopesChunk, RewriteChunk, ChunkOf
    <3>2. \A k \in Pending : Dated(k) => HasDated("ref", k)'
      BY <3>1, RewriteSide DEF RefsChunk, Families
    <3> QED BY <2>1, <2>4, <2>6, <3>2 DEF WholeInv, At
  <2> QED BY <2>1, <2>2, <2>5, <2>6, <1>2 DEF WholeInv, At
<1>8. CASE /\ UNCHANGED meta
           /\ job'.op \notin {"funcs", "refs"} \/ job'.at # "chunk"
  BY <1>2, <1>8 DEF WholeInv, At
<1>9. CASE Crash \/ EndOnOrphan \/ InsertBatch \/ MigrateDrop
  BY <1>8, <1>9 DEF Crash, EndOnOrphan, InsertBatch, MigrateDrop, db, Idle
<1>10. CASE StartMaintenance \/ StartIngest
  <2>1. meta' = meta /\ job'.at = MarkIfCreated("begin")
    BY <1>10, NewJob
  <2>2. job'.at # "chunk"
    BY <2>1 DEF MarkIfCreated, FirstStep
  <2> QED BY <2>1, <2>2, <1>8
<1>11. CASE WriteParquet
  <2>1. meta' = meta /\ job'.at = "insert"
    BY <1>1, <1>11 DEF WriteParquet, db, JobSet
  <2> QED BY <2>1, <1>8
<1>12. CASE DatesChunk
  <2>1. meta' = meta /\ job' = job /\ job.op = "dates"
    BY <1>12 DEF DatesChunk, AtTable
  <2> QED BY <2>1, <1>8
<1>13. CASE DatesTableDone
  <2>1. /\ meta' = meta /\ job.op = "dates"
        /\ job' = Idle \/ job' = [job EXCEPT !.cursor = job.cursor + 1]
    BY <1>13 DEF DatesTableDone, AtTable, db
  <2>2. job'.op \in {"idle", "dates"}
    BY <1>1, <2>1 DEF Idle, JobSet
  <2> QED BY <2>1, <2>2, <1>8
<1>14. CASE MigrateMails \/ MigrateFrom
  <2>1. PICK n \in Nat, at \in {job.at, "from", "drop"} : job' = [job EXCEPT !.at = at, !.cursor = n]
    BY <1>14, MigrateCursor
  <2>2. meta' = meta /\ job.op = "migrate" /\ job'.op = job.op
    BY <1>1, <1>14, <2>1 DEF MigrateMails, MigrateFrom, JobInv, JobSet
  <2> QED BY <2>2, <1>8
<1>15. CASE BuildStart \/ BuildCrash
  BY <1>15 DEF BuildStart, BuildCrash, db, WholeInv, Whole, WholeTo, HasDated, At, Stored
<1> QED BY <1>3, <1>4, <1>5, <1>6, <1>7, <1>9, <1>10, <1>11, <1>12, <1>13, <1>14, <1>15, ActionKinds
    DEF QuietAction

-----------------------------------------------------------------------------
(* The initial states                                                      *)

LEMMA InitOld ==
    ASSUME Init, exists
    PROVE  /\ Stored = OldKeys
           /\ \A k \in OldKeys : /\ rows[k] \in RowSet /\ rows[k].ver = 0
                                  /\ rows[k].id \in DOMAIN OldRows /\ OldRows[rows[k].id] = k
           /\ \A k \in Keys : k \notin OldKeys => rows[k] = NoRow
           /\ lastId \in Nat /\ \A i \in DOMAIN OldRows : i <= lastId
<1>1. rows = [k \in Keys |->
         IF k \in OldKeys
         THEN [id |-> CHOOSE i \in DOMAIN OldRows : OldRows[i] = k, ver |-> 0, env |-> FALSE]
         ELSE NoRow]
      /\ lastId = CHOOSE n \in DOMAIN OldRows : \A m \in DOMAIN OldRows : m <= n
  BY DEF Init
<1>2. OldKeys \subseteq Keys
  BY OldAssumption DEF OldKeys
<1>3. ASSUME NEW k \in OldKeys
      PROVE  /\ rows[k] \in RowSet /\ rows[k].ver = 0
             /\ rows[k].id \in DOMAIN OldRows /\ OldRows[rows[k].id] = k
  <2>1. \E i \in DOMAIN OldRows : OldRows[i] = k
    BY DEF OldKeys
  <2>2. PICK i \in DOMAIN OldRows : OldRows[i] = k /\ rows[k] = [id |-> i, ver |-> 0, env |-> FALSE]
    BY <2>1, <1>1, <1>2
  <2>3. [id |-> i, ver |-> 0, env |-> FALSE] \in RowSet
    BY OldAssumption, SetFacts DEF RowSet
  <2> QED BY <2>2, <2>3
<1>4. \A k \in OldKeys : rows[k] # NoRow
  BY <1>3, SetFacts
<1>5. \A k \in Keys : k \notin OldKeys => rows[k] = NoRow
  BY <1>1
<1>6. lastId \in DOMAIN OldRows /\ \A i \in DOMAIN OldRows : i <= lastId
  BY <1>1, OldAssumption
<1> QED BY <1>2, <1>3, <1>4, <1>5, <1>6, OldAssumption DEF Stored

LEMMA InitInv == Init => IInv
<1> SUFFICES ASSUME Init PROVE IInv
  OBVIOUS
<1>1. job = Idle /\ jobs = 0 /\ build = <<>> /\ meta = [func |-> "absent", ref |-> "absent"]
  BY DEF Init
<1>2. /\ job.op = "idle" /\ job.at = "end" /\ job.file = NoFile
      /\ job \in JobSet
  BY <1>1 DEF Idle, JobSet, Places
<1>3. JobInv /\ WholeInv
  BY <1>1, <1>2 DEF JobInv, WholeInv, At
<1>4. /\ <<>> \in Seq(Files) /\ build \in Seq(Files) /\ jobs \in Nat
      /\ meta \in [func : {"absent", "building", "complete"}, ref : {"absent", "complete"}]
  BY <1>1
<1>5. CASE ~exists
  <2>1. /\ exists = FALSE /\ parquet = <<>> /\ lastId = 0 /\ mails = {}
        /\ rows = NoRows /\ side = Nothing
    BY <1>5 DEF Init
  <2>2. Stored = {} /\ rows \in [Keys -> {NoRow} \cup RowSet] /\ side \in [Families -> SUBSET Entries]
    BY <2>1 DEF Stored, NoRows, Nothing
  <2>3. TypeOK
    BY <1>2, <1>4, <2>1, <2>2 DEF TypeOK, JobSet, RowSet
  <2>4. IdInv /\ MailsInv /\ SideInv /\ EmptyInv
    BY <2>1, <2>2 DEF IdInv, MailsInv, SideInv, EmptyInv, Nothing
  <2> QED BY <1>3, <2>3, <2>4 DEF IInv, DataInv
<1>6. CASE exists
  <2>1. /\ exists = TRUE
        /\ \E order \in [1..Cardinality(Lists) -> Lists] :
             parquet = [i \in DOMAIN order |->
               [list |-> order[i], ver |-> 0, mids |-> {m \in Mids : <<m, order[i]>> \in OldKeys}]]
        /\ rows = [k \in Keys |->
             IF k \in OldKeys
             THEN [id |-> CHOOSE i \in DOMAIN OldRows : OldRows[i] = k, ver |-> 0, env |-> FALSE]
             ELSE NoRow]
        /\ side = [Nothing EXCEPT !["file"] = {[key |-> k, ver |-> 0, dated |-> FALSE] : k \in OldKeys}]
        /\ mails = {[id |-> i, key |-> OldMails[i], dated |-> FALSE] : i \in DOMAIN OldMails}
    BY <1>6 DEF Init
  <2>2. /\ Stored = OldKeys /\ OldKeys \subseteq Keys
        /\ \A k \in OldKeys : /\ rows[k] \in RowSet /\ rows[k].ver = 0
                               /\ rows[k].id \in DOMAIN OldRows /\ OldRows[rows[k].id] = k
        /\ \A k \in Keys : k \notin OldKeys => rows[k] = NoRow
        /\ lastId \in Nat /\ \A i \in DOMAIN OldRows : i <= lastId
    BY <1>6, InitOld, OldAssumption DEF OldKeys
  <2>3. parquet \in Seq(Files)
    <3>1. PICK order \in [1..Cardinality(Lists) -> Lists] :
            parquet = [i \in DOMAIN order |->
              [list |-> order[i], ver |-> 0, mids |-> {m \in Mids : <<m, order[i]>> \in OldKeys}]]
      BY <2>1
    <3>2. Cardinality(Lists) \in Nat
      BY SetAssumption, FS_CardinalityType
    <3>3. \A i \in 1..Cardinality(Lists) :
            [list |-> order[i], ver |-> 0, mids |-> {m \in Mids : <<m, order[i]>> \in OldKeys}] \in Files
      BY SetFacts DEF Files
    <3>4. parquet \in [1..Cardinality(Lists) -> Files]
      BY <3>1, <3>3
    <3> QED BY <3>2, <3>4, SeqDef
  <2>5. rows \in [Keys -> {NoRow} \cup RowSet]
    <3>1. \A k \in Keys : rows[k] \in {NoRow} \cup RowSet
      BY <2>2
    <3> QED BY <3>1, <2>1
  <2>6. /\ "file" \in Families /\ side \in [Families -> SUBSET Entries]
        /\ side["file"] = {[key |-> k, ver |-> 0, dated |-> FALSE] : k \in OldKeys}
        /\ \A f \in Families : f # "file" => side[f] = {}
    <3>1. \A k \in OldKeys : [key |-> k, ver |-> 0, dated |-> FALSE] \in Entries
      BY <2>2, SetFacts DEF Entries
    <3> QED BY <2>1, <3>1 DEF Nothing, Families
  <2>7. \A i \in DOMAIN OldMails : OldMails[i] \in OldKeys /\ i \in Nat
    BY OldAssumption DEF OldKeys
  <2>8. mails \subseteq MailSet /\ MailsInv
    <3>1. \A e \in mails : e \in MailSet /\ e.key \in OldKeys
      <4>1. \A i \in DOMAIN OldMails : [id |-> i, key |-> OldMails[i], dated |-> FALSE] \in MailSet
        BY <2>2, <2>7 DEF MailSet
      <4> QED BY <2>1, <2>7, <4>1
    <3> QED BY <3>1, <2>2, SetFacts DEF MailsInv
  <2>9. TypeOK
    BY <1>2, <1>4, <2>1, <2>2, <2>3, <2>5, <2>6, <2>8 DEF TypeOK, JobSet, RowSet, MailSet
  <2>10. IdInv
    BY <2>2 DEF IdInv
  <2>11. SideInv
    <3>1. ASSUME NEW f \in Families, NEW e \in side[f] PROVE Fresh(f, e)
      <4>1. f = "file" /\ e.key \in OldKeys /\ e.ver = 0 /\ e \in Entries
        BY <2>6, <3>1
      <4> QED BY <4>1, <2>2, SetFacts DEF Fresh
    <3> QED BY <3>1 DEF SideInv
  <2>12. EmptyInv
    BY <1>2, <2>1 DEF EmptyInv
  <2> QED BY <1>3, <2>8, <2>9, <2>10, <2>11, <2>12 DEF IInv, DataInv
<1>7. exists \in BOOLEAN
  BY DEF Init
<1> QED BY <1>5, <1>6

LEMMA StutterInv == IInv /\ UNCHANGED vars => IInv'
  BY DEF vars, IInv, DataInv, TypeOK, JobInv, EmptyInv, MailsInv, IdInv, SideInv, Fresh, WholeInv, Whole,
         WholeTo, HasDated, At, Stored

LEMMA StepInv == IInv /\ [Next]_vars => IInv'
<1>1. ASSUME IInv, Next PROVE IInv'
  BY <1>1, TypeStep, JobStepKept, DataStep, EmptyStep, WholeStep DEF IInv, DataInv
<1> QED BY <1>1, StutterInv

LEMMA Invariance == Spec => []IInv
  BY InitInv, StepInv, PTL DEF Spec

-----------------------------------------------------------------------------
(* What holds of every behaviour                                           *)

(* Rows, side tables, the legacy table, markers and jobs keep their shape: *)
(* a job is where its operation can be, and a rowid is never zero          *)
(* (over.rs:193-360).                                                      *)
THEOREM TypeCorrect == Spec => []TypeOK
  BY Invariance, PTL DEF IInv, DataInv

(* No side table ever answers with what a replaced or vanished row used to *)
(* hold, whichever of ingest, backfills, migration and rebuild ran, and    *)
(* wherever they died (over.rs:1313).                                      *)
THEOREM SideTablesAreFresh == Spec => []SideTablesFresh
<1>1. IInv => SideTablesFresh
  BY DEF IInv, SideInv, Fresh, SideTablesFresh
<1> QED BY <1>1, Invariance, PTL

(* A reader that trusts the marker of touched functions or trailer         *)
(* references finds every dated row in that index and nothing else,        *)
(* because a backfill has indexed all rows up to its cursor                *)
(* (over.rs:213, 344, 1920, 2023).                                         *)
THEOREM TrustedIndexIsWhole == Spec => []TrustedIndexWhole
<1>1. ASSUME IInv, NEW f \in {"func", "ref"}, Whole(f) PROVE DatedKeys(f) = {k \in Stored : Dated(k)}
  <2>1. f \in Families
    BY DEF Families
  <2>2. \A e \in side[f] : e.key \in Keys /\ rows[e.key] # NoRow /\ (e.dated => Dated(e.key))
    BY <1>1, <2>1 DEF IInv, SideInv, Fresh, Entries
  <2>3. DatedKeys(f) \subseteq {k \in Stored : Dated(k)}
    BY <2>2 DEF DatedKeys, Stored
  <2>4. {k \in Stored : Dated(k)} \subseteq DatedKeys(f)
    BY <1>1 DEF Whole, HasDated, DatedKeys
  <2> QED BY <2>3, <2>4
<1>2. IInv => TrustedIndexWhole
  BY <1>1 DEF TrustedIndexWhole, IInv, WholeInv
<1> QED BY <1>2, Invariance, PTL

(* backfill_trailer_emails takes nothing from what the envelope backfill   *)
(* and the migration have put into over_involvement (over.rs:1040).        *)
THEOREM EnvelopesAreKept == Spec => EnvelopesKept
<1> DEFINE Kept == \A f \in {"env", "from"} : side[f] \subseteq side'[f]
           A == job.op = "emails" /\ ~job'.stale => Kept
<1>1. ASSUME IInv, Next, job.op = "emails", ~job'.stale PROVE Kept
  <2>1. CASE QuietAction
    BY <2>1, QuietUnchanged
  <2>2. CASE ChunkAction
    <3>1. EmailsChunk
      BY <1>1, <2>2 DEF ChunkAction, SubjectsChunk, FilesChunk, FunctionsChunk, RefsChunk, EmailsChunk,
           EnvelopesChunk, RewriteChunk, ChunkOf
    <3>2. side'["env"] = side["env"] \cup DerivedOf("env", Pending, rows) /\ side'["from"] = side["from"]
      BY <3>1 DEF EmailsChunk, Emails, Families
    <3> QED BY <3>2
  <2>3. CASE BuildPublish
    <3>1. job \in JobSet /\ job' = [job EXCEPT !.stale = (job.op # "idle")]
      BY <1>1, <2>3 DEF BuildPublish, IInv, DataInv, TypeOK, JobSet
    <3> QED BY <1>1, <3>1 DEF JobSet
  <2>4. CASE DatesChunk \/ MigrateMails \/ MigrateFrom \/ InsertBatch
    BY <1>1, <2>4 DEF DatesChunk, AtTable, MigrateMails, MigrateFrom, InsertBatch, IInv, JobInv
  <2> QED BY <1>1, <2>1, <2>2, <2>3, <2>4, ActionKinds
<1>2. IInv /\ [Next]_vars => [A]_vars
  BY <1>1
<1> QED BY <1>2, Invariance, PTL DEF Spec, EnvelopesKept

-----------------------------------------------------------------------------
(* The migration                                                           *)

\* No two neighbouring rowids of the legacy table are farther apart than a window.
NoGap ==
  \A i \in DOMAIN OldMails :
    i <= Window \/ \E j \in DOMAIN OldMails : j < i /\ i <= j + Window

\* Up to the cursor, and then all of it, the legacy table has been copied.
TrailerInv ==
  /\ mails = {} \/ MailIds = DOMAIN OldMails
  /\ job.at = "mails" /\ ~job.stale => \A e \in mails : e.id <= job.cursor => HasTrailer(e.key)
  /\ job.at \in {"from", "drop"} /\ ~job.stale => \A e \in mails : HasTrailer(e.key)
  /\ NoTrailerLost

\* No step but the builder's takes a message's trailers away.
LEMMA TrailerKept ==
    ASSUME IInv, Next, ~BuildPublish
    PROVE  /\ \A k \in Keys : HasTrailer(k) => HasTrailer(k)'
           /\ \A k \in Stored' : k \in Stored \/ HasTrailer(k)'
<1> USE DEF IInv, DataInv
<1>1. CASE InsertBatch
  BY <1>1, InsertRows
<1>2. CASE QuietAction
  BY <1>2, QuietUnchanged DEF HasTrailer, Stored
<1>3. ASSUME ~InsertBatch, \A k \in Keys : HasTrailer(k) => HasTrailer(k)'
      PROVE  \A k \in Stored' : k \in Stored
  BY <1>3, SameRows DEF Stored
<1>4. "trailer" \in Families /\ side \in [Families -> SUBSET Entries]
  BY DEF Families, TypeOK
<1>5. CASE side'["trailer"] = side["trailer"]
  <2>1. \A k \in Keys : HasTrailer(k) => HasTrailer(k)'
    BY <1>5 DEF HasTrailer, EntriesOf
  <2> QED BY <2>1, <1>1, <1>3
<1>6. CASE ~InsertBatch /\ side["trailer"] \subseteq side'["trailer"]
  <2>1. \A k \in Keys : HasTrailer(k) => HasTrailer(k)'
    BY <1>6 DEF HasTrailer, EntriesOf
  <2> QED BY <2>1, <1>6, <1>3
<1>7. CASE EmailsChunk /\ ~InsertBatch
  <2>1. side'["trailer"] = Rewritten("trailer", side["trailer"], Pending, rows)
    BY <1>4, <1>7 DEF EmailsChunk, Emails
  <2>2. Pending \in SUBSET Keys /\ (\A k \in Pending : rows[k] \in RowSet) /\ side["trailer"] \in SUBSET Entries
    BY <1>4, PendingFacts, StoredFacts
  <2>3. /\ \A e \in side["trailer"] : e.key \notin Pending => e \in side'["trailer"]
        /\ \A k \in Pending : \E e \in side'["trailer"] : e.key = k
    BY <2>1, <2>2, RewrittenFacts
  <2>4. ASSUME NEW k \in Keys, HasTrailer(k) PROVE HasTrailer(k)'
    <3>1. PICK e \in side["trailer"] : e.key = k
      BY <2>4 DEF HasTrailer, EntriesOf
    <3>2. \E d \in side'["trailer"] : d.key = k
      BY <2>3, <3>1
    <3> QED BY <3>2 DEF HasTrailer, EntriesOf
  <2> QED BY <2>4, <1>7, <1>3
<1>8. CASE SubjectsChunk \/ FilesChunk \/ FunctionsChunk \/ RefsChunk \/ EnvelopesChunk
  <2>1. side'["trailer"] = side["trailer"]
    BY <1>4, <1>8 DEF SubjectsChunk, FilesChunk, FunctionsChunk, RefsChunk, EnvelopesChunk, RewriteChunk,
         Envelopes
  <2> QED BY <2>1, <1>5
<1>9. CASE DatesChunk
  <2>1. \A n \in DOMAIN DateTables : DateTables[n] # "trailer"
    BY DEF DateTables
  <2>2. side'["trailer"] = side["trailer"]
    BY <1>4, <1>9, <2>1 DEF DatesChunk
  <2> QED BY <2>2, <1>5
<1>10. CASE (MigrateMails \/ MigrateFrom) /\ ~InsertBatch
  <2>1. side["trailer"] \subseteq side'["trailer"]
    BY <1>4, <1>10 DEF MigrateMails, MigrateFrom
  <2> QED BY <2>1, <1>6, <1>10
<1> QED BY <1>1, <1>2, <1>7, <1>8, <1>9, <1>10, ActionKinds DEF ChunkAction

\* No step but the builder's and the DROP changes what the legacy table is about.
LEMMA MailsKept ==
    ASSUME IInv, Next, ~BuildPublish, ~MigrateDrop
    PROVE  /\ \A e \in mails' : \E d \in mails : d.id = e.id /\ d.key = e.key
           /\ \A d \in mails : \E e \in mails' : d.id = e.id /\ d.key = e.key
<1> USE DEF IInv, DataInv
<1>1. CASE mails' = mails
  BY <1>1
<1>2. CASE QuietAction
  <2>1. mails' = mails
    BY <1>2 DEF QuietAction, StartMaintenance, StartIngest, StartJob, MarkCreated, Begin, Crash, EndOnOrphan,
         WriteParquet, BackfillDone, DatesTableDone, BuildStart, BuildCrash, db
  <2> QED BY <2>1
<1>3. CASE ChunkAction \/ MigrateMails \/ MigrateFrom \/ InsertBatch
  BY <1>1, <1>3, ChunkUnchanged DEF MigrateMails, MigrateFrom, InsertBatch
<1>4. CASE DatesChunk /\ mails' # mails
  <2>1. PICK part \in SUBSET mails : mails' = DatedIn(mails, part)
    <3>1. PICK n \in DOMAIN DateTables : \E part \in SUBSET ToDate(TableAt(n)) :
            DateTables[n] = "mails" /\ mails' = DatedIn(mails, part)
      BY <1>4 DEF DatesChunk
    <3>2. ToDate(TableAt(n)) \subseteq mails
      BY <3>1 DEF ToDate, TableAt
    <3> QED BY <3>1, <3>2
  <2>2. \A e \in mails : e \in MailSet /\ [e EXCEPT !.dated = TRUE].id = e.id
                                       /\ [e EXCEPT !.dated = TRUE].key = e.key
    BY DEF TypeOK, MailSet
  <2>3. mails' = (mails \ part) \cup {[e EXCEPT !.dated = TRUE] : e \in part}
    BY <2>1 DEF DatedIn
  <2>4. \A e \in mails' : \E d \in mails : d.id = e.id /\ d.key = e.key
    BY <2>2, <2>3
  <2>5. ASSUME NEW d \in mails PROVE \E e \in mails' : d.id = e.id /\ d.key = e.key
    <3>1. CASE d \in part
      BY <2>2, <2>3, <3>1
    <3>2. CASE d \notin part
      BY <2>3, <3>2
    <3> QED BY <3>1, <3>2
  <2> QED BY <2>4, <2>5
<1> QED BY <1>1, <1>2, <1>3, <1>4, ActionKinds

\* A window that holds nothing is past the last rowid.
LEMMA EmptyWindow ==
    ASSUME NoGap, job.cursor \in Nat, InWindow(DOMAIN OldMails) = {}
    PROVE  \A i \in DOMAIN OldMails : i <= job.cursor
<1> DEFINE Ids == DOMAIN OldMails
           Beyond == {i \in Ids : ~(i <= job.cursor)}
<1>1. Ids \in SUBSET Nat /\ Window \in Nat
  BY OldAssumption, BoundAssumption
<1>2. SUFFICES ASSUME Beyond # {} PROVE FALSE
  OBVIOUS
<1>3. PICK i \in Beyond : \A j \in Beyond : i <= j
  BY <1>1, <1>2, NatMin
<1>4. \A j \in Ids : j < i => j <= job.cursor
  BY <1>1, <1>3
<1>5. i <= Window \/ \E j \in Ids : j <= job.cursor /\ i <= j + Window
  BY <1>3, <1>4 DEF NoGap
<1>6. i \in Nat /\ job.cursor < i /\ i <= job.cursor + Window
  <2>1. i \in Nat /\ job.cursor < i
    BY <1>1, <1>3
  <2>2. CASE i <= Window
    BY <1>1, <2>1, <2>2
  <2>3. ASSUME NEW j \in Ids, j <= job.cursor, i <= j + Window PROVE i <= job.cursor + Window
    <3>1. j \in Nat
      BY <1>1
    <3> QED BY <1>1, <2>1, <2>3, <3>1
  <2> QED BY <1>5, <2>1, <2>2, <2>3
<1> QED BY <1>3, <1>6 DEF InWindow

LEMMA TrailerStep == ASSUME NoGap PROVE IInv /\ TrailerInv /\ [Next]_vars => TrailerInv'
<1> USE DEF IInv, DataInv
<1>1. CASE UNCHANGED vars
  BY <1>1 DEF vars, TrailerInv, NoTrailerLost, MailIds, HasTrailer, Stored
<1>2. ASSUME IInv, TrailerInv, Next PROVE TrailerInv'
  <2>1. job \in JobSet /\ \A e \in mails : e.id \in Nat /\ e.key \in Keys
    BY <1>2 DEF TypeOK, JobSet
  <2>2. mails' = {} /\ (\A k \in Stored' : HasTrailer(k)') => TrailerInv'
    BY DEF TrailerInv, NoTrailerLost, HasTrailer
  <2>3. CASE BuildPublish
    BY <1>2, <2>3, <2>2, BuiltRows DEF BuildPublish
  <2>4. ASSUME ~BuildPublish
        PROVE  /\ \A k \in Keys : HasTrailer(k) => HasTrailer(k)'
               /\ \A k \in Stored' : k \in Stored \/ HasTrailer(k)'
    BY <1>2, <2>4, TrailerKept
  <2>5. CASE MigrateDrop
    <3>1. mails' = {} /\ job.at = "drop" /\ ~job.stale /\ job' = Idle
      BY <2>5 DEF MigrateDrop
    <3>2. ~BuildPublish
      BY <2>1, <2>5, <3>1 DEF MigrateDrop, BuildPublish, Idle, JobSet, JobInv
    <3>3. \A k \in Stored : k \in Keys /\ HasTrailer(k)
      BY <1>2, <3>1 DEF TrailerInv, NoTrailerLost, HasTrailer, Stored
    <3> QED BY <2>2, <2>4, <3>1, <3>2, <3>3
  <2>6. CASE ~BuildPublish /\ ~MigrateDrop
    <3>1. /\ \A e \in mails' : \E d \in mails : d.id = e.id /\ d.key = e.key
          /\ \A d \in mails : \E e \in mails' : d.id = e.id /\ d.key = e.key
      BY <1>2, <2>6, MailsKept
    <3>2. mails' = {} \/ MailIds' = DOMAIN OldMails
      <4>1. MailIds' = MailIds
        BY <3>1 DEF MailIds
      <4>2. mails = {} => mails' = {}
        BY <3>1
      <4> QED BY <1>2, <4>1, <4>2 DEF TrailerInv
    <3>3. NoTrailerLost'
      <4>1. ASSUME NEW k \in Stored' PROVE HasTrailer(k)' \/ \E e \in mails' : e.key = k
        <5>1. CASE k \in Stored
          <6>1. k \in Keys /\ (HasTrailer(k) \/ \E e \in mails : e.key = k)
            BY <1>2, <5>1 DEF TrailerInv, NoTrailerLost, HasTrailer, Stored
          <6> QED BY <6>1, <3>1, <2>4, <2>6
        <5> QED BY <5>1, <2>4, <2>6
      <4> QED BY <4>1 DEF NoTrailerLost, HasTrailer
    <3>4. job'.at \notin {"mails", "from", "drop"} => TrailerInv'
      BY <3>2, <3>3 DEF TrailerInv
    <3>5. CASE job' = job
      <4>1. \A e \in mails' : \E d \in mails : d.id = e.id /\ d.key = e.key /\ d.key \in Keys
        BY <3>1, <2>1
      <4>2. job.at = "mails" /\ ~job.stale => \A e \in mails' : e.id <= job.cursor => HasTrailer(e.key)'
        BY <1>2, <4>1, <2>4, <2>6 DEF TrailerInv
      <4>3. job.at \in {"from", "drop"} /\ ~job.stale => \A e \in mails' : HasTrailer(e.key)'
        BY <1>2, <4>1, <2>4, <2>6 DEF TrailerInv
      <4> QED BY <3>2, <3>3, <3>5, <4>2, <4>3 DEF TrailerInv
    <3>6. CASE Begin
      <4>1. job'.at \in {"parquet", "mails", "chunk"} /\ job'.cursor = 0
        BY <1>2, <2>1, <3>6 DEF Begin, JobInv, JobSet
      <4>2. \A e \in mails' : e.id \in Nat \ {0}
        BY <3>2, OldAssumption DEF MailIds
      <4>3. \A e \in mails' : ~(e.id <= job'.cursor)
        BY <4>1, <4>2
      <4> QED BY <3>2, <3>3, <4>1, <4>3 DEF TrailerInv
    <3>7. CASE MigrateMails
      <4>1. job.at = "mails" /\ ~job.stale /\ mails' = mails /\ job.cursor \in Nat
        BY <2>1, <3>7 DEF MigrateMails, JobSet
      <4>2. \A e \in mails : e.id <= job.cursor => HasTrailer(e.key)'
        BY <1>2, <2>1, <2>4, <2>6, <4>1 DEF TrailerInv
      <4>3. CASE InWindow(MailIds) = {}
        <5>1. job'.at = "from"
          BY <2>1, <3>7, <4>3 DEF MigrateMails, JobSet
        <5>2. \A e \in mails : e.id <= job.cursor
          <6>1. CASE mails = {}
            BY <6>1
          <6>2. CASE MailIds = DOMAIN OldMails
            <7>1. \A i \in DOMAIN OldMails : i <= job.cursor
              BY <4>1, <4>3, <6>2, EmptyWindow
            <7> QED BY <6>2, <7>1 DEF MailIds
          <6> QED BY <1>2, <6>1, <6>2 DEF TrailerInv
        <5>3. \A e \in mails' : HasTrailer(e.key)'
          BY <4>1, <4>2, <5>2
        <5> QED BY <3>2, <3>3, <5>1, <5>3 DEF TrailerInv
      <4>4. CASE InWindow(MailIds) # {}
        <5> DEFINE last == Last(InWindow(MailIds))
                   copy(e) == [key |-> e.key, ver |-> 0, dated |-> e.dated]
        <5>1. MailIds \in SUBSET Nat
          BY <2>1 DEF MailIds
        <5>2. \A i \in MailIds : i <= last => i <= job.cursor \/ i \in InWindow(MailIds)
          BY <4>1, <4>4, <5>1, WindowFacts
        <5>3. /\ job' = [job EXCEPT !.cursor = last]
              /\ side' = [side EXCEPT !["trailer"] = @ \cup
                   {copy(e) : e \in {x \in mails : x.id \in InWindow(MailIds)}}]
          BY <3>7, <4>4 DEF MigrateMails, ToMove
        <5> HIDE DEF last
        <5>4. "trailer" \in Families /\ side \in [Families -> SUBSET Entries]
          BY <1>2 DEF Families, TypeOK
        <5>5. \A e \in mails : e.id \in InWindow(MailIds) => copy(e) \in side'["trailer"] /\ copy(e).key = e.key
          BY <5>3, <5>4
        <5>6. \A e \in mails : e.id \in InWindow(MailIds) => HasTrailer(e.key)'
          BY <5>5 DEF HasTrailer, EntriesOf
        <5>7. job'.at = "mails" /\ job'.cursor = last
          BY <2>1, <4>1, <5>3 DEF JobSet
        <5>8. \A e \in mails' : e.id <= last => HasTrailer(e.key)'
          BY <4>1, <4>2, <5>2, <5>6 DEF MailIds
        <5> QED BY <3>2, <3>3, <5>7, <5>8 DEF TrailerInv
      <4> QED BY <4>3, <4>4
    <3>8. CASE MigrateFrom
      <4>1. job.at = "from" /\ ~job.stale /\ mails' = mails
        BY <3>8 DEF MigrateFrom
      <4>2. job'.at \in {"from", "drop"}
        BY <2>1, <3>8 DEF MigrateFrom, JobSet
      <4>3. \A e \in mails' : HasTrailer(e.key)'
        BY <1>2, <2>1, <2>4, <2>6, <4>1 DEF TrailerInv
      <4> QED BY <3>2, <3>3, <4>2, <4>3 DEF TrailerInv
    <3>9. CASE StartMaintenance \/ StartIngest
      <4>1. job'.at = MarkIfCreated("begin")
        BY <3>9, NewJob
      <4> QED BY <4>1, <3>4 DEF MarkIfCreated, FirstStep
    <3>10. CASE Crash \/ EndOnOrphan \/ InsertBatch \/ BackfillDone
      <4>1. job'.at = "end"
        BY <3>10 DEF Crash, EndOnOrphan, InsertBatch, BackfillDone, Idle
      <4> QED BY <4>1, <3>4
    <3>11. CASE MarkCreated \/ WriteParquet
      <4>1. job'.at \in {"markRef", "begin", "insert"}
        BY <2>1, <3>11 DEF MarkCreated, WriteParquet, JobSet
      <4> QED BY <4>1, <3>4
    <3>12. CASE ChunkAction
      <4>1. job' = [job EXCEPT !.cursor = LastRowid(Pending)] /\ job.at = "chunk"
        BY <3>12, ChunkUnchanged
      <4>2. job'.at = "chunk"
        BY <2>1, <4>1 DEF JobSet
      <4> QED BY <4>2, <3>4
    <3>13. CASE DatesTableDone
      <4>1. job.at = "chunk" /\ (job' = Idle \/ job' = [job EXCEPT !.cursor = job.cursor + 1])
        BY <3>13 DEF DatesTableDone, AtTable
      <4>2. job'.at \in {"end", "chunk"}
        BY <2>1, <4>1 DEF Idle, JobSet
      <4> QED BY <4>2, <3>4
    <3>14. CASE DatesChunk \/ BuildStart \/ BuildCrash
      BY <3>5, <3>14 DEF DatesChunk, BuildStart, BuildCrash
    <3> QED BY <1>2, <2>6, <3>6, <3>7, <3>8, <3>9, <3>10, <3>11, <3>12, <3>13, <3>14, ActionKinds
        DEF QuietAction
  <2> QED BY <2>3, <2>5, <2>6
<1> QED BY <1>1, <1>2

LEMMA TrailerInit == Init => TrailerInv
<1> SUFFICES ASSUME Init PROVE TrailerInv
  OBVIOUS
<1>1. job.at = "end"
  BY DEF Init, Idle
<1>2. CASE ~exists
  <2>1. mails = {} /\ rows = NoRows
    BY <1>2 DEF Init
  <2> QED BY <1>1, <2>1 DEF TrailerInv, NoTrailerLost, Stored, NoRows
<1>3. CASE exists
  <2>1. mails = {[id |-> i, key |-> OldMails[i], dated |-> FALSE] : i \in DOMAIN OldMails}
    BY <1>3 DEF Init
  <2>2. Stored = OldKeys
    BY <1>3, InitOld
  <2> DEFINE old(i) == [id |-> i, key |-> OldMails[i], dated |-> FALSE]
  <2>5. \A i \in DOMAIN OldMails : old(i) \in mails /\ old(i).id = i /\ old(i).key = OldMails[i]
    BY <2>1
  <2> HIDE DEF old
  <2>3. MailIds = DOMAIN OldMails
    <3>1. \A e \in mails : e.id \in DOMAIN OldMails
      BY <2>1
    <3>2. \A i \in DOMAIN OldMails : \E e \in mails : e.id = i
      BY <2>5
    <3> QED BY <3>1, <3>2 DEF MailIds
  <2>4. \A k \in Stored : \E e \in mails : e.key = k
    <3>1. \A k \in Stored : \E i \in DOMAIN OldMails : OldMails[i] = k
      BY <2>2, OldAssumption DEF OldKeys
    <3> QED BY <2>5, <3>1
  <2> QED BY <1>1, <2>3, <2>4 DEF TrailerInv, NoTrailerLost
<1> QED BY <1>2, <1>3

(* If the legacy table has no gap wider than a window, neither a crash nor *)
(* the windows of the migration lose a message's trailers before the old   *)
(* table is dropped; over_gap shows what a gap does                        *)
(* (over.rs:1292-1301, 1418).                                              *)
THEOREM NoTrailerIsLost == ASSUME NoGap PROVE Spec => []NoTrailerLost
<1>1. Init => IInv /\ TrailerInv
  BY InitInv, TrailerInit
<1>2. IInv /\ TrailerInv /\ [Next]_vars => (IInv /\ TrailerInv)'
  BY StepInv, TrailerStep
<1>3. IInv /\ TrailerInv => NoTrailerLost
  BY DEF TrailerInv
<1> QED BY <1>1, <1>2, <1>3, PTL DEF Spec

=============================================================================
