----------------------------- MODULE RowsProofs -----------------------------
(***************************************************************************)
(* What the models need to know of recursion over a range 0 .. k and of    *)
(* sequences of rows. Induction is stated for a set of numbers instead of  *)
(* an operator: a proof defines the set of the numbers at which its claim  *)
(* holds.                                                                  *)
(***************************************************************************)
EXTENDS Rows, FiniteSetTheorems, TLAPS

\* Natural numbers have a least one.
LEMMA NatMin ==
    ASSUME NEW T \in SUBSET Nat, T # {}
    PROVE  \E n \in T : \A m \in T : n <= m
<1> DEFINE R == OpToRel(<, Nat)
<1>1. IsWellFoundedOn(R, Nat)
  BY NatLessThanWellFounded
<1>2. \A m, n \in Nat : m < n => <<m, n>> \in R
  BY DEF OpToRel
<1> HIDE DEF R
<1>3. PICK n \in T : \A m \in T : ~(<<m, n>> \in R)
  BY <1>1, WFMin
<1>4. ASSUME NEW m \in T PROVE n <= m
  <2>1. m \in Nat /\ n \in Nat /\ ~(m < n)
    BY <1>2, <1>3
  <2> QED BY <2>1
<1> QED BY <1>4

\* Induction: a set with 0 and the successor of each of its numbers has them all.
LEMMA Induct ==
    ASSUME NEW T, 0 \in T, \A n \in Nat : n \in T => n + 1 \in T
    PROVE  Nat \subseteq T
<1> SUFFICES ASSUME Nat \ T # {} PROVE FALSE
  OBVIOUS
<1>1. PICK n \in Nat \ T : \A m \in Nat \ T : n <= m
  <2> DEFINE B == Nat \ T
  <2>1. B \in SUBSET Nat /\ B # {}
    OBVIOUS
  <2> HIDE DEF B
  <2>2. \E n \in B : \A m \in B : n <= m
    BY <2>1, NatMin
  <2> QED BY <2>2 DEF B
<1>2. n \in Nat /\ n # 0
  BY <1>1
<1>3. n - 1 \in Nat /\ (n - 1) + 1 = n /\ ~(n <= n - 1)
  BY <1>2
<1>4. n - 1 \in T
  BY <1>1, <1>3
<1> QED BY <1>1, <1>3, <1>4

\* The same for the numbers up to k.
LEMMA InductTo ==
    ASSUME NEW k \in Nat, NEW T, 0 \in T,
           \A n \in 0 .. k : n < k /\ n \in T => n + 1 \in T
    PROVE  0 .. k \subseteq T
<1> DEFINE U == {n \in Nat : n <= k => n \in T}
<1>1. 0 \in U
  OBVIOUS
<1>2. ASSUME NEW n \in Nat, n \in U PROVE n + 1 \in U
  <2> SUFFICES ASSUME n + 1 <= k PROVE n + 1 \in T
    OBVIOUS
  <2>1. n \in 0 .. k /\ n < k /\ n <= k
    OBVIOUS
  <2> QED BY <1>2, <2>1
<1> HIDE DEF U
<1>3. Nat \subseteq U
  BY <1>1, <1>2, Induct
<1> QED BY <1>3 DEF U

\* A recursion: what its turns 1 .. k make of a value in S, and its values.
Turns(S, k) == [1 .. k -> [S -> S]]
Recurs(f, b, k, step) == f[0] = b /\ \A n \in 1 .. k : f[n] = step[n][f[n - 1]]

\* A recursion over 0 .. k defines a function.
LEMMA Recursion ==
    ASSUME NEW S, NEW b \in S, NEW k \in Nat, NEW step \in Turns(S, k)
    PROVE  \E f \in [0 .. k -> S] : Recurs(f, b, k, step)
<1> USE DEF Turns
<1> DEFINE T == {j \in Nat : j <= k => \E f \in [0 .. j -> S] :
                   f = [n \in 0 .. j |-> IF n = 0 THEN b ELSE step[n][f[n - 1]]]}
<1>1. 0 \in T
  <2> DEFINE f == [n \in 0 .. 0 |-> b]
  <2>1. f \in [0 .. 0 -> S]
    OBVIOUS
  <2>2. f = [n \in 0 .. 0 |-> IF n = 0 THEN b ELSE step[n][f[n - 1]]]
    OBVIOUS
  <2> QED BY <2>1, <2>2
<1>2. ASSUME NEW j \in Nat, j \in T PROVE j + 1 \in T
  <2> SUFFICES ASSUME j + 1 <= k
               PROVE  \E f \in [0 .. (j + 1) -> S] :
                        f = [n \in 0 .. (j + 1) |->
                               IF n = 0 THEN b ELSE step[n][f[n - 1]]]
    OBVIOUS
  <2>1. j <= k /\ j + 1 \in 1 .. k /\ j \in 0 .. j
    OBVIOUS
  <2>2. PICK f \in [0 .. j -> S] :
             f = [n \in 0 .. j |-> IF n = 0 THEN b ELSE step[n][f[n - 1]]]
    BY <1>2, <2>1
  <2> DEFINE g == [n \in 0 .. (j + 1) |->
                     IF n = j + 1 THEN step[j + 1][f[j]] ELSE f[n]]
  <2>3. \A n \in 0 .. (j + 1) : n # j + 1 => n \in 0 .. j
    OBVIOUS
  <2>4. f[j] \in S /\ step[j + 1] \in [S -> S] /\ step[j + 1][f[j]] \in S
    BY <2>1, <2>2
  <2>5. g \in [0 .. (j + 1) -> S]
    BY <2>3, <2>4
  <2>6. ASSUME NEW n \in 0 .. (j + 1)
        PROVE  g[n] = IF n = 0 THEN b ELSE step[n][g[n - 1]]
    <3>1. CASE n = 0
      <4>1. g[0] = f[0] /\ f[0] = b
        BY <2>1, <2>2
      <4> QED BY <3>1, <4>1
    <3>2. CASE n = j + 1
      <4>1. g[n] = step[n][f[j]] /\ n - 1 = j /\ n # 0
        BY <3>2
      <4>2. g[j] = f[j]
        BY <2>1
      <4> QED BY <4>1, <4>2
    <3>3. CASE n # 0 /\ n # j + 1
      <4>1. n \in 0 .. j /\ n - 1 \in 0 .. j /\ n - 1 # j + 1
        BY <3>3, <2>3
      <4>2. g[n] = f[n] /\ g[n - 1] = f[n - 1]
        BY <4>1
      <4>3. f[n] = step[n][f[n - 1]]
        BY <2>2, <3>3, <4>1
      <4> QED BY <3>3, <4>2, <4>3
    <3> QED BY <3>1, <3>2, <3>3
  <2> HIDE DEF g
  <2>7. g = [n \in 0 .. (j + 1) |-> IF n = 0 THEN b ELSE step[n][g[n - 1]]]
    BY <2>5, <2>6
  <2> QED BY <2>5, <2>7
<1> HIDE DEF T
<1>3. k \in T
  BY <1>1, <1>2, Induct
<1>4. PICK f \in [0 .. k -> S] :
           f = [n \in 0 .. k |-> IF n = 0 THEN b ELSE step[n][f[n - 1]]]
  BY <1>3 DEF T
<1>5. f[0] = b /\ \A n \in 1 .. k : f[n] = step[n][f[n - 1]]
  BY <1>4
<1> QED BY <1>5 DEF Recurs

------------------------------------------------------------------------------
(* Rows of sequences. *)

\* Membership in a sequence, by an index.
LEMMA RowAt ==
    ASSUME NEW S, NEW rows \in Seq(S)
    PROVE  \A x : x \in ToSet(rows) <=> \E i \in 1 .. Len(rows) : rows[i] = x
  BY DOMAIN rows = 1 .. Len(rows) DEF ToSet

\* A concatenation has the rows of both parts.
LEMMA ConcatRows ==
    ASSUME NEW S, NEW s \in Seq(S), NEW t \in Seq(S)
    PROVE  s \o t \in Seq(S) /\ ToSet(s \o t) = ToSet(s) \cup ToSet(t)
<1>1. s \o t \in Seq(S) /\ Len(s \o t) = Len(s) + Len(t)
      /\ Len(s) \in Nat /\ Len(t) \in Nat
  OBVIOUS
<1>2. \A i \in 1 .. Len(s) : (s \o t)[i] = s[i]
  OBVIOUS
<1>3. \A i \in 1 .. Len(t) : (s \o t)[Len(s) + i] = t[i]
  OBVIOUS
<1>4. ASSUME NEW x PROVE x \in ToSet(s \o t) <=> x \in ToSet(s) \cup ToSet(t)
  <2>1. ASSUME x \in ToSet(s \o t) PROVE x \in ToSet(s) \cup ToSet(t)
    <3>1. PICK i \in 1 .. Len(s) + Len(t) : (s \o t)[i] = x
      BY <2>1, <1>1, RowAt
    <3>2. CASE i <= Len(s)
      <4>1. i \in 1 .. Len(s) /\ s[i] = x
        BY <3>1, <3>2, <1>1, <1>2
      <4> QED BY <4>1, RowAt
    <3>3. CASE i > Len(s)
      <4>1. i - Len(s) \in 1 .. Len(t) /\ Len(s) + (i - Len(s)) = i
        BY <3>1, <3>3, <1>1
      <4>2. t[i - Len(s)] = x
        BY <4>1, <3>1, <1>3
      <4> QED BY <4>1, <4>2, RowAt
    <3> QED BY <3>1, <3>2, <3>3, <1>1
  <2>2. ASSUME x \in ToSet(s) PROVE x \in ToSet(s \o t)
    <3>1. PICK i \in 1 .. Len(s) : s[i] = x
      BY <2>2, RowAt
    <3>2. i \in 1 .. Len(s \o t) /\ (s \o t)[i] = x
      BY <3>1, <1>1, <1>2
    <3> QED BY <3>2, <1>1, RowAt
  <2>3. ASSUME x \in ToSet(t) PROVE x \in ToSet(s \o t)
    <3>1. PICK i \in 1 .. Len(t) : t[i] = x
      BY <2>3, RowAt
    <3>2. Len(s) + i \in 1 .. Len(s \o t) /\ (s \o t)[Len(s) + i] = x
      BY <3>1, <1>1, <1>3
    <3> QED BY <3>2, <1>1, RowAt
  <2> QED BY <2>1, <2>2, <2>3
<1> QED BY <1>1, <1>4

\* A sequence is its first n rows and the others.
LEMMA SplitRows ==
    ASSUME NEW S, NEW rows \in Seq(S), NEW n \in 0 .. Len(rows)
    PROVE  /\ SubSeq(rows, 1, n) \in Seq(S)
           /\ SubSeq(rows, n + 1, Len(rows)) \in Seq(S)
           /\ ToSet(rows) = ToSet(SubSeq(rows, 1, n))
                             \cup ToSet(SubSeq(rows, n + 1, Len(rows)))
<1> DEFINE a == SubSeq(rows, 1, n)
           b == SubSeq(rows, n + 1, Len(rows))
<1>1. a \in Seq(S) /\ Len(a) = n /\ \A i \in 1 .. n : a[i] = rows[i]
  OBVIOUS
<1>2. /\ b \in Seq(S) /\ Len(b) = Len(rows) - n
      /\ \A i \in 1 .. Len(rows) - n : b[i] = rows[n + i]
  OBVIOUS
<1> HIDE DEF a, b
<1>3. Len(rows) \in Nat /\ n \in Nat /\ n <= Len(rows)
  OBVIOUS
<1>4. ASSUME NEW x \in ToSet(rows) PROVE x \in ToSet(a) \cup ToSet(b)
  <2>1. PICK i \in 1 .. Len(rows) : rows[i] = x
    BY <1>4, RowAt
  <2>2. CASE i <= n
    <3>1. i \in 1 .. Len(a) /\ a[i] = x
      BY <2>1, <2>2, <1>1, <1>3
    <3> QED BY <3>1, <1>1, RowAt
  <2>3. CASE i > n
    <3>1. i - n \in 1 .. Len(b) /\ n + (i - n) = i
      BY <2>1, <2>3, <1>2, <1>3
    <3>2. b[i - n] = x
      BY <3>1, <2>1, <1>2
    <3> QED BY <3>1, <3>2, <1>2, RowAt
  <2> QED BY <2>2, <2>3, <2>1, <1>3
<1>5. ASSUME NEW x \in ToSet(a) PROVE x \in ToSet(rows)
  <2>1. PICK i \in 1 .. n : a[i] = x
    BY <1>5, <1>1, RowAt
  <2>2. i \in 1 .. Len(rows) /\ rows[i] = x
    BY <2>1, <1>1, <1>3
  <2> QED BY <2>2, RowAt
<1>6. ASSUME NEW x \in ToSet(b) PROVE x \in ToSet(rows)
  <2>1. PICK i \in 1 .. Len(rows) - n : b[i] = x
    BY <1>6, <1>2, RowAt
  <2>2. n + i \in 1 .. Len(rows) /\ rows[n + i] = x
    BY <2>1, <1>2, <1>3
  <2> QED BY <2>2, RowAt
<1>7. ToSet(rows) = ToSet(a) \cup ToSet(b)
  BY <1>4, <1>5, <1>6
<1> QED BY <1>1, <1>2, <1>7 DEF a, b

\* A sequence has finitely many rows.
LEMMA RowsFinite ==
    ASSUME NEW S, NEW rows \in Seq(S)
    PROVE  /\ IsFiniteSet(ToSet(rows)) /\ Cardinality(ToSet(rows)) \in Nat
           /\ Cardinality(ToSet(rows)) <= Len(rows)
<1> DEFINE I == 1 .. Len(rows)
           R == ToSet(rows)
<1>1. Len(rows) \in Nat
  OBVIOUS
<1>2. IsFiniteSet(I) /\ Cardinality(I) = Len(rows)
  <2>1. ASSUME NEW k \in Nat PROVE IsFiniteSet(1 .. k) /\ Cardinality(1 .. k) = k
    <3>1. /\ IsFiniteSet(1 .. k)
          /\ Cardinality(1 .. k) = IF 1 > k THEN 0 ELSE k - 1 + 1
      BY FS_Interval
    <3> QED BY <3>1
  <2> QED BY <1>1, <2>1
<1>3. rows \in [I -> R] /\ \A x \in R : \E i \in I : rows[i] = x
  BY DEF ToSet
<1>4. rows \in Surjection(I, R)
  BY <1>3 DEF Surjection
<1> HIDE DEF I, R
<1>5. IsFiniteSet(R) /\ Cardinality(R) <= Cardinality(I)
  BY <1>2, <1>4, FS_Surjection
<1>6. Cardinality(R) \in Nat
  BY <1>5, FS_CardinalityType
<1> QED BY <1>2, <1>5, <1>6 DEF R

\* The first n rows.
LEMMA FirstNRows ==
    ASSUME NEW S, NEW rows \in Seq(S), NEW n \in Nat
    PROVE  /\ FirstN(rows, n) \in Seq(S)
           /\ Len(FirstN(rows, n)) = IF Len(rows) < n THEN Len(rows) ELSE n
           /\ \A i \in 1 .. Len(FirstN(rows, n)) :
                i \in 1 .. Len(rows) /\ FirstN(rows, n)[i] = rows[i]
           /\ Len(rows) <= n => FirstN(rows, n) = rows
<1> DEFINE k == IF Len(rows) < n THEN Len(rows) ELSE n
<1>1. Len(rows) \in Nat /\ k \in 0 .. Len(rows) /\ (Len(rows) <= n => k = Len(rows))
  OBVIOUS
<1>2. FirstN(rows, n) = SubSeq(rows, 1, k)
  BY DEF FirstN
<1> HIDE DEF k
<1>3. /\ SubSeq(rows, 1, k) \in Seq(S) /\ Len(SubSeq(rows, 1, k)) = k
      /\ \A i \in 1 .. k : SubSeq(rows, 1, k)[i] = rows[i]
  BY <1>1
<1>4. SubSeq(rows, 1, Len(rows)) = rows
  OBVIOUS
<1>5. k = IF Len(rows) < n THEN Len(rows) ELSE n
  BY DEF k
<1>6. \A i \in 1 .. k : i \in 1 .. Len(rows)
  BY <1>1
<1>7. Len(rows) <= n => FirstN(rows, n) = rows
  BY <1>1, <1>2, <1>4
<1>8. Len(FirstN(rows, n)) = k
  BY <1>2, <1>3
<1> QED BY <1>2, <1>3, <1>5, <1>6, <1>7, <1>8

\* kept has what a selection holds after each row of s.
Selects(s, keep, kept) ==
    /\ kept[0] = <<>>
    /\ \A n \in 1 .. Len(s) :
         kept[n] = IF s[n] \in keep THEN Append(kept[n - 1], s[n]) ELSE kept[n - 1]

\* Select is what its definition says: one turn for each row.
LEMMA SelectTurns ==
    ASSUME NEW S, NEW s \in Seq(S), NEW keep
    PROVE  \E kept : Selects(s, keep, kept) /\ Select(s, keep) = kept[Len(s)]
<1> DEFINE k == Len(s)
           Next(n, r) == IF s[n] \in keep THEN Append(r, s[n]) ELSE r
           step == [n \in 1 .. k |-> [r \in Seq(S) |-> Next(n, r)]]
           Body(f) == [n \in 0 .. k |->
                         IF n = 0 THEN <<>>
                         ELSE IF s[n] \in keep THEN Append(f[n - 1], s[n])
                              ELSE f[n - 1]]
           kept == CHOOSE f : f = Body(f)
<1>1. k \in Nat /\ \A n \in 1 .. k : s[n] \in S
  OBVIOUS
<1>2. step \in [1 .. k -> [Seq(S) -> Seq(S)]]
  <2>1. ASSUME NEW n \in 1 .. k, NEW r \in Seq(S) PROVE Next(n, r) \in Seq(S)
    BY <1>1
  <2> HIDE DEF Next
  <2> QED BY <2>1
<1>3. PICK f \in [0 .. k -> Seq(S)] :
           f[0] = <<>> /\ \A n \in 1 .. k : f[n] = step[n][f[n - 1]]
  <2> DEFINE Q == Seq(S)
             b == <<>>
  <2>1. b \in Q
    OBVIOUS
  <2>2. step \in Turns(Q, k)
    BY <1>2 DEF Turns
  <2>3. k \in Nat
    BY <1>1
  <2> HIDE DEF step, k, Q, b, Next, Body, kept
  <2>4. \E f \in [0 .. k -> Q] : Recurs(f, b, k, step)
    BY <2>1, <2>2, <2>3, Recursion
  <2> QED BY <2>4 DEF Q, b, Recurs
<1>4. f = Body(f)
  <2>1. ASSUME NEW n \in 0 .. k, n # 0
        PROVE  n \in 1 .. k /\ f[n] = Next(n, f[n - 1])
    <3>1. n \in 1 .. k /\ n - 1 \in 0 .. k
      BY <2>1, <1>1
    <3>2. f[n - 1] \in Seq(S)
      BY <3>1
    <3> HIDE DEF Next
    <3> QED BY <1>3, <3>1, <3>2
  <2> HIDE DEF step
  <2> QED BY <1>3, <2>1
<1>5. kept = Body(kept)
  <2> HIDE DEF Body
  <2> QED BY <1>4
<1>6. Select(s, keep) = kept[k]
  BY DEF Select
<1>7. /\ kept[0] = <<>>
      /\ \A n \in 1 .. k : kept[n] = Next(n, kept[n - 1])
  <2> HIDE DEF kept
  <2>1. kept[0] = <<>>
    BY <1>5, <1>1
  <2>2. ASSUME NEW n \in 1 .. k PROVE kept[n] = Next(n, kept[n - 1])
    <3>1. n \in 0 .. k /\ n # 0
      BY <1>1
    <3> HIDE DEF k
    <3> QED BY <1>5, <3>1
  <2> QED BY <2>1, <2>2
<1> HIDE DEF kept
<1> QED BY <1>6, <1>7 DEF Selects

\* A selection has the rows of the sequence that are in keep.
LEMMA SelectRows ==
    ASSUME NEW S, NEW s \in Seq(S), NEW keep
    PROVE  /\ Select(s, keep) \in Seq(S)
           /\ ToSet(Select(s, keep)) = ToSet(s) \cap keep
<1> DEFINE k == Len(s)
           Next(n, r) == IF s[n] \in keep THEN Append(r, s[n]) ELSE r
<1>1. k \in Nat /\ \A n \in 1 .. k : s[n] \in S
  OBVIOUS
<1>2. PICK kept : Selects(s, keep, kept) /\ Select(s, keep) = kept[k]
  BY SelectTurns
<1>3. /\ kept[0] = <<>>
      /\ \A n \in 1 .. k : kept[n] = Next(n, kept[n - 1])
  BY <1>2 DEF Selects
<1> DEFINE T == {n \in 0 .. k : /\ kept[n] \in Seq(S)
                                /\ ToSet(kept[n]) = {s[i] : i \in 1 .. n} \cap keep}
<1>4. 0 \in T
  <2>1. kept[0] \in Seq(S) /\ ToSet(kept[0]) = {}
    BY <1>3 DEF ToSet
  <2>2. {s[i] : i \in 1 .. 0} = {}
    OBVIOUS
  <2>3. 0 \in 0 .. k
    BY <1>1
  <2> HIDE DEF k
  <2> QED BY <2>1, <2>2, <2>3
<1>5. ASSUME NEW n \in 0 .. k, n < k, n \in T PROVE n + 1 \in T
  <2>1. n + 1 \in 1 .. k /\ (n + 1) - 1 = n /\ n + 1 \in 0 .. k
    BY <1>1, <1>5
  <2>2. kept[n + 1] = Next(n + 1, kept[n])
    BY <1>3, <2>1
  <2>3. {s[i] : i \in 1 .. n + 1} = {s[i] : i \in 1 .. n} \cup {s[n + 1]}
    <3>1. 1 .. n + 1 = (1 .. n) \cup {n + 1}
      BY <1>1
    <3> QED BY <3>1
  <2>4. kept[n] \in Seq(S) /\ ToSet(kept[n]) = {s[i] : i \in 1 .. n} \cap keep
    BY <1>5
  <2>5. CASE s[n + 1] \in keep
    <3> DEFINE last == <<s[n + 1]>>
    <3>1. kept[n + 1] = Append(kept[n], s[n + 1])
      BY <2>2, <2>5
    <3>2. Append(kept[n], s[n + 1]) = kept[n] \o last
      <4>1. \A r \in Seq(S), x \in S : Append(r, x) = r \o <<x>>
        OBVIOUS
      <4> QED BY <4>1, <2>4, <2>1, <1>1
    <3>3. last \in Seq(S) /\ ToSet(last) = {s[n + 1]}
      BY <2>1, <1>1 DEF ToSet
    <3> HIDE DEF last
    <3>4. /\ kept[n] \o last \in Seq(S)
          /\ ToSet(kept[n] \o last) = ToSet(kept[n]) \cup ToSet(last)
      BY <2>4, <3>3, ConcatRows
    <3> QED BY <2>1, <2>3, <2>4, <2>5, <3>1, <3>2, <3>3, <3>4
  <2>6. CASE s[n + 1] \notin keep
    BY <2>1, <2>2, <2>3, <2>4, <2>6
  <2> QED BY <2>5, <2>6
<1>6. k \in T
  <2> HIDE DEF T, k
  <2>1. 0 .. k \subseteq T
    BY <1>1, <1>4, <1>5, InductTo
  <2> QED BY <2>1, <1>1
<1>7. ToSet(s) = {s[i] : i \in 1 .. k}
  BY DEF ToSet
<1> QED BY <1>2, <1>6, <1>7

\* A selection of rows none of which is there twice has none twice.
LEMMA SelectDistinct ==
    ASSUME NEW S, NEW s \in Seq(S), IsInjective(s), NEW keep
    PROVE  IsInjective(Select(s, keep))
<1> DEFINE k == Len(s)
           Next(n, r) == IF s[n] \in keep THEN Append(r, s[n]) ELSE r
<1>1. k \in Nat /\ DOMAIN s = 1 .. k /\ \A n \in 1 .. k : s[n] \in S
  OBVIOUS
<1>2. PICK kept : Selects(s, keep, kept) /\ Select(s, keep) = kept[k]
  BY SelectTurns
<1>3. /\ kept[0] = <<>>
      /\ \A n \in 1 .. k : kept[n] = Next(n, kept[n - 1])
  BY <1>2 DEF Selects
<1> DEFINE T == {n \in 0 .. k : /\ kept[n] \in Seq(S) /\ IsInjective(kept[n])
                                /\ \A x \in ToSet(kept[n]) : \E i \in 1 .. n : s[i] = x}
<1>4. 0 \in T
  <2>1. kept[0] \in Seq(S) /\ IsInjective(kept[0]) /\ ToSet(kept[0]) = {}
    BY <1>3 DEF ToSet, IsInjective
  <2>2. 0 \in 0 .. k
    BY <1>1
  <2> HIDE DEF k
  <2> QED BY <2>1, <2>2
<1>5. ASSUME NEW n \in 0 .. k, n < k, n \in T PROVE n + 1 \in T
  <2>1. n + 1 \in 1 .. k /\ (n + 1) - 1 = n /\ n + 1 \in 0 .. k
        /\ \A i \in 1 .. n : i \in 1 .. n + 1 /\ i \in 1 .. k /\ i # n + 1
    BY <1>1, <1>5
  <2>2. kept[n + 1] = Next(n + 1, kept[n])
    BY <1>3, <2>1
  <2>3. /\ kept[n] \in Seq(S) /\ IsInjective(kept[n])
        /\ \A x \in ToSet(kept[n]) : \E i \in 1 .. n : s[i] = x
    BY <1>5
  <2>4. CASE s[n + 1] \in keep
    <3> DEFINE last == s[n + 1]
               r == kept[n]
    <3>1. kept[n + 1] = Append(r, last)
      BY <2>2, <2>4
    <3>2. last \in S /\ last \notin ToSet(r)
      BY <1>1, <2>1, <2>3 DEF IsInjective
    <3> HIDE DEF last, r
    <3>3. r \in Seq(S) /\ IsInjective(r)
      BY <2>3 DEF r
    <3>4. /\ Append(r, last) \in Seq(S) /\ Len(r) \in Nat
          /\ DOMAIN Append(r, last) = 1 .. Len(r) + 1 /\ DOMAIN r = 1 .. Len(r)
          /\ \A i \in 1 .. Len(r) : Append(r, last)[i] = r[i] /\ r[i] # last
          /\ Append(r, last)[Len(r) + 1] = last
      <4>1. \A i \in 1 .. Len(r) : r[i] \in ToSet(r)
        BY <3>3, RowAt
      <4> QED BY <3>2, <3>3, <4>1
    <3>5. \A i \in 1 .. Len(r) + 1 : i \in 1 .. Len(r) \/ i = Len(r) + 1
      BY <3>4
    <3>6. IsInjective(Append(r, last))
      BY <3>3, <3>4, <3>5 DEF IsInjective
    <3>7. ASSUME NEW x \in ToSet(Append(r, last))
          PROVE  \E i \in 1 .. n + 1 : s[i] = x
      <4>1. x \in ToSet(r) \/ x = last
        BY <3>3, <3>4, <3>5, <3>7, RowAt DEF ToSet
      <4> QED BY <4>1, <2>1, <2>3 DEF r, last
    <3> QED BY <2>1, <3>1, <3>4, <3>6, <3>7
  <2>5. CASE s[n + 1] \notin keep
    BY <2>1, <2>2, <2>3, <2>5
  <2> QED BY <2>4, <2>5
<1>6. k \in T
  <2> HIDE DEF T, k
  <2>1. 0 .. k \subseteq T
    BY <1>1, <1>4, <1>5, InductTo
  <2> QED BY <2>1, <1>1
<1> QED BY <1>2, <1>6

\* A selection keeps the order of the rows, whatever relation R of pairs that is.
LEMMA SelectInOrder ==
    ASSUME NEW S, NEW s \in Seq(S), NEW keep, NEW R,
           \A i, j \in 1 .. Len(s) : i < j => <<s[i], s[j]>> \in R
    PROVE  \A i, j \in 1 .. Len(Select(s, keep)) :
             i < j => <<Select(s, keep)[i], Select(s, keep)[j]>> \in R
<1> DEFINE k == Len(s)
           Next(n, r) == IF s[n] \in keep THEN Append(r, s[n]) ELSE r
           Ordered(r) == \A i, j \in 1 .. Len(r) : i < j => <<r[i], r[j]>> \in R
<1>1. k \in Nat /\ \A n \in 1 .. k : s[n] \in S
  OBVIOUS
<1>2. PICK kept : Selects(s, keep, kept) /\ Select(s, keep) = kept[k]
  BY SelectTurns
<1>3. /\ kept[0] = <<>>
      /\ \A n \in 1 .. k : kept[n] = Next(n, kept[n - 1])
  BY <1>2 DEF Selects
<1> DEFINE T == {n \in 0 .. k : /\ kept[n] \in Seq(S) /\ Ordered(kept[n])
                                /\ \A x \in ToSet(kept[n]) : \E i \in 1 .. n : s[i] = x}
<1>4. 0 \in T
  <2>1. kept[0] \in Seq(S) /\ Ordered(kept[0]) /\ ToSet(kept[0]) = {}
    BY <1>3 DEF ToSet
  <2>2. 0 \in 0 .. k
    BY <1>1
  <2> HIDE DEF k, Ordered
  <2> QED BY <2>1, <2>2
<1>5. ASSUME NEW n \in 0 .. k, n < k, n \in T PROVE n + 1 \in T
  <2>1. n + 1 \in 1 .. k /\ (n + 1) - 1 = n /\ n + 1 \in 0 .. k
        /\ \A i \in 1 .. n : i \in 1 .. n + 1 /\ i \in 1 .. k /\ i < n + 1
    BY <1>1, <1>5
  <2>2. kept[n + 1] = Next(n + 1, kept[n])
    BY <1>3, <2>1
  <2>3. /\ kept[n] \in Seq(S) /\ Ordered(kept[n])
        /\ \A x \in ToSet(kept[n]) : \E i \in 1 .. n : s[i] = x
    BY <1>5
  <2>4. CASE s[n + 1] \in keep
    <3> DEFINE last == s[n + 1]
               r == kept[n]
    <3>1. kept[n + 1] = Append(r, last)
      BY <2>2, <2>4
    <3>2. last \in S /\ \A x \in ToSet(r) : <<x, last>> \in R
      BY <1>1, <2>1, <2>3
    <3>3. r \in Seq(S) /\ Ordered(r)
      BY <2>3 DEF r
    <3> HIDE DEF last, r
    <3>4. /\ Append(r, last) \in Seq(S) /\ Len(r) \in Nat
          /\ Len(Append(r, last)) = Len(r) + 1
          /\ \A i \in 1 .. Len(r) : Append(r, last)[i] = r[i] /\ r[i] \in ToSet(r)
          /\ Append(r, last)[Len(r) + 1] = last
      <4>1. \A i \in 1 .. Len(r) : r[i] \in ToSet(r)
        BY <3>3, RowAt
      <4> QED BY <3>2, <3>3, <4>1
    <3>5. Ordered(Append(r, last))
      <4> SUFFICES ASSUME NEW i \in 1 .. Len(r) + 1, NEW j \in 1 .. Len(r) + 1, i < j
                   PROVE  <<Append(r, last)[i], Append(r, last)[j]>> \in R
        BY <3>4
      <4>1. i \in 1 .. Len(r) /\ (j \in 1 .. Len(r) \/ j = Len(r) + 1)
        BY <3>4
      <4> QED BY <3>2, <3>3, <3>4, <4>1
    <3>6. ASSUME NEW x \in ToSet(Append(r, last))
          PROVE  \E i \in 1 .. n + 1 : s[i] = x
      <4>1. x \in ToSet(r) \/ x = last
        <5> DEFINE longer == Append(r, last)
        <5>0. longer \in Seq(S) /\ Len(longer) = Len(r) + 1 /\ x \in ToSet(longer)
          BY <3>4, <3>6
        <5> HIDE DEF longer
        <5>1. PICK i \in 1 .. Len(r) + 1 : longer[i] = x
          BY <5>0, RowAt
        <5>2. i \in 1 .. Len(r) \/ i = Len(r) + 1
          BY <3>4
        <5> QED BY <3>4, <5>1, <5>2 DEF longer
      <4> QED BY <4>1, <2>1, <2>3 DEF r, last
    <3> HIDE DEF Ordered
    <3> QED BY <2>1, <3>1, <3>4, <3>5, <3>6
  <2>5. CASE s[n + 1] \notin keep
    <3> HIDE DEF Ordered
    <3> QED BY <2>1, <2>2, <2>3, <2>5
  <2> QED BY <2>4, <2>5
<1>6. k \in T
  <2> HIDE DEF T, k
  <2>1. 0 .. k \subseteq T
    BY <1>1, <1>4, <1>5, InductTo
  <2> QED BY <2>1, <1>1
<1> QED BY <1>2, <1>6

\* The selection of all rows but the first m.
LEMMA SelectTail ==
    ASSUME NEW S, NEW s \in Seq(S), NEW keep, NEW m \in 0 .. Len(s),
           \A i \in 1 .. Len(s) : s[i] \in keep <=> i > m
    PROVE  /\ Select(s, keep) \in Seq(S) /\ Len(Select(s, keep)) = Len(s) - m
           /\ \A i \in 1 .. Len(s) - m : Select(s, keep)[i] = s[m + i]
<1> DEFINE k == Len(s)
           Next(n, r) == IF s[n] \in keep THEN Append(r, s[n]) ELSE r
           size(n) == IF n <= m THEN 0 ELSE n - m
           Ends(r, n) == Len(r) = size(n) /\ \A i \in 1 .. size(n) : r[i] = s[m + i]
<1>1. k \in Nat /\ (\A n \in 1 .. k : s[n] \in S) /\ m \in Nat /\ m <= k
  OBVIOUS
<1>2. PICK kept : Selects(s, keep, kept) /\ Select(s, keep) = kept[k]
  BY SelectTurns
<1>3. /\ kept[0] = <<>>
      /\ \A n \in 1 .. k : kept[n] = Next(n, kept[n - 1])
  BY <1>2 DEF Selects
<1> DEFINE T == {n \in 0 .. k : kept[n] \in Seq(S) /\ Ends(kept[n], n)}
<1>4. 0 \in T
  <2>1. kept[0] \in Seq(S) /\ Len(kept[0]) = 0 /\ 0 \in 0 .. k /\ size(0) = 0
    BY <1>1, <1>3
  <2> QED BY <2>1
<1>5. ASSUME NEW n \in 0 .. k, n < k, n \in T PROVE n + 1 \in T
  <2>1. n + 1 \in 1 .. k /\ (n + 1) - 1 = n /\ n + 1 \in 0 .. k /\ n \in Nat
    BY <1>1, <1>5
  <2>2. kept[n + 1] = Next(n + 1, kept[n]) /\ s[n + 1] \in S
    BY <1>1, <1>3, <2>1
  <2>3. kept[n] \in Seq(S) /\ Ends(kept[n], n)
    BY <1>5
  <2>4. CASE n + 1 > m
    <3> DEFINE r == kept[n]
    <3>1. kept[n + 1] = Append(r, s[n + 1]) /\ size(n) = n - m /\ size(n + 1) = n + 1 - m
      BY <1>1, <2>1, <2>2, <2>4
    <3>2. /\ Append(r, s[n + 1]) \in Seq(S) /\ Len(Append(r, s[n + 1])) = n + 1 - m
          /\ \A i \in 1 .. n - m : Append(r, s[n + 1])[i] = s[m + i]
          /\ Append(r, s[n + 1])[n + 1 - m] = s[n + 1]
      <4>1. r \in Seq(S) /\ Len(r) = n - m /\ \A i \in 1 .. n - m : r[i] = s[m + i]
        BY <2>3, <3>1
      <4> DEFINE x == s[n + 1]
      <4>2. x \in S /\ r \in Seq(S)
        BY <2>2, <4>1
      <4> HIDE DEF r, x
      <4>3. /\ Append(r, x) \in Seq(S) /\ Len(Append(r, x)) = Len(r) + 1
            /\ \A i \in 1 .. Len(r) : Append(r, x)[i] = r[i]
            /\ Append(r, x)[Len(r) + 1] = x
        BY <4>2
      <4>4. (n - m) + 1 = n + 1 - m
        BY <1>1, <2>1
      <4> QED BY <4>1, <4>3, <4>4 DEF x
    <3>3. \A i \in 1 .. n + 1 - m : i \in 1 .. n - m \/ (i = n + 1 - m /\ m + i = n + 1)
      BY <1>1, <2>1
    <3> HIDE DEF r, size
    <3> QED BY <2>1, <3>1, <3>2, <3>3
  <2>5. CASE n + 1 <= m
    <3>1. s[n + 1] \notin keep
      BY <1>1, <2>1, <2>5
    <3>2. kept[n + 1] = kept[n] /\ size(n + 1) = 0 /\ size(n) = 0
      BY <1>1, <2>1, <2>2, <2>5, <3>1
    <3> QED BY <2>1, <2>3, <3>2
  <2> QED BY <1>1, <2>1, <2>4, <2>5
<1>6. k \in T
  <2> HIDE DEF T, k
  <2>1. 0 .. k \subseteq T
    BY <1>1, <1>4, <1>5, InductTo
  <2> QED BY <2>1, <1>1
<1>7. size(k) = k - m
  BY <1>1
<1> HIDE DEF size
<1> QED BY <1>2, <1>6, <1>7

\* The first n rows are rows.
LEMMA FirstNKeeps ==
    ASSUME NEW S, NEW s \in Seq(S), NEW n \in Nat
    PROVE  FirstN(s, n) \in Seq(S) /\ ToSet(FirstN(s, n)) \subseteq ToSet(s)
<1>1. /\ FirstN(s, n) \in Seq(S)
      /\ \A i \in 1 .. Len(FirstN(s, n)) :
           i \in 1 .. Len(s) /\ FirstN(s, n)[i] = s[i]
  BY FirstNRows
<1> QED BY <1>1, RowAt

\* The first rows of a sequence that has none twice.
LEMMA FirstNDistinct ==
    ASSUME NEW S, NEW s \in Seq(S), IsInjective(s), NEW n \in Nat
    PROVE  IsInjective(FirstN(s, n))
<1>1. /\ FirstN(s, n) \in Seq(S)
      /\ \A i \in 1 .. Len(FirstN(s, n)) :
           i \in 1 .. Len(s) /\ FirstN(s, n)[i] = s[i]
  BY FirstNRows
<1> QED BY <1>1 DEF IsInjective

\* There are as many rows as places if none is there twice.
LEMMA DistinctCount ==
    ASSUME NEW S, NEW s \in Seq(S), IsInjective(s)
    PROVE  Cardinality(ToSet(s)) = Len(s)
<1> DEFINE I == 1 .. Len(s)
           R == ToSet(s)
<1>1. Len(s) \in Nat /\ DOMAIN s = I
  OBVIOUS
<1>2. IsFiniteSet(I) /\ Cardinality(I) = Len(s)
  <2>1. ASSUME NEW k \in Nat PROVE IsFiniteSet(1 .. k) /\ Cardinality(1 .. k) = k
    <3>1. /\ IsFiniteSet(1 .. k)
          /\ Cardinality(1 .. k) = IF 1 > k THEN 0 ELSE k - 1 + 1
      BY FS_Interval
    <3> QED BY <3>1
  <2> QED BY <1>1, <2>1
<1>3. s \in [I -> R] /\ \A x \in R : \E i \in I : s[i] = x
  BY DEF ToSet
<1>4. s \in Bijection(I, R)
  <2>1. s \in Surjection(I, R)
    BY <1>3 DEF Surjection
  <2>2. \A a, b \in I : s[a] = s[b] => a = b
    BY <1>1 DEF IsInjective
  <2> HIDE DEF I, R
  <2>3. s \in Injection(I, R)
    BY <1>3, <2>2 DEF Injection, IsInjective
  <2> QED BY <2>1, <2>3 DEF Bijection
<1> HIDE DEF I, R
<1>5. Cardinality(R) = Cardinality(I)
  <2>1. ExistsBijection(I, R)
    BY <1>4 DEF ExistsBijection
  <2> QED BY <1>2, <2>1, FS_Bijection
<1> QED BY <1>2, <1>5 DEF R

\* A flattened sequence of sequences has the rows of each.
LEMMA FlattenRows ==
    ASSUME NEW S, NEW ss \in Seq(Seq(S))
    PROVE  /\ FlattenSeq(ss) \in Seq(S)
           /\ ToSet(FlattenSeq(ss)) = UNION {ToSet(ss[i]) : i \in DOMAIN ss}
<1> DEFINE k == Len(ss)
           step == [n \in 1 .. k |-> [r \in Seq(S) |-> r \o ss[n]]]
           Body(f) == [i \in 1 .. k |-> IF i = 1 THEN ss[i] ELSE f[i - 1] \o ss[i]]
           flat == CHOOSE f : f = Body(f)
<1>1. k \in Nat /\ (\A n \in 1 .. k : ss[n] \in Seq(S)) /\ DOMAIN ss = 1 .. k
  OBVIOUS
<1>2. CASE k = 0
  <2>1. FlattenSeq(ss) = ss /\ ss = <<>>
    BY <1>2 DEF FlattenSeq
  <2> QED BY <2>1 DEF ToSet
<1>3. CASE k # 0
  <2>1. step \in Turns(Seq(S), k)
    <3>1. ASSUME NEW n \in 1 .. k, NEW r \in Seq(S) PROVE r \o ss[n] \in Seq(S)
      BY <1>1, ConcatRows
    <3> QED BY <3>1 DEF Turns
  <2>2. PICK g \in [0 .. k -> Seq(S)] : Recurs(g, <<>>, k, step)
    <3> DEFINE Q == Seq(S)
               b == <<>>
    <3>1. b \in Q
      OBVIOUS
    <3>2. step \in Turns(Q, k)
      BY <2>1
    <3>3. k \in Nat
      BY <1>1
    <3> HIDE DEF step, k, Q, b, Body, flat
    <3>4. \E g \in [0 .. k -> Q] : Recurs(g, b, k, step)
      BY <3>1, <3>2, <3>3, Recursion
    <3> QED BY <3>4 DEF Q, b
  <2>3. ASSUME NEW n \in 1 .. k PROVE g[n] = g[n - 1] \o ss[n]
    <3>1. n - 1 \in 0 .. k
      BY <1>1
    <3>2. g[n - 1] \in Seq(S)
      BY <3>1
    <3>3. g[n] = step[n][g[n - 1]]
      BY <2>2 DEF Recurs
    <3> QED BY <3>2, <3>3
  <2>4. g[1] = ss[1]
    <3>1. 1 \in 1 .. k /\ 1 - 1 = 0
      BY <1>1, <1>3
    <3>2. g[1] = g[0] \o ss[1] /\ g[0] = <<>>
      BY <3>1, <2>2, <2>3 DEF Recurs
    <3>3. ss[1] \in Seq(S)
      BY <3>1, <1>1
    <3> QED BY <3>2, <3>3
  <2> DEFINE f == [i \in 1 .. k |-> g[i]]
  <2>5. f = Body(f)
    <3>1. ASSUME NEW i \in 1 .. k
          PROVE  g[i] = IF i = 1 THEN ss[i] ELSE f[i - 1] \o ss[i]
      <4>1. CASE i = 1
        BY <4>1, <2>4
      <4>2. CASE i # 1
        <5>1. i - 1 \in 1 .. k
          BY <4>2, <1>1
        <5> HIDE DEF k
        <5>2. f[i - 1] = g[i - 1]
          BY <5>1
        <5> QED BY <4>2, <5>2, <2>3
      <4> QED BY <4>1, <4>2
    <3> HIDE DEF k
    <3> QED BY <3>1
  <2>6. flat = Body(flat)
    <3> HIDE DEF Body
    <3> QED BY <2>5
  <2>7. FlattenSeq(ss) = flat[k]
    BY <1>3 DEF FlattenSeq
  <2> HIDE DEF flat, f
  <2>8. /\ flat[1] = ss[1]
        /\ \A n \in 1 .. k : n # 1 => flat[n] = flat[n - 1] \o ss[n]
    <3>1. 1 \in 1 .. k
      BY <1>1, <1>3
    <3> HIDE DEF k
    <3> QED BY <2>6, <3>1
  <2> DEFINE RowsTo(n) == UNION {ToSet(ss[i]) : i \in 1 .. n}
  <2> HIDE DEF RowsTo
  <2> DEFINE T == {n \in 0 .. k : n # 0 =>
                     /\ flat[n] \in Seq(S)
                     /\ ToSet(flat[n]) = RowsTo(n)}
  <2>9. 0 \in T
    BY <1>1
  <2>10. ASSUME NEW n \in 0 .. k, n < k, n \in T PROVE n + 1 \in T
    <3>1. n + 1 \in 1 .. k /\ n + 1 \in 0 .. k /\ (n + 1) - 1 = n /\ ss[n + 1] \in Seq(S)
      <4>1. n \in Nat /\ n < k
        BY <2>10, <1>1
      <4> HIDE DEF T, k
      <4>2. n + 1 \in 1 .. k /\ n + 1 \in 0 .. k /\ (n + 1) - 1 = n
        BY <4>1, <1>1
      <4> QED BY <4>2, <1>1
    <3>2. CASE n = 0
      <4>1. flat[n + 1] = ss[1] /\ ss[1] \in Seq(S) /\ n + 1 = 1
        BY <3>1, <3>2, <2>8
      <4>2. 1 .. 1 = {1}
        OBVIOUS
      <4>3. RowsTo(1) = ToSet(ss[1])
        BY <4>2 DEF RowsTo
      <4> QED BY <3>1, <4>1, <4>3
    <3>3. CASE n # 0
      <4>1. flat[n + 1] = flat[n] \o ss[n + 1]
        <5>1. n + 1 # 1
          BY <3>3, <1>1
        <5> HIDE DEF k
        <5> QED BY <3>1, <5>1, <2>8
      <4>2. flat[n] \in Seq(S) /\ ToSet(flat[n]) = RowsTo(n)
        BY <3>3, <2>10
      <4>3. /\ flat[n] \o ss[n + 1] \in Seq(S)
            /\ ToSet(flat[n] \o ss[n + 1]) = ToSet(flat[n]) \cup ToSet(ss[n + 1])
        BY <4>2, <3>1, ConcatRows
      <4>4. 1 .. n + 1 = (1 .. n) \cup {n + 1}
        BY <1>1
      <4>5. RowsTo(n + 1)
            = RowsTo(n) \cup ToSet(ss[n + 1])
        BY <4>4 DEF RowsTo
      <4>6. flat[n + 1] \in Seq(S)
        BY <4>1, <4>3
      <4>7. ToSet(flat[n + 1]) = RowsTo(n + 1)
        <5>1. ToSet(flat[n + 1]) = ToSet(flat[n]) \cup ToSet(ss[n + 1])
          BY <4>1, <4>3
        <5> QED BY <5>1, <4>2, <4>5
      <4> HIDE DEF k
      <4> QED BY <3>1, <4>6, <4>7
    <3> QED BY <3>2, <3>3
  <2>11. k \in T
    <3> HIDE DEF T, k
    <3>1. 0 .. k \subseteq T
      BY <1>1, <2>9, <2>10, InductTo
    <3> QED BY <3>1, <1>1
  <2>12. RowsTo(k) = UNION {ToSet(ss[i]) : i \in DOMAIN ss}
    BY <1>1 DEF RowsTo
  <2> QED BY <2>7, <2>11, <2>12, <1>1, <1>3
<1> QED BY <1>2, <1>3

\* Among finitely many places with dates there is a first of the oldest.
Earlier(date, i, j) == date[i] < date[j] \/ (date[i] = date[j] /\ i <= j)
LEMMA OldestFirst ==
    ASSUME NEW k \in Nat, NEW date, \A i \in 1 .. k : date[i] \in Int,
           NEW places, places \subseteq 1 .. k, places # {}
    PROVE  \E i \in places : \A j \in places : Earlier(date, i, j)
<1> USE DEF Earlier
<1> DEFINE Before(i, j) == Earlier(date, i, j)
           T == {n \in 0 .. k : \A P \in SUBSET (1 .. n) :
                   P # {} => \E i \in P : \A j \in P : Before(i, j)}
<1>1. 0 \in T
  <2>1. 1 .. 0 = {} /\ 0 \in 0 .. k
    OBVIOUS
  <2>2. \A P \in SUBSET {} : P = {}
    OBVIOUS
  <2> QED BY <2>1, <2>2
<1>2. ASSUME NEW n \in 0 .. k, n < k, n \in T PROVE n + 1 \in T
  <2>1. n + 1 \in 0 .. k
    BY <1>2
  <2>2. ASSUME NEW P \in SUBSET (1 .. n + 1), P # {}
        PROVE  \E i \in P : \A j \in P : Before(i, j)
    <3> DEFINE L == P \ {n + 1}
    <3>1. L \in SUBSET (1 .. n)
      BY <2>2
    <3>2. CASE n + 1 \notin P
      <4>1. L = P
        BY <3>2
      <4> QED BY <3>1, <4>1, <1>2, <2>2
    <3>3. CASE L = {}
      <4>1. P = {n + 1}
        BY <3>3, <2>2
      <4>2. n + 1 \in 1 .. k
        BY <1>2
      <4> QED BY <4>1, <4>2
    <3>4. CASE n + 1 \in P /\ L # {}
      <4>1. PICK i \in L : \A j \in L : Before(i, j)
        BY <3>1, <3>4, <1>2
      <4>2. P = L \cup {n + 1}
        BY <3>4
      <4>3. i \in 1 .. k /\ n + 1 \in 1 .. k /\ i <= n + 1 /\ L \subseteq 1 .. k
        BY <3>1, <4>1, <1>2
      <4>4. date[i] \in Int /\ date[n + 1] \in Int /\ \A j \in L : date[j] \in Int
        BY <4>3
      <4>5. CASE date[i] <= date[n + 1]
        <5>1. Before(i, n + 1)
          BY <4>3, <4>4, <4>5
        <5> HIDE DEF Before, L
        <5> QED BY <4>1, <4>2, <5>1
      <4>6. CASE date[n + 1] < date[i]
        <5>1. ASSUME NEW j \in L PROVE Before(n + 1, j)
          <6>1. Before(i, j) /\ date[j] \in Int
            BY <4>1, <4>4
          <6> QED BY <4>4, <4>6, <6>1
        <5>2. Before(n + 1, n + 1)
          BY <4>3
        <5> HIDE DEF Before, L
        <5> QED BY <4>2, <5>1, <5>2
      <4> QED BY <4>4, <4>5, <4>6
    <3> QED BY <3>2, <3>3, <3>4
  <2> QED BY <2>1, <2>2
<1>3. k \in T
  <2> HIDE DEF T
  <2>1. 0 .. k \subseteq T
    BY <1>1, <1>2, InductTo
  <2> QED BY <2>1
<1> QED BY <1>3
==============================================================================
