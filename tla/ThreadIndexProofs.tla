------------------------- MODULE ThreadIndexProofs -------------------------
(***************************************************************************)
(* Proofs for ThreadIndex, for any messages, mailboxes, chunk size and     *)
(* limits, and any number of ingests, rebuilds, crashes and calls.         *)
(*                                                                         *)
(* First what the grouping computes: Reach is the least closed set, the    *)
(* chain of parents ends at the only ancestor without a parent in the      *)
(* corpus, and a tid is tied to the message that has it. Then the          *)
(* invariant IInv, part by part: the writers' part, which is inductive by  *)
(* itself, the grouping, and what a call may rely on while no write        *)
(* disturbs it. The theorems at the end follow from IInv.                  *)
(***************************************************************************)
EXTENDS ThreadIndex, RowsProofs

\* The parts of the state a rebuild depends on.
PlaceInv ==
    /\ rebuild.pc \in {"idle", "update", "tail"}
    /\ rebuild = [pc |-> rebuild.pc, plan |-> rebuild.plan, todo |-> rebuild.todo]
    /\ rebuild.todo \in Seq(Msgs)
    /\ parquet \in Seq(Msgs)

\* over.db has rows of the corpus only, and none where it does not exist.
OverInv ==
    /\ DOMAIN over \subseteq Corpus
    /\ ~indexed => DOMAIN over = {}

\* A rebuild groups the corpus it started from, and a row of over.db is still to
\* be written or has the tid of the plan.
PlanInv ==
    rebuild.pc # "idle" =>
        /\ ~settled
        /\ rebuild.plan = Plan(mail, parquet)
        /\ \A m \in DOMAIN over :
             m \in ToSet(rebuild.todo) \/ over[m] = rebuild.plan[m].tid

TailInv == rebuild.pc = "tail" => sidetable = rebuild.plan

RebuildInv == PlaceInv /\ OverInv /\ PlanInv /\ TailInv /\ RebuildSettles

------------------------------------------------------------------------------
\* A new row of m adds m to the rows a scan sees and drops nothing.
LEMMA FreshenedKeeps ==
    ASSUME NEW S, NEW rows \in Seq(S), NEW m \in S
    PROVE  /\ Freshened(rows, m) \in Seq(S)
           /\ ToSet(Freshened(rows, m)) = ToSet(rows) \cup {m}
<1> DEFINE new == <<m>>
<1>1. new \in Seq(S) /\ ToSet(new) = {m}
  BY DEF ToSet
<1>2. CASE m \notin ToSet(rows)
  <2>1. Freshened(rows, m) = new \o rows
    BY <1>2 DEF Freshened
  <2> HIDE DEF new
  <2>2. new \o rows \in Seq(S) /\ ToSet(new \o rows) = ToSet(new) \cup ToSet(rows)
    BY <1>1, ConcatRows
  <2> QED BY <2>1, <2>2, <1>1
<1>3. CASE m \in ToSet(rows)
  <2> DEFINE i == CHOOSE i \in DOMAIN rows : rows[i] = m
             a == SubSeq(rows, 1, i - 1)
             b == SubSeq(rows, i + 1, Len(rows))
  <2>1. Freshened(rows, m) = (new \o a) \o b
    BY <1>3 DEF Freshened
  <2>2. i \in 1 .. Len(rows) /\ rows[i] = m
    <3>1. DOMAIN rows = 1 .. Len(rows)
      OBVIOUS
    <3>2. \E j \in DOMAIN rows : rows[j] = m
      BY <1>3 DEF ToSet
    <3> QED BY <3>1, <3>2
  <2> HIDE DEF i
  <2>3. a \in Seq(S) /\ b \in Seq(S)
    BY <2>2
  <2>4. new \o b = SubSeq(rows, i, Len(rows))
    BY <2>2
  <2>5. ToSet(rows) = ToSet(a) \cup ToSet(SubSeq(rows, i, Len(rows)))
    <3> DEFINE n == i - 1
    <3>1. n \in 0 .. Len(rows) /\ n + 1 = i
      BY <2>2
    <3> HIDE DEF n
    <3>2. ToSet(rows) = ToSet(SubSeq(rows, 1, n))
                         \cup ToSet(SubSeq(rows, n + 1, Len(rows)))
      BY <3>1, SplitRows
    <3> QED BY <3>1, <3>2 DEF n
  <2> HIDE DEF new, a, b
  <2>6. ToSet(new \o b) = ToSet(new) \cup ToSet(b)
    BY <2>3, <1>1, ConcatRows
  <2>7. new \o a \in Seq(S) /\ ToSet(new \o a) = ToSet(new) \cup ToSet(a)
    BY <2>3, <1>1, ConcatRows
  <2> DEFINE front == new \o a
  <2>8. front \in Seq(S)
    BY <2>7
  <2> HIDE DEF front
  <2>9. front \o b \in Seq(S) /\ ToSet(front \o b) = ToSet(front) \cup ToSet(b)
    BY <2>3, <2>8, ConcatRows
  <2>10. ToSet(front) = ToSet(new) \cup ToSet(a)
    BY <2>7 DEF front
  <2>11. Freshened(rows, m) = front \o b
    BY <2>1 DEF front
  <2> QED BY <2>4, <2>5, <2>6, <2>9, <2>10, <2>11, <1>1
<1> QED BY <1>2, <1>3

\* It takes the place of an older row of m.
LEMMA FreshenedLength ==
    ASSUME NEW S, NEW rows \in Seq(S), NEW m \in S
    PROVE  Len(Freshened(rows, m)) =
             IF m \in ToSet(rows) THEN Len(rows) ELSE Len(rows) + 1
<1> DEFINE new == <<m>>
<1>1. new \in Seq(S) /\ Len(new) = 1 /\ Len(rows) \in Nat
  OBVIOUS
<1>2. \A s, t \in Seq(S) : s \o t \in Seq(S) /\ Len(s \o t) = Len(s) + Len(t)
  OBVIOUS
<1>3. CASE m \notin ToSet(rows)
  <2>1. Freshened(rows, m) = new \o rows
    BY <1>3 DEF Freshened
  <2> HIDE DEF new
  <2>2. Len(new \o rows) = 1 + Len(rows)
    BY <1>1, <1>2
  <2> QED BY <1>1, <1>3, <2>1, <2>2
<1>4. CASE m \in ToSet(rows)
  <2> DEFINE i == CHOOSE i \in DOMAIN rows : rows[i] = m
             a == SubSeq(rows, 1, i - 1)
             b == SubSeq(rows, i + 1, Len(rows))
  <2>1. i \in 1 .. Len(rows)
    <3>1. \E j \in DOMAIN rows : rows[j] = m
      BY <1>4 DEF ToSet
    <3>2. DOMAIN rows = 1 .. Len(rows)
      OBVIOUS
    <3> QED BY <3>1, <3>2
  <2>2. Freshened(rows, m) = (new \o a) \o b
    BY <1>4 DEF Freshened
  <2> HIDE DEF i
  <2>3. a \in Seq(S) /\ Len(a) = i - 1 /\ b \in Seq(S) /\ Len(b) = Len(rows) - i
    BY <2>1
  <2> HIDE DEF new, a, b
  <2>4. Len((new \o a) \o b) = Len(new) + Len(a) + Len(b)
    <3> DEFINE front == new \o a
    <3>1. front \in Seq(S) /\ Len(front) = Len(new) + Len(a)
      BY <1>1, <1>2, <2>3
    <3> HIDE DEF front
    <3>2. Len(front \o b) = Len(front) + Len(b)
      BY <1>2, <2>3, <3>1
    <3> QED BY <3>1, <3>2 DEF front
  <2> QED BY <1>1, <1>4, <2>1, <2>2, <2>3, <2>4
<1> QED BY <1>3, <1>4

\* A plan has an entry for every row it was made from.
LEMMA PlanDomain == \A box, rows : DOMAIN Plan(box, rows) = ToSet(rows)
  BY DEF Plan

------------------------------------------------------------------------------
(* Reach: the least set with m that no pair leaves. *)

\* m itself is reachable.
LEMMA ReachSelf == \A pairs, m : m \in Reach(pairs, m)
  BY DEF Reach

\* No pair leads out of what is reachable.
LEMMA ReachClosed == \A pairs, m : Closed(pairs, Reach(pairs, m))
<1> SUFFICES ASSUME NEW pairs, NEW m, NEW p \in pairs, p[1] \in Reach(pairs, m)
             PROVE  p[2] \in Reach(pairs, m)
  BY DEF Closed
<1> DEFINE nodes == {m} \cup {q[2] : q \in pairs}
<1>1. ASSUME NEW s \in SUBSET nodes, m \in s, Closed(pairs, s) PROVE p[2] \in s
  <2>1. p[1] \in s
    BY <1>1 DEF Reach
  <2> QED BY <2>1, <1>1 DEF Closed
<1>2. p[2] \in nodes
  OBVIOUS
<1> QED BY <1>1, <1>2 DEF Reach

\* A set with m that no pair leaves has all that is reachable.
LEMMA ReachLeast ==
    ASSUME NEW pairs, NEW m, NEW S, m \in S, Closed(pairs, S)
    PROVE  Reach(pairs, m) \subseteq S
<1> DEFINE nodes == {m} \cup {q[2] : q \in pairs}
           s == S \cap nodes
<1>1. s \in SUBSET nodes /\ m \in s
  OBVIOUS
<1>2. Closed(pairs, s)
  <2> SUFFICES ASSUME NEW p \in pairs, p[1] \in s PROVE p[2] \in s
    BY DEF Closed
  <2>1. p[2] \in S
    BY DEF Closed
  <2> QED BY <2>1
<1>3. ASSUME NEW x \in Reach(pairs, m) PROVE x \in s
  <2> HIDE DEF s
  <2> QED BY <1>1, <1>2, <1>3 DEF Reach
<1> QED BY <1>3

\* What can be reached from a reachable message is reachable.
LEMMA ReachOn ==
    ASSUME NEW pairs, NEW m, NEW x \in Reach(pairs, m)
    PROVE  Reach(pairs, x) \subseteq Reach(pairs, m)
<1> DEFINE S == Reach(pairs, m)
<1>1. x \in S /\ Closed(pairs, S)
  BY ReachClosed
<1> HIDE DEF S
<1>2. Reach(pairs, x) \subseteq S
  BY <1>1, ReachLeast
<1> QED BY <1>2 DEF S

\* More pairs reach more.
LEMMA ReachMore ==
    ASSUME NEW pairs, NEW more, pairs \subseteq more, NEW m
    PROVE  Reach(pairs, m) \subseteq Reach(more, m)
<1> DEFINE S == Reach(more, m)
<1>1. m \in S /\ Closed(more, S)
  BY ReachSelf, ReachClosed
<1> HIDE DEF S
<1>2. Closed(pairs, S)
  BY <1>1 DEF Closed
<1>3. Reach(pairs, m) \subseteq S
  BY <1>1, <1>2, ReachLeast
<1> QED BY <1>3 DEF S

\* Along pairs that go both ways, what is reachable reaches back.
BothWays(pairs) == \A p \in pairs : \E q \in pairs : q[1] = p[2] /\ q[2] = p[1]
LEMMA ReachBack ==
    ASSUME NEW pairs, BothWays(pairs), NEW m, NEW x \in Reach(pairs, m)
    PROVE  m \in Reach(pairs, x)
<1> DEFINE S == {y \in Reach(pairs, m) : m \in Reach(pairs, y)}
<1>1. m \in S
  BY ReachSelf
<1>2. Closed(pairs, S)
  <2> SUFFICES ASSUME NEW p \in pairs, p[1] \in S PROVE p[2] \in S
    BY DEF Closed
  <2>1. p[2] \in Reach(pairs, m)
    BY ReachClosed DEF Closed
  <2>2. PICK q \in pairs : q[1] = p[2] /\ q[2] = p[1]
    BY DEF BothWays
  <2>3. p[1] \in Reach(pairs, p[2])
    BY <2>2, ReachSelf, ReachClosed DEF Closed
  <2>4. Reach(pairs, p[1]) \subseteq Reach(pairs, p[2])
    BY <2>3, ReachOn
  <2> QED BY <2>1, <2>4
<1> HIDE DEF S
<1>3. Reach(pairs, m) \subseteq S
  BY <1>1, <1>2, ReachLeast
<1> QED BY <1>3 DEF S

------------------------------------------------------------------------------
(* The chain of parents. *)

\* The states of a walk along parents, and what is known of one from m.
ChainStates(rows) == [at : ToSet(rows), visited : SUBSET ToSet(rows)]
ParentPairs(box, rows) ==
    {p \in ToSet(rows) \X ToSet(rows) : p[2] = Parent(box[p[1]])}
ChainInv(box, rows, m, s) ==
    /\ m \in s.visited /\ s.at \in s.visited
    /\ s.visited \subseteq Reach(ParentPairs(box, rows), m)
    /\ \A v \in s.visited : v = s.at \/ Parent(box[v]) \in s.visited

\* c holds the states of a walk from m.
IsChain(box, rows, m, c) ==
    /\ \A n \in 0 .. Len(rows) : c[n] \in ChainStates(rows)
    /\ c[0] = [at |-> m, visited |-> {m}]
    /\ \A n \in 1 .. Len(rows) : c[n] = ChainStep(box, rows, c[n - 1])

\* Chain is what its definition says: the turns of ChainStep from m.
LEMMA ChainTurns ==
    ASSUME NEW box, NEW S, NEW rows \in Seq(S), NEW m \in ToSet(rows)
    PROVE  IsChain(box, rows, m, Chain(box, rows, m))
<1> DEFINE k == Len(rows)
           Q == ChainStates(rows)
           b == [at |-> m, visited |-> {m}]
           step == [n \in 1 .. k |-> [s \in Q |-> ChainStep(box, rows, s)]]
           Body(f) == [n \in 0 .. k |-> IF n = 0 THEN [at |-> m, visited |-> {m}]
                                        ELSE ChainStep(box, rows, f[n - 1])]
           c == CHOOSE f : f = Body(f)
<1>1. k \in Nat /\ b \in Q
  BY DEF ChainStates
<1>2. ASSUME NEW s \in Q PROVE ChainStep(box, rows, s) \in Q
  BY DEF ChainStep, ChainStates
<1>3. step \in Turns(Q, k)
  BY <1>2 DEF Turns
<1>4. PICK f \in [0 .. k -> Q] : Recurs(f, b, k, step)
  <2> HIDE DEF k, Q, b, step, c, Body
  <2> QED BY <1>1, <1>3, Recursion
<1>5. f = Body(f)
  <2>1. f[0] = b
    BY <1>4 DEF Recurs
  <2>2. ASSUME NEW n \in 0 .. k, n # 0 PROVE f[n] = ChainStep(box, rows, f[n - 1])
    <3>1. n \in 1 .. k /\ n - 1 \in 0 .. k
      BY <2>2, <1>1
    <3>2. f[n - 1] \in Q
      BY <3>1
    <3>3. f[n] = step[n][f[n - 1]]
      BY <1>4, <3>1 DEF Recurs
    <3> HIDE DEF k, Q
    <3> QED BY <3>1, <3>2, <3>3
  <2> HIDE DEF k, Q
  <2> QED BY <2>1, <2>2
<1>6. c = Body(c)
  <2> HIDE DEF Body
  <2> QED BY <1>5
<1>7. Chain(box, rows, m) = c
  BY DEF Chain
<1> HIDE DEF c
<1>8. c[0] = b /\ \A n \in 1 .. k : c[n] = ChainStep(box, rows, c[n - 1])
  <2>1. 0 \in 0 .. k /\ \A n \in 1 .. k : n \in 0 .. k /\ n # 0
    BY <1>1
  <2> HIDE DEF k
  <2> QED BY <1>6, <2>1
<1>9. ASSUME NEW n \in 0 .. k PROVE c[n] \in Q
  <2> DEFINE T == {i \in 0 .. k : c[i] \in Q}
  <2>1. 0 \in T
    BY <1>1, <1>8
  <2>2. ASSUME NEW i \in 0 .. k, i < k, i \in T PROVE i + 1 \in T
    <3>1. i + 1 \in 1 .. k /\ (i + 1) - 1 = i /\ i + 1 \in 0 .. k
      BY <2>2, <1>1
    <3>2. c[i] \in Q
      BY <2>2
    <3> HIDE DEF k, Q
    <3> QED BY <1>2, <1>8, <3>1, <3>2
  <2>3. 0 .. k \subseteq T
    <3> HIDE DEF T, k
    <3> QED BY <1>1, <2>1, <2>2, InductTo
  <2> QED BY <2>3
<1> HIDE DEF k, Q
<1> QED BY <1>7, <1>8, <1>9 DEF k, Q, b, IsChain

\* A turn keeps what is known of a walk.
LEMMA ChainStepKeeps ==
    ASSUME NEW box, NEW rows, NEW m, NEW s \in ChainStates(rows),
           ChainInv(box, rows, m, s)
    PROVE  ChainInv(box, rows, m, ChainStep(box, rows, s))
<1> DEFINE p == Parent(box[s.at])
           R == ToSet(rows)
           pairs == ParentPairs(box, rows)
<1>1. CASE p \in R \ s.visited
  <2>1. ChainStep(box, rows, s) = [at |-> p, visited |-> s.visited \cup {p}]
    BY <1>1 DEF ChainStep
  <2>2. <<s.at, p>> \in pairs /\ s.at \in Reach(pairs, m)
    BY <1>1 DEF ParentPairs, ChainStates, ChainInv
  <2> HIDE DEF pairs
  <2>3. p \in Reach(pairs, m)
    BY <2>2, ReachClosed DEF Closed
  <2> QED BY <2>1, <2>3 DEF ChainInv, pairs
<1>2. CASE p \notin R \ s.visited
  BY <1>2 DEF ChainStep
<1> QED BY <1>1, <1>2

\* The walk ends where it cannot go on: the end has no parent that is a row and
\* was not visited, and every other visited message has its parent among them.
LEMMA ChainStops ==
    ASSUME NEW box, NEW S, NEW rows \in Seq(S), NEW m \in ToSet(rows)
    PROVE  \E s \in ChainStates(rows) :
              /\ s.at = ChainEnd(box, rows, m)
              /\ ChainInv(box, rows, m, s)
              /\ Parent(box[s.at]) \notin ToSet(rows) \ s.visited
<1> DEFINE k == Len(rows)
           R == ToSet(rows)
           c == Chain(box, rows, m)
           Stuck(s) == Parent(box[s.at]) \notin R \ s.visited
           T == {n \in 0 .. k : /\ ChainInv(box, rows, m, c[n])
                                /\ \/ Cardinality(c[n].visited) >= n + 1
                                   \/ Stuck(c[n])}
<1>1. /\ \A n \in 0 .. k : c[n] \in ChainStates(rows)
      /\ c[0] = [at |-> m, visited |-> {m}]
      /\ \A n \in 1 .. k : c[n] = ChainStep(box, rows, c[n - 1])
  <2>1. IsChain(box, rows, m, c)
    BY ChainTurns
  <2> QED BY <2>1 DEF IsChain
<1>2. k \in Nat
  OBVIOUS
<1> HIDE DEF c
<1>3. ASSUME NEW n \in 0 .. k
      PROVE  /\ IsFiniteSet(c[n].visited) /\ Cardinality(c[n].visited) \in Nat
             /\ Cardinality(c[n].visited) <= k /\ c[n].visited \subseteq R
  <2>1. c[n] \in ChainStates(rows)
    BY <1>1
  <2>2. c[n].visited \in SUBSET R
    BY <2>1 DEF ChainStates
  <2>3. IsFiniteSet(R) /\ Cardinality(R) <= k /\ Cardinality(R) \in Nat
    BY RowsFinite
  <2> HIDE DEF R, k
  <2>4. IsFiniteSet(c[n].visited) /\ Cardinality(c[n].visited) <= Cardinality(R)
    BY <2>2, <2>3, FS_Subset
  <2>5. Cardinality(c[n].visited) \in Nat
    BY <2>4, FS_CardinalityType
  <2> QED BY <1>2, <2>2, <2>3, <2>4, <2>5
<1>4. 0 \in T
  <2>1. 0 \in 0 .. k
    BY <1>2
  <2>2. ChainInv(box, rows, m, c[0])
    BY <1>1, ReachSelf DEF ChainInv
  <2>3. Cardinality(c[0].visited) >= 0 + 1
    <3>1. c[0].visited = {m}
      BY <1>1
    <3>2. Cardinality({m}) = 1
      BY FS_Singleton
    <3> QED BY <3>1, <3>2
  <2> QED BY <2>1, <2>2, <2>3
<1>5. ASSUME NEW n \in 0 .. k, n < k, n \in T PROVE n + 1 \in T
  <2>1. n + 1 \in 1 .. k /\ (n + 1) - 1 = n /\ n + 1 \in 0 .. k
    BY <1>5, <1>2
  <2>2. c[n + 1] = ChainStep(box, rows, c[n]) /\ c[n] \in ChainStates(rows)
    BY <1>1, <2>1
  <2>3. ChainInv(box, rows, m, c[n + 1])
    BY <1>5, <2>2, ChainStepKeeps
  <2>4. CASE Stuck(c[n])
    <3>1. c[n + 1] = c[n]
      BY <2>2, <2>4 DEF ChainStep
    <3> QED BY <2>1, <2>3, <2>4, <3>1
  <2>5. CASE ~Stuck(c[n])
    <3> DEFINE p == Parent(box[c[n].at])
    <3>1. c[n + 1].visited = c[n].visited \cup {p} /\ p \notin c[n].visited
      BY <2>2, <2>5 DEF ChainStep
    <3>2. Cardinality(c[n].visited) >= n + 1
      BY <1>5, <2>5
    <3>3. Cardinality(c[n + 1].visited) = Cardinality(c[n].visited) + 1
      BY <1>3, <3>1, FS_AddElement
    <3>4. Cardinality(c[n + 1].visited) >= (n + 1) + 1
      BY <1>3, <3>2, <3>3
    <3> QED BY <2>1, <2>3, <3>4
  <2> QED BY <2>4, <2>5
<1>6. 0 .. k \subseteq T
  <2> HIDE DEF T, k
  <2> QED BY <1>2, <1>4, <1>5, InductTo
<1>7. k \in 0 .. k
  BY <1>2
<1>8. ChainInv(box, rows, m, c[k]) /\ (Cardinality(c[k].visited) >= k + 1 \/ Stuck(c[k]))
  BY <1>6, <1>7
<1>9. Stuck(c[k])
  BY <1>2, <1>3, <1>7, <1>8
<1>10. c[k] \in ChainStates(rows)
  BY <1>1, <1>7
<1>11. c[k].at = ChainEnd(box, rows, m)
  BY DEF ChainEnd, c
<1> QED BY <1>8, <1>9, <1>10, <1>11

\* Where the chain ends is a row, reached along the chain; if an ancestor has no
\* parent among the rows, the chain ends there, and there is no other.
LEMMA ChainEnds ==
    ASSUME NEW box, NEW S, NEW rows \in Seq(S), NEW m \in ToSet(rows)
    PROVE  /\ ChainEnd(box, rows, m) \in ToSet(rows)
           /\ ChainEnd(box, rows, m) \in Reach(ParentPairs(box, rows), m)
           /\ \A a \in Reach(ParentPairs(box, rows), m) :
                Parent(box[a]) \notin ToSet(rows) => a = ChainEnd(box, rows, m)
<1> DEFINE R == ToSet(rows)
           pairs == ParentPairs(box, rows)
           end == ChainEnd(box, rows, m)
<1>1. PICK s \in ChainStates(rows) :
           /\ s.at = end
           /\ ChainInv(box, rows, m, s)
           /\ Parent(box[s.at]) \notin R \ s.visited
  BY ChainStops
<1>2. s.at \in R /\ s.visited \subseteq R /\ s.at \in Reach(pairs, m) /\ m \in s.visited
  BY <1>1 DEF ChainStates, ChainInv
<1>3. Closed(pairs, s.visited)
  <2> SUFFICES ASSUME NEW p \in pairs, p[1] \in s.visited PROVE p[2] \in s.visited
    BY DEF Closed
  <2>1. p[2] = Parent(box[p[1]]) /\ p[2] \in R
    BY DEF ParentPairs
  <2> QED BY <2>1, <1>1 DEF ChainInv
<1>4. Reach(pairs, m) \subseteq s.visited
  BY <1>2, <1>3, ReachLeast
<1>5. ASSUME NEW a \in Reach(pairs, m), Parent(box[a]) \notin R PROVE a = end
  <2>1. a \in s.visited
    BY <1>4
  <2> QED BY <2>1, <1>1, <1>2, <1>5 DEF ChainInv
<1> QED BY <1>1, <1>2, <1>5

------------------------------------------------------------------------------
(* The tid of a message and the plan of a rebuild. *)

\* Dates are integers where there are any.
Dated(box, ms) == \A m \in ms : box[m].date = Undated \/ box[m].date \in Int

\* A message of an older patch series with m's subject, or m.
LEMMA SeriesStarts ==
    ASSUME NEW box, NEW S, NEW rows \in Seq(S), Dated(box, ToSet(rows)), NEW m,
           SeriesStart(box, rows, m) # m
    PROVE  /\ SeriesStart(box, rows, m) \in ToSet(rows)
           /\ box[SeriesStart(box, rows, m)].topic = box[m].topic
           /\ box[m].topic # Untitled
<1> DEFINE places == SeriesPlaces(box, rows, m)
           date == [i \in 1 .. Len(rows) |-> BucketDate(box[rows[i]])]
           Date(i) == BucketDate(box[rows[i]])
           Before(i, j) == Date(i) < Date(j) \/ (Date(i) = Date(j) /\ i <= j)
           i == CHOOSE i \in places : \A j \in places : Before(i, j)
<1>1. DOMAIN rows = 1 .. Len(rows) /\ Len(rows) \in Nat
  OBVIOUS
<1>2. places # {} /\ box[m].topic # Untitled /\ SeriesStart(box, rows, m) = rows[i]
  BY DEF SeriesStart
<1>3. places \in SUBSET (1 .. Len(rows))
  BY <1>1 DEF SeriesPlaces
<1>4. \A j \in 1 .. Len(rows) : date[j] \in Int
  <2>1. ASSUME NEW j \in 1 .. Len(rows) PROVE BucketDate(box[rows[j]]) \in Int
    BY <1>1 DEF BucketDate, Dated, ToSet
  <2> QED BY <2>1
<1>5. \E a \in places : \A b \in places : Before(a, b)
  <2> HIDE DEF places, date
  <2>1. \E a \in places : \A b \in places : Earlier(date, a, b)
    BY <1>1, <1>2, <1>3, <1>4, OldestFirst
  <2>2. \A a \in places : date[a] = Date(a)
    BY <1>3 DEF date
  <2> QED BY <2>1, <2>2 DEF Earlier
<1>6. i \in places
  <2> HIDE DEF places, Before
  <2> QED BY <1>5
<1>7. i \in DOMAIN rows /\ box[rows[i]].topic = box[m].topic
  <2> HIDE DEF i
  <2> QED BY <1>6 DEF SeriesPlaces
<1> QED BY <1>2, <1>7 DEF ToSet

Ties == Links \cup SameSeries

\* Ties go both ways; a parent that was ingested is a tie.
LEMMA TiesBothWays == BothWays(Links) /\ BothWays(Ties)
<1> DEFINE up == UNION {{m} \X Relations(mail[m]) : m \in Corpus}
<1>1. BothWays(Links)
  <2>1. \A p \in up : p = <<p[1], p[2]>>
    OBVIOUS
  <2>2. Links = up \cup {<<p[2], p[1]>> : p \in up}
    BY DEF Links
  <2> HIDE DEF up
  <2> SUFFICES ASSUME NEW p \in Links
               PROVE  \E q \in Links : q[1] = p[2] /\ q[2] = p[1]
    BY DEF BothWays
  <2>3. CASE p \in up
    <3>1. <<p[2], p[1]>> \in Links
      BY <2>2, <2>3
    <3> QED BY <3>1
  <2>4. CASE p \in {<<q[2], q[1]>> : q \in up}
    <3>1. PICK q \in up : p = <<q[2], q[1]>>
      BY <2>4
    <3>2. q \in Links /\ q[1] = p[2] /\ q[2] = p[1]
      BY <2>2, <3>1
    <3> QED BY <3>2
  <2> QED BY <2>2, <2>3, <2>4
<1>2. BothWays(SameSeries)
  <2> SUFFICES ASSUME NEW p \in SameSeries
               PROVE  \E q \in SameSeries : q[1] = p[2] /\ q[2] = p[1]
    BY DEF BothWays
  <2>1. <<p[2], p[1]>> \in SameSeries
    BY DEF SameSeries
  <2> QED BY <2>1
<1> QED BY <1>1, <1>2 DEF BothWays, Ties

\* A parent among the rows is linked.
LEMMA ParentsAreLinks ==
    ASSUME parquet \in Seq(Msgs)
    PROVE  ParentPairs(mail, parquet) \subseteq Links
<1> SUFFICES ASSUME NEW p \in ParentPairs(mail, parquet) PROVE p \in Links
  OBVIOUS
<1>1. p \in Corpus \X Corpus /\ p[2] = Parent(mail[p[1]])
  BY DEF ParentPairs, Corpus
<1>2. Corpus \subseteq Msgs
  BY RowAt DEF Corpus
<1>3. p[2] \in Relations(mail[p[1]])
  BY <1>1, <1>2, ThreadAssumption DEF Parent, Relations
<1>4. p \in {p[1]} \X Relations(mail[p[1]]) /\ p[1] \in Corpus
  BY <1>1, <1>3
<1> QED BY <1>4 DEF Links

\* The tid of a message is a message that is tied to it.
LEMMA TidIsTied ==
    ASSUME parquet \in Seq(Msgs), Dated(mail, Corpus), NEW m \in Corpus
    PROVE  ResolveTid(mail, parquet, m) \in Corpus \cap Reach(Ties, m)
<1> DEFINE end == ChainEnd(mail, parquet, m)
           start == SeriesStart(mail, parquet, m)
<1>1. end \in Corpus /\ end \in Reach(Ties, m)
  <2>1. end \in ToSet(parquet) /\ end \in Reach(ParentPairs(mail, parquet), m)
    BY ChainEnds DEF Corpus
  <2>2. ParentPairs(mail, parquet) \subseteq Ties
    BY ParentsAreLinks DEF Ties
  <2> QED BY <2>1, <2>2, ReachMore DEF Corpus
<1>2. CASE end # m
  BY <1>1, <1>2 DEF ResolveTid
<1>3. CASE end = m /\ start = m
  BY <1>3, ReachSelf DEF ResolveTid
<1>4. CASE end = m /\ start # m
  <2>1. /\ start \in Corpus /\ mail[start].topic = mail[m].topic
        /\ mail[m].topic # Untitled
    BY <1>4, SeriesStarts DEF Corpus
  <2>2. <<m, start>> \in Ties
    BY <2>1 DEF SameSeries, Ties
  <2>3. start \in Reach(Ties, m)
    BY <2>2, ReachSelf, ReachClosed DEF Closed
  <2> QED BY <1>4, <2>1, <2>3 DEF ResolveTid
<1> QED BY <1>2, <1>3, <1>4

\* An entry of a plan names messages that are tied to its own.
EntryTied(entry, m) ==
    /\ entry.tid \in Corpus \cap Reach(Ties, m)
    /\ entry.files \subseteq Corpus \cap Reach(Ties, m)
LEMMA PlanIsTied ==
    ASSUME parquet \in Seq(Msgs), Dated(mail, Corpus), NEW m \in Corpus
    PROVE  EntryTied(Plan(mail, parquet)[m], m)
<1> DEFINE Tid(x) == ResolveTid(mail, parquet, x)
           entry == Plan(mail, parquet)[m]
<1>1. /\ entry.tid = Tid(m)
      /\ \A p \in entry.files : p \in Corpus /\ Tid(p) = Tid(m)
  BY DEF Plan, Corpus
<1>2. ASSUME NEW p \in entry.files PROVE p \in Reach(Ties, m)
  <2>1. p \in Corpus /\ Tid(p) = Tid(m)
    BY <1>1
  <2>2. Tid(m) \in Reach(Ties, m) /\ Tid(p) \in Reach(Ties, p)
    BY <2>1, TidIsTied
  <2>3. p \in Reach(Ties, Tid(p))
    BY <2>2, TiesBothWays, ReachBack
  <2>4. Reach(Ties, Tid(m)) \subseteq Reach(Ties, m)
    BY <2>2, ReachOn
  <2> QED BY <2>1, <2>3, <2>4
<1>3. Tid(m) \in Corpus \cap Reach(Ties, m)
  BY TidIsTied
<1> QED BY <1>1, <1>2, <1>3 DEF EntryTied

------------------------------------------------------------------------------
(* Rebuilds. *)

\* The steps of a call leave everything a rebuild depends on alone.
LEMMA CallKeeps ==
    ASSUME RebuildInv, UNCHANGED <<mail, indexed, writerVars>>
    PROVE  RebuildInv'
  BY DEF RebuildInv, writerVars, PlaceInv, OverInv, PlanInv, TailInv, RebuildSettles,
         Corpus

\* Writing planned tids to rows of over.db.
LEMMA UpdateKeeps ==
    ASSUME NEW ms, UpdateTids(ms)
    PROVE  /\ DOMAIN over' = DOMAIN over
           /\ \A m \in DOMAIN over :
                over'[m] = IF m \in ms THEN rebuild.plan[m].tid ELSE over[m]
  BY DEF UpdateTids

\* The writers' part is inductive by itself: one step per writer action.
LEMMA RebuildKeeps ==
    ASSUME RebuildInv, [Next]_vars
    PROVE  RebuildInv'
<1> USE DEF RebuildInv
<1>1. ASSUME NEW m \in Msgs, NEW inserted \in BOOLEAN, Ingest(m, inserted)
      PROVE  RebuildInv'
  <2>1. /\ parquet' \in Seq(Msgs)
        /\ Corpus' = Corpus \cup {m}
    BY <1>1, FreshenedKeeps DEF Ingest, PlaceInv, Corpus
  <2>2. PlaceInv'
    BY <1>1, <2>1 DEF Ingest, PlaceInv
  <2>3. OverInv'
    BY <1>1, <2>1 DEF Ingest, OverInv
  <2>4. PlanInv' /\ TailInv' /\ RebuildSettles'
    BY <1>1 DEF Ingest, PlanInv, TailInv, RebuildSettles
  <2> QED BY <2>2, <2>3, <2>4
<1>2. ASSUME StartRebuild PROVE RebuildInv'
  <2>1. /\ rebuild'.pc = "update" /\ rebuild'.plan = Plan(mail, parquet)
        /\ rebuild'.todo = IF indexed THEN parquet ELSE <<>>
        /\ rebuild' = [pc |-> rebuild'.pc, plan |-> rebuild'.plan,
                       todo |-> rebuild'.todo]
        /\ UNCHANGED <<mail, indexed, parquet, over, sidetable>>
        /\ settled' = FALSE
    BY <1>2 DEF StartRebuild
  <2>2. PlaceInv' /\ OverInv' /\ TailInv' /\ RebuildSettles'
    BY <2>1 DEF PlaceInv, OverInv, TailInv, RebuildSettles, Corpus
  <2>3. PlanInv'
    BY <2>1 DEF PlanInv, OverInv, Corpus
  <2> QED BY <2>2, <2>3
<1>3. ASSUME UpdateChunk PROVE RebuildInv'
  <2> DEFINE n == OverChunk
             chunk == SubSeq(rebuild.todo, 1, n)
             rest == SubSeq(rebuild.todo, n + 1, Len(rebuild.todo))
  <2>1. /\ rebuild.pc = "update"
        /\ UpdateTids(ToSet(chunk))
        /\ rebuild'.pc = "update" /\ rebuild'.plan = rebuild.plan
        /\ rebuild'.todo = rest
        /\ rebuild' = [pc |-> rebuild'.pc, plan |-> rebuild'.plan,
                       todo |-> rebuild'.todo]
        /\ UNCHANGED <<mail, indexed, parquet, sidetable, settled>>
    BY <1>3 DEF UpdateChunk, PlaceInv
  <2>2. rest \in Seq(Msgs) /\ ToSet(rebuild.todo) = ToSet(chunk) \cup ToSet(rest)
    <3>1. n \in 0 .. Len(rebuild.todo)
      BY <1>3, ThreadAssumption DEF UpdateChunk, PlaceInv
    <3> HIDE DEF n
    <3> QED BY <3>1, SplitRows DEF PlaceInv
  <2> HIDE DEF chunk, rest
  <2>3. /\ DOMAIN over' = DOMAIN over
        /\ \A m \in DOMAIN over :
             over'[m] = IF m \in ToSet(chunk) THEN rebuild.plan[m].tid ELSE over[m]
    BY <2>1, UpdateKeeps
  <2>4. PlaceInv' /\ OverInv' /\ TailInv' /\ RebuildSettles'
    BY <2>1, <2>2, <2>3 DEF PlaceInv, OverInv, TailInv, RebuildSettles, PlanInv,
                            Corpus
  <2>5. PlanInv'
    BY <2>1, <2>2, <2>3 DEF PlanInv
  <2> QED BY <2>4, <2>5
<1>4. ASSUME Publish PROVE RebuildInv'
  <2>1. /\ rebuild.pc = "update" /\ rebuild'.pc = "tail"
        /\ rebuild'.plan = rebuild.plan /\ rebuild'.todo = rebuild.todo
        /\ rebuild' = [pc |-> rebuild'.pc, plan |-> rebuild'.plan,
                       todo |-> rebuild'.todo]
        /\ sidetable' = rebuild.plan
        /\ UNCHANGED <<mail, indexed, parquet, over, settled>>
    BY <1>4 DEF Publish, PlaceInv
  <2> QED BY <2>1 DEF PlaceInv, OverInv, PlanInv, TailInv, RebuildSettles, Corpus
<1>5. ASSUME TailChunk PROVE RebuildInv'
  <2>1. /\ rebuild.pc = "tail"
        /\ UpdateTids(ToSet(rebuild.todo))
        /\ rebuild' = Idle /\ settled' = TRUE
        /\ UNCHANGED <<mail, indexed, parquet, sidetable>>
    BY <1>5 DEF TailChunk
  <2>2. /\ DOMAIN over' = DOMAIN over
        /\ \A m \in DOMAIN over : over'[m] = rebuild.plan[m].tid
    BY <2>1, UpdateKeeps DEF PlanInv
  <2>3. RebuildSettles'
    BY <2>1, <2>2 DEF RebuildSettles, PlanInv, TailInv
  <2>4. PlaceInv' /\ OverInv' /\ PlanInv' /\ TailInv'
    BY <2>1, <2>2 DEF PlaceInv, OverInv, PlanInv, TailInv, Idle, Corpus
  <2> QED BY <2>3, <2>4
<1>6. ASSUME CrashRebuild PROVE RebuildInv'
  <2>1. /\ rebuild' = Idle
        /\ UNCHANGED <<mail, indexed, parquet, over, sidetable, settled>>
    BY <1>6 DEF CrashRebuild
  <2> QED BY <2>1 DEF PlaceInv, OverInv, PlanInv, TailInv, RebuildSettles, Idle,
                      Corpus
<1>7. ASSUME \/ \E m \in Msgs, online \in BOOLEAN : FetchSeed(m, online)
             \/ SelectThread \/ WalkStep \/ WalkDone \/ EndCall
      PROVE  RebuildInv'
  <2>1. UNCHANGED <<mail, indexed, writerVars>>
    BY <1>7 DEF FetchSeed, SelectThread, WalkStep, WalkDone, EndCall
  <2> QED BY <2>1, CallKeeps
<1>8. CASE UNCHANGED vars
  <2>1. UNCHANGED <<mail, indexed, writerVars>>
    BY <1>8 DEF vars
  <2> QED BY <2>1, CallKeeps
<1> QED BY <1>1, <1>2, <1>3, <1>4, <1>5, <1>6, <1>7, <1>8 DEF Next

------------------------------------------------------------------------------
(* The whole invariant. *)

\* A rebuild groups tied messages, and only tied messages share a tid.
GroupInv ==
    /\ \A m \in DOMAIN over :
         over[m] # Nobody => over[m] \in Corpus \cap Reach(Ties, m)
    /\ \A m \in DOMAIN sidetable : EntryTied(sidetable[m], m)
    /\ rebuild.todo \in Seq(Corpus)

\* Scans visit each message once, and mail and counters are what they are.
MailInv ==
    /\ mail \in Mailboxes /\ indexed \in BOOLEAN /\ settled \in BOOLEAN
    /\ Len(parquet) = Cardinality(Corpus)
    /\ faults \in 0 .. MaxFaults /\ ingests \in 0 .. MaxIngests

\* A call has only what is linked, or tied, to its seed.
CallShape ==
    call = [pc |-> call.pc, seed |-> call.seed, tid |-> call.tid,
            queue |-> call.queue, visited |-> call.visited,
            rows |-> call.rows, answer |-> call.answer, calm |-> call.calm]
CallInv ==
    /\ CallShape
    /\ call.pc \in {"idle", "select", "walk", "answered"}
    /\ call.queue \in Seq(Reach(Links, call.seed))
    /\ call.visited \subseteq Reach(Links, call.seed)
    /\ call.rows \in Seq(Corpus \cap Reach(Links, call.seed))
    /\ Len(call.rows) <= MaxMessages
    /\ call.answer \subseteq Corpus \cap Reach(Ties, call.seed)
    /\ call.pc = "select" => call.tid # Nobody /\ call.tid \in Reach(Ties, call.seed)
    /\ call.pc = "walk" => call.tid = Nobody

\* While no write disturbs it, a call by tid has its seed's, and its answer is cut
\* from the rows that have it.
SelectInv ==
    (call.calm /\ call.tid # Nobody) =>
        /\ call.seed \in DOMAIN over /\ over[call.seed] = call.tid
        /\ call.pc = "answered" =>
             call.answer \in Newest({m \in DOMAIN over : over[m] = call.tid},
                                    MaxMessages)

\* While no write disturbs it and its budget lasts, a walk has taken or queued
\* everything linked to what it visited, and taken the rows of that.
Explored(v) ==
    /\ \A p \in Links : p[1] = v => p[2] \in call.visited \cup ToSet(call.queue)
    /\ ToSet(Hits(v)) \subseteq ToSet(call.rows)
WalkInv ==
    (/\ call.calm /\ call.tid = Nobody /\ call.pc \in {"walk", "answered"}
     /\ Len(call.rows) < MaxMessages) =>
        /\ call.seed \in call.visited \cup ToSet(call.queue)
        /\ \A v \in call.visited : Explored(v)
        /\ call.pc = "answered" =>
             call.queue = <<>> /\ call.answer = ToSet(call.rows)

IInv == RebuildInv /\ MailInv /\ GroupInv /\ CallInv /\ SelectInv /\ WalkInv

------------------------------------------------------------------------------
(* Ties only grow. *)

\* No step changes mail or takes a message out of the corpus.
LEMMA CorpusGrows ==
    ASSUME IInv, [Next]_vars
    PROVE  mail' = mail /\ Corpus \subseteq Corpus'
<1>1. ASSUME NEW m \in Msgs, NEW inserted \in BOOLEAN, Ingest(m, inserted)
      PROVE  mail' = mail /\ Corpus' = Corpus \cup {m}
  BY <1>1, FreshenedKeeps DEF Ingest, IInv, RebuildInv, PlaceInv, Corpus
<1>2. ASSUME \/ StartRebuild \/ UpdateChunk \/ Publish \/ TailChunk \/ CrashRebuild
             \/ \E m \in Msgs, online \in BOOLEAN : FetchSeed(m, online)
             \/ SelectThread \/ WalkStep \/ WalkDone \/ EndCall \/ UNCHANGED vars
      PROVE  mail' = mail /\ Corpus' = Corpus
  <2>1. mail' = mail /\ parquet' = parquet
    BY <1>2 DEF StartRebuild, UpdateChunk, Publish, TailChunk, CrashRebuild,
                FetchSeed, SelectThread, WalkStep, WalkDone, EndCall, vars, writerVars
  <2> QED BY <2>1 DEF Corpus
<1> QED BY <1>1, <1>2 DEF Next

\* In a corpus that grew, what was tied is tied and what was linked is linked.
LEMMA TiesGrow ==
    ASSUME mail' = mail, Corpus \subseteq Corpus'
    PROVE  /\ Links \subseteq Links' /\ Ties \subseteq Ties'
           /\ \A m : /\ Reach(Links, m) \subseteq Reach(Links', m)
                     /\ Reach(Ties, m) \subseteq Reach(Ties', m)
<1>1. Links \subseteq Links'
  <2> DEFINE up == UNION {{m} \X Relations(mail[m]) : m \in Corpus}
  <2>1. up \subseteq up'
    <3>1. \A m : Relations(mail[m])' = Relations(mail[m])
      OBVIOUS
    <3> QED BY <3>1
  <2>2. Links = up \cup {<<p[2], p[1]>> : p \in up}
    BY DEF Links
  <2>3. Links' = up' \cup {<<p[2], p[1]>> : p \in up'}
    BY DEF Links
  <2> HIDE DEF up
  <2> QED BY <2>1, <2>2, <2>3
<1>2. SameSeries \subseteq SameSeries'
  BY DEF SameSeries
<1>3. Ties \subseteq Ties'
  BY <1>1, <1>2 DEF Ties
<1> QED BY <1>1, <1>3, ReachMore

\* The corpus has as many rows as messages, and counters keep their bounds.
LEMMA MailKeeps ==
    ASSUME IInv, [Next]_vars
    PROVE  MailInv'
<1> USE DEF IInv, MailInv
<1>1. ASSUME NEW m \in Msgs, NEW inserted \in BOOLEAN, Ingest(m, inserted)
      PROVE  MailInv'
  <2>1. parquet \in Seq(Msgs) /\ parquet' = Freshened(parquet, m)
        /\ Corpus' = Corpus \cup {m}
    BY <1>1, FreshenedKeeps DEF Ingest, RebuildInv, PlaceInv, Corpus
  <2>2. IsFiniteSet(Corpus)
    BY <2>1, RowsFinite DEF Corpus
  <2>3. Cardinality(Corpus') = IF m \in Corpus THEN Cardinality(Corpus)
                               ELSE Cardinality(Corpus) + 1
    BY <2>1, <2>2, FS_AddElement
  <2>4. Len(parquet') = IF m \in Corpus THEN Len(parquet) ELSE Len(parquet) + 1
    BY <2>1, FreshenedLength DEF Corpus
  <2>5. faults' \in 0 .. MaxFaults /\ ingests' \in 0 .. MaxIngests
    BY <1>1, ThreadAssumption DEF Ingest
  <2>6. UNCHANGED <<mail, indexed>> /\ settled' = FALSE
    BY <1>1 DEF Ingest
  <2> QED BY <2>3, <2>4, <2>5, <2>6
<1>2. CASE StartRebuild
  BY <1>2 DEF StartRebuild, Corpus
<1>3. CASE UpdateChunk
  BY <1>3 DEF UpdateChunk, Corpus
<1>4. CASE Publish
  BY <1>4 DEF Publish, Corpus
<1>5. CASE TailChunk
  BY <1>5 DEF TailChunk, Corpus
<1>6. CASE CrashRebuild
  <2>1. UNCHANGED <<mail, indexed, parquet, settled, ingests>> /\ faults' \in 0 .. MaxFaults
    BY <1>6, ThreadAssumption DEF CrashRebuild
  <2> QED BY <2>1 DEF Corpus
<1>7. ASSUME \/ \E m \in Msgs, online \in BOOLEAN : FetchSeed(m, online)
             \/ SelectThread \/ WalkStep \/ WalkDone \/ EndCall \/ UNCHANGED vars
      PROVE  MailInv'
  <2>1. UNCHANGED <<mail, indexed, parquet, settled, faults, ingests>>
    BY <1>7 DEF FetchSeed, SelectThread, WalkStep, WalkDone, EndCall, vars, writerVars
  <2> QED BY <2>1 DEF Corpus
<1> QED BY <1>1, <1>2, <1>3, <1>4, <1>5, <1>6, <1>7 DEF Next

------------------------------------------------------------------------------
(* What is grouped is tied. *)

\* The plan a rebuild works from is of the corpus as it is.
LEMMA PlanEntries ==
    ASSUME IInv
    PROVE  \A m \in Corpus : EntryTied(Plan(mail, parquet)[m], m)
<1>1. parquet \in Seq(Msgs) /\ Corpus \subseteq Msgs
  BY RowAt DEF IInv, RebuildInv, PlaceInv, Corpus
<1>2. Dated(mail, Corpus)
  BY <1>1, ThreadAssumption DEF IInv, MailInv, Dated
<1> QED BY <1>1, <1>2, PlanIsTied

\* What was tied before a step is tied after it.
LEMMA TiedStays ==
    ASSUME mail' = mail, Corpus \subseteq Corpus'
    PROVE  /\ \A m : Corpus \cap Reach(Ties, m) \subseteq Corpus' \cap Reach(Ties', m)
           /\ \A entry, m : EntryTied(entry, m) => EntryTied(entry, m)'
<1>1. \A m : Corpus \cap Reach(Ties, m) \subseteq Corpus' \cap Reach(Ties', m)
  BY TiesGrow
<1>2. ASSUME NEW entry, NEW m, EntryTied(entry, m)
      PROVE  /\ entry.tid \in Corpus' \cap Reach(Ties', m)
             /\ entry.files \subseteq Corpus' \cap Reach(Ties', m)
  BY <1>1, <1>2 DEF EntryTied
<1> QED BY <1>1, <1>2 DEF EntryTied

\* Writing planned tids keeps the rows of over.db tied.
LEMMA TidsStayTied ==
    ASSUME IInv, rebuild.pc # "idle", NEW ms, UpdateTids(ms),
           UNCHANGED <<mail, parquet>>
    PROVE  \A m \in DOMAIN over' :
              over'[m] # Nobody => over'[m] \in Corpus' \cap Reach(Ties', m)
<1>1. ASSUME NEW m \in DOMAIN over', over'[m] # Nobody
      PROVE  over'[m] \in Corpus \cap Reach(Ties, m)
  <2>1. m \in DOMAIN over /\ m \in Corpus
    BY <1>1, UpdateKeeps DEF IInv, RebuildInv, OverInv
  <2>2. over'[m] = over[m] \/ over'[m] = Plan(mail, parquet)[m].tid
    BY <2>1, UpdateKeeps DEF IInv, RebuildInv, PlanInv
  <2>3. Plan(mail, parquet)[m].tid \in Corpus \cap Reach(Ties, m)
    BY <2>1, PlanEntries DEF EntryTied
  <2>4. CASE over'[m] = over[m]
    BY <1>1, <2>1, <2>4 DEF IInv, GroupInv
  <2>5. CASE over'[m] = Plan(mail, parquet)[m].tid
    BY <2>3, <2>5
  <2> QED BY <2>2, <2>4, <2>5
<1>2. Corpus' = Corpus
  BY DEF Corpus
<1> QED BY <1>1, <1>2, TiedStays

\* Every writer groups tied messages only.
LEMMA GroupKeeps ==
    ASSUME IInv, [Next]_vars
    PROVE  GroupInv'
<1>0. /\ mail' = mail /\ Corpus \subseteq Corpus'
      /\ \A m : Corpus \cap Reach(Ties, m) \subseteq Corpus' \cap Reach(Ties', m)
      /\ \A entry, m : EntryTied(entry, m) => EntryTied(entry, m)'
  BY CorpusGrows, TiedStays
<1> DEFINE OverTied == \A m \in DOMAIN over :
                         over[m] # Nobody => over[m] \in Corpus \cap Reach(Ties, m)
           SideTied == \A m \in DOMAIN sidetable : EntryTied(sidetable[m], m)
<1>1. ASSUME over' = over PROVE OverTied'
  BY <1>0, <1>1 DEF IInv, GroupInv
<1>2. ASSUME sidetable' = sidetable PROVE SideTied'
  BY <1>0, <1>2 DEF IInv, GroupInv
<1>3. rebuild.todo \in Seq(Corpus) /\ rebuild.todo \in Seq(Corpus')
  BY <1>0 DEF IInv, GroupInv
<1>4. GroupInv' <=> OverTied' /\ SideTied' /\ rebuild'.todo \in Seq(Corpus')
  BY DEF GroupInv
<1> HIDE DEF OverTied, SideTied
<1>5. ASSUME NEW m \in Msgs, NEW inserted \in BOOLEAN, Ingest(m, inserted)
      PROVE  GroupInv'
  <2>1. sidetable' = sidetable /\ rebuild' = rebuild
    BY <1>5 DEF Ingest
  <2>2. OverTied'
    <3>1. ASSUME NEW x \in DOMAIN over', over'[x] # Nobody
          PROVE  x \in DOMAIN over /\ over'[x] = over[x]
      BY <1>5, <3>1 DEF Ingest
    <3> QED BY <1>0, <3>1 DEF IInv, GroupInv, OverTied
  <2> QED BY <1>2, <1>3, <1>4, <2>1, <2>2
<1>6. CASE StartRebuild
  <2>1. /\ over' = over /\ sidetable' = sidetable
        /\ rebuild'.todo = IF indexed THEN parquet ELSE <<>>
    BY <1>6 DEF StartRebuild
  <2>2. parquet \in Seq(Corpus')
    <3>1. parquet \in Seq(Msgs) /\ \A i \in 1 .. Len(parquet) : parquet[i] \in Corpus
      BY DEF IInv, RebuildInv, PlaceInv, Corpus, ToSet
    <3>2. parquet \in Seq(Corpus)
      BY <3>1
    <3> QED BY <1>0, <3>2
  <2> QED BY <1>1, <1>2, <1>4, <2>1, <2>2
<1>7. CASE UpdateChunk
  <2> DEFINE n == OverChunk
             todo == rebuild.todo
  <2>1. /\ sidetable' = sidetable /\ UNCHANGED <<mail, parquet>>
        /\ rebuild.pc # "idle" /\ UpdateTids(ToSet(SubSeq(todo, 1, n)))
        /\ rebuild'.todo = SubSeq(todo, n + 1, Len(todo))
        /\ Len(todo) >= n
    BY <1>7 DEF UpdateChunk, IInv, RebuildInv, PlaceInv
  <2>2. OverTied'
    BY <2>1, TidsStayTied DEF OverTied
  <2>3. n \in 0 .. Len(todo)
    BY <2>1, <1>3, ThreadAssumption
  <2> HIDE DEF n, todo
  <2>4. SubSeq(todo, n + 1, Len(todo)) \in Seq(Corpus')
    BY <1>3, <2>3, SplitRows DEF todo
  <2> QED BY <1>2, <1>4, <2>1, <2>2, <2>4
<1>8. CASE Publish
  <2>1. /\ rebuild.pc # "idle" /\ over' = over /\ sidetable' = rebuild.plan
        /\ rebuild'.todo = rebuild.todo
    BY <1>8 DEF Publish, IInv, RebuildInv, PlaceInv
  <2>2. sidetable' = Plan(mail, parquet) /\ DOMAIN sidetable' = Corpus
    BY <2>1, PlanDomain DEF IInv, RebuildInv, PlanInv, Corpus
  <2>3. \A m \in DOMAIN sidetable' : EntryTied(sidetable'[m], m)
    BY <2>2, PlanEntries
  <2>4. SideTied'
    BY <1>0, <2>3 DEF SideTied, EntryTied
  <2> QED BY <1>1, <1>3, <1>4, <2>1, <2>4
<1>9. CASE TailChunk
  <2>1. /\ sidetable' = sidetable /\ UNCHANGED <<mail, parquet>>
        /\ rebuild.pc # "idle" /\ UpdateTids(ToSet(rebuild.todo))
        /\ rebuild'.todo = <<>>
    BY <1>9 DEF TailChunk, Idle
  <2>2. OverTied'
    BY <2>1, TidsStayTied DEF OverTied
  <2> QED BY <1>2, <1>4, <2>1, <2>2
<1>10. CASE CrashRebuild
  <2>1. over' = over /\ sidetable' = sidetable /\ rebuild'.todo = <<>>
    BY <1>10 DEF CrashRebuild, Idle
  <2> QED BY <1>1, <1>2, <1>4, <2>1
<1>11. ASSUME \/ \E m \in Msgs, online \in BOOLEAN : FetchSeed(m, online)
              \/ SelectThread \/ WalkStep \/ WalkDone \/ EndCall \/ UNCHANGED vars
       PROVE  GroupInv'
  <2>1. UNCHANGED <<over, sidetable, rebuild>>
    BY <1>11 DEF FetchSeed, SelectThread, WalkStep, WalkDone, EndCall, vars, writerVars
  <2> QED BY <1>1, <1>2, <1>3, <1>4, <2>1
<1> QED BY <1>5, <1>6, <1>7, <1>8, <1>9, <1>10, <1>11 DEF Next

------------------------------------------------------------------------------
(* Calls. *)

\* A call that is only disturbed keeps what is linked to its seed.
LEMMA CallStays ==
    ASSUME IInv, mail' = mail, Corpus \subseteq Corpus', call' = call \/ Disturb
    PROVE  CallInv'
<1>1. /\ call'.pc = call.pc /\ call'.seed = call.seed /\ call'.tid = call.tid
      /\ call'.queue = call.queue /\ call'.visited = call.visited
      /\ call'.rows = call.rows /\ call'.answer = call.answer
      /\ CallShape'
  BY DEF Disturb, IInv, CallInv, CallShape
<1>2. /\ Reach(Links, call.seed) \subseteq Reach(Links', call.seed)
      /\ Reach(Ties, call.seed) \subseteq Reach(Ties', call.seed)
  BY TiesGrow
<1>3. /\ call.queue \in Seq(Reach(Links', call.seed))
      /\ call.visited \subseteq Reach(Links', call.seed)
      /\ call.answer \subseteq Corpus' \cap Reach(Ties', call.seed)
      /\ call.pc = "select" => call.tid # Nobody /\ call.tid \in Reach(Ties', call.seed)
  BY <1>2 DEF IInv, CallInv
<1>4. call.rows \in Seq(Corpus' \cap Reach(Links', call.seed))
  <2> DEFINE A == Corpus \cap Reach(Links, call.seed)
             B == Corpus' \cap Reach(Links', call.seed)
  <2>1. A \subseteq B /\ call.rows \in Seq(A)
    BY <1>2 DEF IInv, CallInv
  <2> HIDE DEF A, B
  <2>2. call.rows \in Seq(B)
    BY <2>1
  <2> QED BY <2>2 DEF B
<1> QED BY <1>1, <1>3, <1>4 DEF IInv, CallInv

\* A call that a write does not touch keeps all that is known of it.
LEMMA CallRests ==
    ASSUME IInv, UNCHANGED <<mail, parquet, over, call>>
    PROVE  CallInv' /\ SelectInv' /\ WalkInv'
<1>1. Corpus' = Corpus
  BY DEF Corpus
<1>2. CallInv'
  BY <1>1, CallStays
<1>3. SelectInv'
  BY DEF IInv, SelectInv, Newest
<1>4. Links' = Links /\ \A v : Hits(v)' = Hits(v)
  BY <1>1 DEF Links, Hits
<1>5. WalkInv'
  BY <1>4 DEF IInv, WalkInv, Explored
<1> QED BY <1>2, <1>3, <1>5

\* A write to over.db or to the Parquet rows leaves a call nothing to rely on.
LEMMA CallIsDisturbed ==
    ASSUME IInv, mail' = mail, Corpus \subseteq Corpus', Disturb
    PROVE  CallInv' /\ SelectInv' /\ WalkInv'
<1>1. ~call'.calm
  BY DEF Disturb, IInv, CallInv, CallShape
<1> QED BY <1>1, CallStays DEF SelectInv, WalkInv

\* A call that is not under way.
LEMMA NoCallIsFine ==
    ASSUME call' = NoCall
    PROVE  CallInv' /\ SelectInv' /\ WalkInv'
<1>1. Len(<<>>) = 0 /\ 0 <= MaxMessages
  BY ThreadAssumption
<1> QED BY <1>1 DEF NoCall, CallInv, CallShape, SelectInv, WalkInv

\* The seed starts a call by its tid, or a walk.
LEMMA FetchKeeps ==
    ASSUME IInv, NEW m \in Msgs, NEW online \in BOOLEAN, FetchSeed(m, online)
    PROVE  CallInv' /\ SelectInv' /\ WalkInv'
<1>0. /\ UNCHANGED <<mail, parquet, over>> /\ Corpus' = Corpus
      /\ Links' = Links /\ Ties' = Ties
  BY DEF FetchSeed, writerVars, Corpus, Links, Ties, SameSeries
<1>1. Len(<<>>) = 0 /\ 0 <= MaxMessages
  BY ThreadAssumption
<1>2. CASE call' = StartWalk(m)
  <2>1. /\ CallShape' /\ call'.pc = "walk" /\ call'.seed = m /\ call'.tid = Nobody
        /\ call'.queue = <<m>> /\ call'.visited = {} /\ call'.rows = <<>>
        /\ call'.answer = {}
    BY <1>2 DEF StartWalk, NoCall, CallShape
  <2>2. <<m>> \in Seq(Reach(Links, m)) /\ m \in ToSet(<<m>>)
    BY ReachSelf DEF ToSet
  <2>3. CallInv'
    BY <1>0, <1>1, <2>1, <2>2 DEF CallInv
  <2>4. SelectInv' /\ WalkInv'
    BY <2>1, <2>2 DEF SelectInv, WalkInv
  <2> QED BY <2>3, <2>4
<1>3. CASE /\ m \in DOMAIN over /\ over[m] # Nobody
           /\ call' = [NoCall EXCEPT !.pc = "select", !.seed = m,
                                     !.tid = over[m], !.calm = TRUE]
  <2>1. /\ CallShape' /\ call'.pc = "select" /\ call'.seed = m
        /\ call'.tid = over[m] /\ call'.queue = <<>> /\ call'.visited = {}
        /\ call'.rows = <<>> /\ call'.answer = {}
    BY <1>3 DEF NoCall, CallShape
  <2>2. over[m] \in Reach(Ties, m)
    BY <1>3 DEF IInv, GroupInv
  <2>3. CallInv'
    <3>1. call'.tid # Nobody /\ call'.tid \in Reach(Ties', call'.seed)
      BY <1>0, <1>3, <2>1, <2>2
    <3>2. /\ call'.queue \in Seq(Reach(Links', call'.seed))
          /\ call'.rows \in Seq(Corpus' \cap Reach(Links', call'.seed))
      BY <2>1
    <3> QED BY <1>1, <2>1, <3>1, <3>2 DEF CallInv
  <2>4. SelectInv' /\ WalkInv'
    BY <1>0, <1>3, <2>1 DEF SelectInv, WalkInv
  <2> QED BY <2>3, <2>4
<1> QED BY <1>2, <1>3 DEF FetchSeed

\* What is selected by a tid is tied to it, and so to the seed.
LEMMA SelectKeeps ==
    ASSUME IInv, SelectThread
    PROVE  CallInv' /\ SelectInv' /\ WalkInv'
<1>0. /\ UNCHANGED <<mail, parquet, over>> /\ Corpus' = Corpus
      /\ Links' = Links /\ Ties' = Ties
  BY DEF SelectThread, writerVars, Corpus, Links, Ties, SameSeries
<1> DEFINE same == {m \in DOMAIN over : over[m] = call.tid}
<1>1. PICK s \in Newest(same, MaxMessages) : call' = Answer(s)
  BY DEF SelectThread
<1>2. call.pc = "select" /\ call.tid # Nobody /\ call.tid \in Reach(Ties, call.seed)
  BY DEF SelectThread, IInv, CallInv
<1>3. ASSUME NEW m \in s PROVE m \in Corpus \cap Reach(Ties, call.seed)
  <2>1. m \in DOMAIN over /\ over[m] = call.tid
    BY DEF Newest
  <2>2. m \in Corpus /\ call.tid \in Reach(Ties, m)
    BY <1>2, <2>1 DEF IInv, RebuildInv, OverInv, GroupInv
  <2>3. m \in Reach(Ties, call.tid)
    BY <2>2, TiesBothWays, ReachBack
  <2>4. Reach(Ties, call.tid) \subseteq Reach(Ties, call.seed)
    BY <1>2, ReachOn
  <2> QED BY <2>2, <2>3, <2>4
<1>4. /\ CallShape' /\ call'.pc = "answered" /\ call'.seed = call.seed
      /\ call'.tid = call.tid /\ call'.queue = call.queue
      /\ call'.visited = call.visited /\ call'.rows = call.rows
      /\ call'.answer = s /\ call'.calm = call.calm
  BY <1>1 DEF Answer, IInv, CallInv, CallShape
<1>5. CallInv'
  BY <1>0, <1>3, <1>4 DEF IInv, CallInv
<1>6. SelectInv'
  BY <1>0, <1>1, <1>2, <1>4 DEF IInv, SelectInv, Newest
<1>7. WalkInv'
  BY <1>2, <1>4 DEF WalkInv
<1> QED BY <1>5, <1>6, <1>7

------------------------------------------------------------------------------
(* A turn of the walk. *)

\* What a pair of Links says.
LEMMA LinkSides ==
    /\ \A x \in Corpus : \A r : r \in Relations(mail[x]) =>
         <<x, r>> \in Links /\ <<r, x>> \in Links
    /\ \A p \in Links :
         \/ p[1] \in Corpus /\ p[2] \in Relations(mail[p[1]])
         \/ p[2] \in Corpus /\ p[1] \in Relations(mail[p[2]])
<1> DEFINE up == UNION {{m} \X Relations(mail[m]) : m \in Corpus}
<1>1. Links = up \cup {<<p[2], p[1]>> : p \in up}
  BY DEF Links
<1>2. ASSUME NEW x \in Corpus, NEW r, r \in Relations(mail[x])
      PROVE  <<x, r>> \in Links /\ <<r, x>> \in Links
  <2>1. <<x, r>> \in up
    BY <1>2
  <2> HIDE DEF up
  <2>2. <<<<x, r>>[2], <<x, r>>[1]>> \in Links
    BY <1>1, <2>1
  <2> QED BY <1>1, <2>1, <2>2
<1>3. ASSUME NEW p \in Links
      PROVE  \/ p[1] \in Corpus /\ p[2] \in Relations(mail[p[1]])
             \/ p[2] \in Corpus /\ p[1] \in Relations(mail[p[2]])
  <2>1. \A q \in up : q[1] \in Corpus /\ q[2] \in Relations(mail[q[1]])
    OBVIOUS
  <2> HIDE DEF up
  <2>2. CASE p \in up
    BY <2>1, <2>2
  <2>3. CASE p \in {<<q[2], q[1]>> : q \in up}
    <3>1. PICK q \in up : p = <<q[2], q[1]>>
      BY <2>3
    <3> QED BY <2>1, <3>1
  <2> QED BY <1>1, <2>2, <2>3
<1> QED BY <1>2, <1>3

\* A scan for mid hits the message and those that name it: all near the seed if
\* mid is.
LEMMA HitsAre ==
    ASSUME parquet \in Seq(Msgs), NEW mid
    PROVE  /\ Hits(mid) \in Seq(Corpus)
           /\ ToSet(Hits(mid)) = {x \in Corpus : x = mid \/ mid \in Relations(mail[x])}
<1> DEFINE K == {x \in Corpus : x = mid \/ mid \in Relations(mail[x])}
<1>1. parquet \in Seq(Corpus)
  BY DEF Corpus, ToSet
<1>2. Hits(mid) = Select(parquet, K)
  BY DEF Hits
<1>3. K \subseteq ToSet(parquet)
  BY DEF Corpus
<1> HIDE DEF K
<1>4. Select(parquet, K) \in Seq(Corpus) /\ ToSet(Select(parquet, K)) = ToSet(parquet) \cap K
  BY <1>1, SelectRows
<1> QED BY <1>2, <1>3, <1>4 DEF K

\* What a hit adds to the queue.
LEMMA RelatedAre ==
    ASSUME NEW mid, NEW x \in Corpus, x = mid \/ mid \in Relations(mail[x]),
           NEW near, Closed(Links, near), mid \in near
    PROVE  /\ x \in near
           /\ Related(mid, x) \in Seq(near)
           /\ ToSet(Related(mid, x)) = IF x = mid THEN Relations(mail[x]) ELSE {x}
<1>1. x \in near
  <2>1. CASE x = mid
    BY <2>1
  <2>2. CASE mid \in Relations(mail[x])
    <3>1. <<mid, x>> \in Links
      BY <2>2, LinkSides
    <3> QED BY <3>1 DEF Closed
  <2> QED BY <2>1, <2>2
<1>2. CASE x # mid
  BY <1>1, <1>2 DEF Related, ToSet
<1>3. CASE x = mid
  <2> DEFINE both == {mail[x].reply, mail[x].ref}
             headers == <<mail[x].reply, mail[x].ref>>
             K == Relations(mail[x])
  <2>1. headers \in Seq(both) /\ ToSet(headers) = both
    BY DEF ToSet
  <2>2. K \subseteq both
    BY DEF Relations
  <2>3. Related(mid, x) = Select(headers, K)
    BY <1>3 DEF Related
  <2>4. K \subseteq near
    <3>1. ASSUME NEW r \in K PROVE r \in near
      <4>1. <<x, r>> \in Links
        BY LinkSides
      <4> QED BY <4>1, <1>1 DEF Closed
    <3> QED BY <3>1
  <2> HIDE DEF both, headers, K
  <2>5. /\ Select(headers, K) \in Seq(both)
        /\ ToSet(Select(headers, K)) = ToSet(headers) \cap K
    BY <2>1, SelectRows
  <2> DEFINE related == Select(headers, K)
  <2>6. related \in Seq(both) /\ ToSet(related) = K
    BY <2>1, <2>2, <2>5
  <2> HIDE DEF related
  <2>7. \A i \in 1 .. Len(related) : related[i] \in near
    BY <2>4, <2>6, RowAt
  <2>8. related \in Seq(near)
    BY <2>6, <2>7
  <2> QED BY <1>1, <1>3, <2>3, <2>6, <2>8 DEF related, K
<1> QED BY <1>2, <1>3

\* The first of a queue and the others.
LEMMA HeadAndTail ==
    ASSUME NEW S, NEW queue \in Seq(S), queue # <<>>
    PROVE  /\ Head(queue) \in S /\ Tail(queue) \in Seq(S)
           /\ ToSet(queue) = {Head(queue)} \cup ToSet(Tail(queue))
<1> DEFINE new == <<Head(queue)>>
           rest == Tail(queue)
<1>1. new \in Seq(S) /\ rest \in Seq(S) /\ queue = new \o rest
  OBVIOUS
<1>2. ToSet(new) = {Head(queue)}
  BY DEF ToSet
<1>3. Head(queue) \in S
  OBVIOUS
<1> HIDE DEF new, rest
<1>4. ToSet(new \o rest) = ToSet(new) \cup ToSet(rest)
  BY <1>1, ConcatRows
<1> QED BY <1>1, <1>2, <1>3, <1>4 DEF rest

\* What a turn of the walk takes: rows and messages to look for, all near the seed.
Found(mid, hits) == FlattenSeq([i \in DOMAIN hits |-> Related(mid, hits[i])])
LEMMA FoundAre ==
    ASSUME parquet \in Seq(Msgs), NEW near, Closed(Links, near), NEW mid \in near,
           NEW room \in Nat, NEW hits, hits = FirstN(Hits(mid), room)
    PROVE  /\ hits \in Seq(Corpus \cap near)
           /\ Len(hits) \in Nat /\ Len(hits) <= room
           /\ Len(hits) < room => hits = Hits(mid)
           /\ Found(mid, hits) \in Seq(near)
           /\ \A i \in DOMAIN hits :
                ToSet(Related(mid, hits[i])) \subseteq ToSet(Found(mid, hits))
<1> DEFINE all == Hits(mid)
           ss == [i \in DOMAIN hits |-> Related(mid, hits[i])]
<1>1. /\ all \in Seq(Corpus)
      /\ ToSet(all) = {x \in Corpus : x = mid \/ mid \in Relations(mail[x])}
  BY HitsAre
<1> HIDE DEF all
<1>2. /\ hits \in Seq(Corpus)
      /\ Len(hits) = IF Len(all) < room THEN Len(all) ELSE room
      /\ \A i \in 1 .. Len(hits) : i \in 1 .. Len(all) /\ hits[i] = all[i]
      /\ Len(all) <= room => hits = all
  BY <1>1, FirstNRows DEF all
<1>3. Len(all) \in Nat /\ Len(hits) \in Nat /\ DOMAIN hits = 1 .. Len(hits)
  BY <1>1, <1>2
<1>4. ASSUME NEW i \in 1 .. Len(hits)
      PROVE  /\ hits[i] \in Corpus
             /\ hits[i] = mid \/ mid \in Relations(mail[hits[i]])
             /\ hits[i] \in near /\ Related(mid, hits[i]) \in Seq(near)
  <2>1. hits[i] \in ToSet(all)
    BY <1>1, <1>2, RowAt
  <2>2. hits[i] \in Corpus /\ (hits[i] = mid \/ mid \in Relations(mail[hits[i]]))
    BY <2>1, <1>1
  <2>3. hits[i] \in near /\ Related(mid, hits[i]) \in Seq(near)
    BY <2>2, RelatedAre
  <2> QED BY <2>2, <2>3
<1>5. hits \in Seq(Corpus \cap near)
  BY <1>2, <1>4
<1>6. ss \in Seq(Seq(near)) /\ DOMAIN ss = DOMAIN hits
  BY <1>3, <1>4
<1> HIDE DEF ss
<1>7. /\ FlattenSeq(ss) \in Seq(near)
      /\ ToSet(FlattenSeq(ss)) = UNION {ToSet(ss[i]) : i \in DOMAIN ss}
  BY <1>6, FlattenRows
<1>8. Found(mid, hits) = FlattenSeq(ss) /\ \A i \in DOMAIN hits : ss[i] = Related(mid, hits[i])
  BY DEF Found, ss
<1>9. \A i \in DOMAIN hits : ToSet(Related(mid, hits[i])) \subseteq ToSet(Found(mid, hits))
  BY <1>6, <1>7, <1>8
<1>10. Len(hits) <= room /\ (Len(hits) < room => hits = all)
  BY <1>2, <1>3
<1> QED BY <1>3, <1>5, <1>7, <1>8, <1>9, <1>10 DEF all

\* A turn of the walk takes what is linked to the seed; as long as the budget
\* lasts, everything linked to what it visits is visited or queued.
LEMMA WalkKeeps ==
    ASSUME IInv, WalkStep
    PROVE  CallInv' /\ SelectInv' /\ WalkInv'
<1> DEFINE near == Reach(Links, call.seed)
           mid == Head(call.queue)
           rest == Tail(call.queue)
           room == MaxMessages - Len(call.rows)
           hits == FirstN(Hits(mid), room)
           seen == call.visited \cup {mid}
           found == Found(mid, hits)
           more == Select(found, ToSet(found) \ seen)
<1>0. /\ UNCHANGED <<mail, parquet, over>> /\ Corpus' = Corpus
      /\ Links' = Links /\ Ties' = Ties /\ \A v : Hits(v)' = Hits(v)
      /\ parquet \in Seq(Msgs)
  BY DEF WalkStep, writerVars, Corpus, Links, Ties, SameSeries, Hits, IInv,
         RebuildInv, PlaceInv
<1>1. /\ CallShape /\ call.pc = "walk" /\ call.tid = Nobody /\ call.queue # <<>>
      /\ call.queue \in Seq(near) /\ call.visited \subseteq near
      /\ call.rows \in Seq(Corpus \cap near) /\ Len(call.rows) <= MaxMessages
      /\ call.answer \subseteq Corpus \cap Reach(Ties, call.seed)
  BY DEF WalkStep, IInv, CallInv
<1>2. /\ call' = IF mid \in call.visited \/ room = 0
                 THEN [call EXCEPT !.queue = rest]
                 ELSE [call EXCEPT !.visited = seen, !.rows = call.rows \o hits,
                                   !.queue = rest \o more]
  BY DEF WalkStep, Found
<1>3. Closed(Links, near)
  BY ReachClosed
<1>4. Len(call.rows) \in Nat /\ room \in Nat
  BY <1>1, ThreadAssumption
<1> HIDE DEF near, mid, rest, room
<1>5. /\ mid \in near /\ rest \in Seq(near)
      /\ ToSet(call.queue) = {mid} \cup ToSet(rest)
  BY <1>1, HeadAndTail DEF mid, rest
<1>6. CASE mid \in call.visited \/ room = 0
  <2>1. /\ CallShape' /\ call'.pc = "walk" /\ call'.seed = call.seed
        /\ call'.tid = Nobody /\ call'.queue = rest
        /\ call'.visited = call.visited /\ call'.rows = call.rows
        /\ call'.answer = call.answer /\ call'.calm = call.calm
    BY <1>1, <1>2, <1>6 DEF CallShape
  <2>2. CallInv'
    BY <1>0, <1>1, <1>5, <2>1 DEF CallInv, near
  <2>3. WalkInv'
    <3> SUFFICES ASSUME call.calm, Len(call.rows) < MaxMessages
                 PROVE  /\ call.seed \in call.visited \cup ToSet(rest)
                        /\ \A v \in call.visited : Explored(v)'
      BY <2>1 DEF WalkInv
    <3>1. mid \in call.visited
      BY <1>4, <1>6, ThreadAssumption DEF room
    <3>2. /\ call.seed \in call.visited \cup ToSet(call.queue)
          /\ \A v \in call.visited : Explored(v)
      BY <1>1 DEF IInv, WalkInv
    <3>3. call.visited \cup ToSet(call.queue) = call.visited \cup ToSet(rest)
      BY <1>5, <3>1
    <3>4. \A v : Explored(v) => Explored(v)'
      BY <1>0, <2>1, <3>3 DEF Explored
    <3> QED BY <3>2, <3>3, <3>4
  <2> QED BY <2>1, <2>2, <2>3 DEF SelectInv
<1>7. CASE ~(mid \in call.visited \/ room = 0)
  <2>1. /\ hits \in Seq(Corpus \cap near)
        /\ Len(hits) \in Nat /\ Len(hits) <= room
        /\ Len(hits) < room => hits = Hits(mid)
        /\ found \in Seq(near)
        /\ \A i \in DOMAIN hits : ToSet(Related(mid, hits[i])) \subseteq ToSet(found)
    BY <1>0, <1>3, <1>4, <1>5, FoundAre
  <2> HIDE DEF hits, found
  <2>2. more \in Seq(near) /\ ToSet(more) = ToSet(found) \ seen
    <3>1. /\ more \in Seq(near)
          /\ ToSet(more) = ToSet(found) \cap (ToSet(found) \ seen)
      BY <2>1, SelectRows
    <3> HIDE DEF more
    <3> QED BY <3>1
  <2> HIDE DEF more
  <2>3. rest \o more \in Seq(near) /\ ToSet(rest \o more) = ToSet(rest) \cup ToSet(more)
    BY <1>5, <2>2, ConcatRows
  <2>4. /\ call.rows \o hits \in Seq(Corpus \cap near)
        /\ ToSet(call.rows \o hits) = ToSet(call.rows) \cup ToSet(hits)
        /\ Len(call.rows \o hits) = Len(call.rows) + Len(hits)
    <3> DEFINE Q == Corpus \cap near
    <3>1. call.rows \in Seq(Q) /\ hits \in Seq(Q)
      BY <1>1, <2>1
    <3> HIDE DEF Q
    <3>2. /\ call.rows \o hits \in Seq(Q)
          /\ ToSet(call.rows \o hits) = ToSet(call.rows) \cup ToSet(hits)
      BY <3>1, ConcatRows
    <3>3. Len(call.rows \o hits) = Len(call.rows) + Len(hits)
      BY <3>1
    <3> QED BY <3>2, <3>3 DEF Q
  <2>5. /\ CallShape' /\ call'.pc = "walk" /\ call'.seed = call.seed
        /\ call'.tid = Nobody /\ call'.queue = rest \o more
        /\ call'.visited = seen /\ call'.rows = call.rows \o hits
        /\ call'.answer = call.answer /\ call'.calm = call.calm
    BY <1>1, <1>2, <1>7 DEF CallShape
  <2>6. CallInv'
    <3>1. Len(call'.rows) <= MaxMessages
      BY <1>4, <2>1, <2>4, <2>5, ThreadAssumption DEF room
    <3>2. /\ call'.queue \in Seq(near) /\ call'.visited \subseteq near
          /\ call'.rows \in Seq(Corpus \cap near)
      BY <1>1, <1>5, <2>3, <2>4, <2>5
    <3> QED BY <1>0, <1>1, <2>5, <3>1, <3>2 DEF CallInv, near
  <2>7. WalkInv'
    <3> SUFFICES ASSUME call.calm, Len(call.rows \o hits) < MaxMessages
                 PROVE  /\ call.seed \in seen \cup ToSet(rest \o more)
                        /\ \A v \in seen : Explored(v)'
      BY <2>5 DEF WalkInv
    <3>1. Len(call.rows) < MaxMessages /\ hits = Hits(mid)
      BY <1>4, <2>1, <2>4, ThreadAssumption DEF room
    <3>2. /\ call.seed \in call.visited \cup ToSet(call.queue)
          /\ \A v \in call.visited : Explored(v)
      BY <1>1, <3>1 DEF IInv, WalkInv
    <3>3. seen \cup ToSet(rest \o more)
          = call.visited \cup ToSet(call.queue) \cup ToSet(found)
      BY <1>5, <2>2, <2>3
    <3>4. ASSUME NEW v \in call.visited PROVE Explored(v)'
      <4>1. Explored(v)
        BY <3>2
      <4>2. /\ \A p \in Links : p[1] = v => p[2] \in seen \cup ToSet(rest \o more)
            /\ ToSet(Hits(v)) \subseteq ToSet(call.rows \o hits)
        BY <4>1, <2>4, <3>3 DEF Explored
      <4> QED BY <1>0, <2>5, <4>2 DEF Explored
    <3>5. ASSUME NEW v, v = mid PROVE Explored(v)'
      <4>1. ASSUME NEW p \in Links, p[1] = mid, p[2] # mid PROVE p[2] \in ToSet(found)
        <5>1. ToSet(hits) = {x \in Corpus : x = mid \/ mid \in Relations(mail[x])}
          BY <1>0, <3>1, HitsAre
        <5>2. CASE mid \in Corpus /\ p[2] \in Relations(mail[mid])
          <6>1. PICK i \in DOMAIN hits : hits[i] = mid
            BY <5>1, <5>2 DEF ToSet
          <6>2. ToSet(Related(mid, mid)) = Relations(mail[mid])
            BY <1>3, <1>5, <5>2, RelatedAre
          <6> QED BY <2>1, <5>2, <6>1, <6>2
        <5>3. CASE p[2] \in Corpus /\ mid \in Relations(mail[p[2]])
          <6>1. PICK i \in DOMAIN hits : hits[i] = p[2]
            BY <5>1, <5>3 DEF ToSet
          <6>2. ToSet(Related(mid, p[2])) = {p[2]}
            BY <1>3, <1>5, <4>1, <5>3, RelatedAre
          <6> QED BY <2>1, <6>1, <6>2
        <5> QED BY <4>1, <5>2, <5>3, LinkSides
      <4>2. \A p \in Links : p[1] = mid => p[2] \in seen \cup ToSet(rest \o more)
        BY <3>3, <4>1
      <4>3. ToSet(Hits(v)) \subseteq ToSet(call.rows \o hits)
        BY <2>4, <3>1, <3>5
      <4>4. \A p \in Links : p[1] = v => p[2] \in seen \cup ToSet(rest \o more)
        BY <3>5, <4>2
      <4> QED BY <1>0, <2>5, <4>3, <4>4 DEF Explored
    <3>6. call.seed \in seen \cup ToSet(rest \o more)
      BY <3>2, <3>3
    <3>7. ASSUME NEW v \in seen PROVE Explored(v)'
      BY <3>4, <3>5
    <3> QED BY <3>6, <3>7
  <2> QED BY <2>5, <2>6, <2>7 DEF SelectInv
<1> QED BY <1>6, <1>7

\* The walk is over: its rows are the answer.
LEMMA WalkDoneKeeps ==
    ASSUME IInv, WalkDone
    PROVE  CallInv' /\ SelectInv' /\ WalkInv'
<1>0. /\ UNCHANGED <<mail, parquet, over>> /\ Corpus' = Corpus
      /\ Links' = Links /\ Ties' = Ties /\ \A v : Hits(v)' = Hits(v)
  BY DEF WalkDone, writerVars, Corpus, Links, Ties, SameSeries, Hits
<1>1. /\ CallShape' /\ call'.pc = "answered" /\ call'.seed = call.seed
      /\ call'.tid = Nobody /\ call'.queue = <<>> /\ call.queue = <<>>
      /\ call.pc = "walk" /\ call.tid = Nobody
      /\ call'.visited = call.visited /\ call'.rows = call.rows
      /\ call'.answer = ToSet(call.rows) /\ call'.calm = call.calm
  BY DEF WalkDone, Answer, IInv, CallInv, CallShape
<1>2. ToSet(call.rows) \subseteq Corpus \cap Reach(Ties, call.seed)
  <2> DEFINE Q == Corpus \cap Reach(Links, call.seed)
  <2>1. call.rows \in Seq(Q)
    BY DEF IInv, CallInv
  <2> HIDE DEF Q
  <2>2. ToSet(call.rows) \subseteq Q
    BY <2>1, RowAt
  <2>3. Reach(Links, call.seed) \subseteq Reach(Ties, call.seed)
    BY ReachMore DEF Ties
  <2> QED BY <2>2, <2>3 DEF Q
<1>3. CallInv'
  BY <1>0, <1>1, <1>2 DEF IInv, CallInv
<1>4. WalkInv'
  BY <1>0, <1>1 DEF IInv, WalkInv, Explored
<1> QED BY <1>1, <1>3, <1>4 DEF SelectInv

------------------------------------------------------------------------------
(* The invariant is inductive. *)

\* Before the first action nothing is grouped and nobody calls.
LEMMA Initially == ASSUME Init PROVE IInv
<1>1. RebuildInv
  BY DEF Init, RebuildInv, PlaceInv, OverInv, PlanInv, TailInv, RebuildSettles, Idle,
         Corpus, ToSet
<1>2. Corpus = {} /\ parquet = <<>>
  BY DEF Init, Corpus, ToSet
<1>3. MailInv
  <2>1. Len(parquet) = 0 /\ Cardinality({}) = 0
    BY <1>2, FS_EmptySet
  <2>2. 0 \in 0 .. MaxFaults /\ 0 \in 0 .. MaxIngests
    BY ThreadAssumption
  <2>3. Len(parquet) = Cardinality(Corpus)
    BY <1>2, <2>1
  <2> QED BY <2>2, <2>3 DEF Init, MailInv
<1>4. GroupInv
  BY DEF Init, GroupInv, Idle
<1>5. CallInv /\ SelectInv /\ WalkInv
  <2>1. call = NoCall /\ Len(<<>>) = 0 /\ 0 <= MaxMessages
    BY ThreadAssumption DEF Init
  <2> QED BY <2>1 DEF NoCall, CallInv, CallShape, SelectInv, WalkInv
<1> QED BY <1>1, <1>3, <1>4, <1>5 DEF IInv

\* Every step of a writer or of a call keeps the invariant: a rebuild works from the
\* plan of the corpus, and a call holds what its seed leads to (tid.rs:141-195,
\* reader.rs:1917-2020).
THEOREM Inductive == Spec => []IInv
<1>1. Init => IInv
  BY Initially
<1>2. ASSUME IInv, [Next]_vars PROVE IInv'
  <2>1. RebuildInv' /\ MailInv' /\ GroupInv'
    BY <1>2, RebuildKeeps, MailKeeps, GroupKeeps DEF IInv
  <2>2. ASSUME \/ \E m \in Msgs, inserted \in BOOLEAN : Ingest(m, inserted)
               \/ UpdateChunk \/ TailChunk
        PROVE  CallInv' /\ SelectInv' /\ WalkInv'
    <3>1. Disturb
      BY <2>2 DEF Ingest, UpdateChunk, TailChunk
    <3> QED BY <1>2, <3>1, CorpusGrows, CallIsDisturbed
  <2>3. ASSUME StartRebuild \/ Publish \/ CrashRebuild \/ UNCHANGED vars
        PROVE  CallInv' /\ SelectInv' /\ WalkInv'
    <3>1. UNCHANGED <<mail, parquet, over, call>>
      BY <2>3 DEF StartRebuild, Publish, CrashRebuild, vars, writerVars
    <3> QED BY <1>2, <3>1, CallRests
  <2>4. ASSUME NEW m \in Msgs, NEW online \in BOOLEAN, FetchSeed(m, online)
        PROVE  CallInv' /\ SelectInv' /\ WalkInv'
    BY <1>2, <2>4, FetchKeeps
  <2>5. ASSUME EndCall PROVE CallInv' /\ SelectInv' /\ WalkInv'
    <3>1. call' = NoCall
      BY <2>5 DEF EndCall
    <3> QED BY <3>1, NoCallIsFine
  <2>6. CallInv' /\ SelectInv' /\ WalkInv'
    BY <1>2, <2>2, <2>3, <2>4, <2>5, SelectKeeps, WalkKeeps, WalkDoneKeeps DEF Next
  <2> QED BY <2>1, <2>6 DEF IInv
<1> QED BY <1>1, <1>2, PTL DEF Spec

\* Whatever rebuilds were killed before, one that runs to its end leaves the side
\* table and over.db with one grouping of the whole corpus (tid.rs:141-195).
THEOREM RebuildAlwaysSettles == Spec => []RebuildSettles
<1>1. IInv => RebuildSettles
  BY DEF IInv, RebuildInv
<1> QED BY <1>1, Inductive, PTL

\* Over.db and the side table name messages of the corpus only, and Parquet has one
\* row of each.
THEOREM TypeCorrect == Spec => []TypeOK
<1>1. IInv => TypeOK
  <2> SUFFICES ASSUME IInv PROVE TypeOK
    OBVIOUS
  <2>1. DOMAIN mail = Msgs /\ parquet \in Seq(Msgs) /\ DOMAIN over \subseteq Corpus
    BY ThreadAssumption DEF IInv, RebuildInv, PlaceInv, OverInv, MailInv
  <2>2. /\ \A m \in DOMAIN over : over[m] \in Corpus \cup {Nobody}
        /\ \A m \in DOMAIN sidetable :
             sidetable[m].tid \in Corpus /\ sidetable[m].files \subseteq Corpus
        /\ rebuild.todo \in Seq(Corpus)
    BY DEF IInv, GroupInv, EntryTied
  <2>3. /\ rebuild.pc \in {"idle", "update", "tail"}
        /\ call.pc \in {"idle", "select", "walk", "answered"}
        /\ call.answer \subseteq Corpus
    BY DEF IInv, RebuildInv, PlaceInv, CallInv
  <2> QED BY <2>1, <2>2, <2>3 DEF IInv, MailInv, TypeOK
<1> QED BY <1>1, Inductive, PTL

\* A thread never holds a message unrelated to its seed, nor a cover letter the
\* files of one, whatever rebuilds and ingests fall between the two SELECTs of a
\* call (reader.rs:1917-1945).
THEOREM NoStrangersEver == Spec => []NoStrangers
<1>1. IInv => NoStrangers
  BY DEF IInv, CallInv, GroupInv, EntryTied, Ties, NoStrangers
<1> QED BY <1>1, Inductive, PTL

\* A walk left alone and within its budget returns everything linked to its seed,
\* also across messages that were never ingested (reader.rs:1947-2020).
THEOREM WalksAreWhole == Spec => []WalkIsWhole
<1>1. IInv => WalkIsWhole
  <2> SUFFICES ASSUME IInv, call.pc = "answered", call.tid = Nobody, call.calm,
                      Len(call.rows) < MaxMessages
               PROVE  call.answer = Reach(Links, call.seed) \cap Corpus
    BY DEF WalkIsWhole
  <2> DEFINE near == Reach(Links, call.seed)
  <2>1. /\ call.seed \in call.visited \cup ToSet(call.queue)
        /\ \A v \in call.visited : Explored(v)
        /\ call.queue = <<>> /\ call.answer = ToSet(call.rows)
    BY DEF IInv, WalkInv
  <2>2. call.visited \cup ToSet(call.queue) = call.visited
    BY <2>1 DEF ToSet
  <2>3. Closed(Links, call.visited)
    BY <2>1, <2>2 DEF Closed, Explored
  <2>4. near \subseteq call.visited
    BY <2>1, <2>2, <2>3, ReachLeast
  <2>5. ASSUME NEW x \in near \cap Corpus PROVE x \in call.answer
    <3>1. x \in ToSet(Hits(x))
      BY <2>5, HitsAre DEF IInv, RebuildInv, PlaceInv
    <3> QED BY <3>1, <2>1, <2>4, <2>5 DEF Explored
  <2>6. call.answer \subseteq near \cap Corpus
    <3> DEFINE Q == Corpus \cap near
    <3>1. call.rows \in Seq(Q)
      BY DEF IInv, CallInv
    <3> HIDE DEF Q
    <3>2. ToSet(call.rows) \subseteq Q
      BY <3>1, RowAt
    <3> QED BY <2>1, <3>2 DEF Q
  <2> QED BY <2>5, <2>6
<1> QED BY <1>1, Inductive, PTL

\* A reply has the tid of the root its ancestors lead to.
LEMMA ReplyHasRoot ==
    ASSUME parquet \in Seq(Msgs), NEW m \in Corpus, Roots(m) # {}, m \notin Roots(m)
    PROVE  Roots(m) = {ResolveTid(mail, parquet, m)}
<1> DEFINE end == ChainEnd(mail, parquet, m)
           chain == Reach(ParentPairs(mail, parquet), m)
<1>1. Roots(m) = {a \in chain : Parent(mail[a]) \notin Corpus}
  BY DEF Roots, ParentPairs, Corpus
<1>2. \A a \in chain : Parent(mail[a]) \notin Corpus => a = end
  BY ChainEnds DEF Corpus
<1> HIDE DEF end, chain
<1>3. Roots(m) = {end} /\ end # m
  BY <1>1, <1>2
<1> QED BY <1>3 DEF ResolveTid, end

\* On a settled index a call below its limit returns every other reply that leads to
\* the seed's root: siblings and cousins, in whatever order they arrived
\* (tid.rs:242-271, reader.rs:1928-1938).
THEOREM RepliesStayTogether == Spec => []RepliesTogether
<1>1. IInv => RepliesTogether
  <2> SUFFICES ASSUME IInv, call.pc = "answered", call.tid # Nobody, call.calm,
                      settled, Cardinality(call.answer) < MaxMessages,
                      NEW m \in DOMAIN over, Roots(m) # {},
                      Roots(m) = Roots(call.seed),
                      m \notin Roots(m), call.seed \notin Roots(m)
               PROVE  m \in call.answer
    BY DEF RepliesTogether
  <2> DEFINE same == {x \in DOMAIN over : over[x] = call.tid}
             Tid(x) == ResolveTid(mail, parquet, x)
  <2>1. call.seed \in DOMAIN over /\ over[call.seed] = call.tid
        /\ call.answer \in Newest(same, MaxMessages)
    BY DEF IInv, SelectInv
  <2>2. \A x \in DOMAIN over : x \in Corpus /\ over[x] = Tid(x)
    BY DEF IInv, RebuildInv, OverInv, RebuildSettles, Plan, Corpus
  <2>3. Roots(m) = {Tid(m)} /\ Roots(call.seed) = {Tid(call.seed)}
    BY <2>1, <2>2, ReplyHasRoot DEF IInv, RebuildInv, PlaceInv
  <2>4. m \in same
    BY <2>1, <2>2, <2>3
  <2>5. call.answer = same
    <3>1. /\ call.answer \subseteq same
          /\ Cardinality(call.answer) = IF Cardinality(same) < MaxMessages
                                        THEN Cardinality(same) ELSE MaxMessages
      BY <2>1 DEF Newest
    <3>2. IsFiniteSet(same)
      <4>1. IsFiniteSet(Corpus)
        BY RowsFinite DEF IInv, RebuildInv, PlaceInv, Corpus
      <4>2. same \subseteq Corpus
        BY <2>2
      <4> QED BY <4>1, <4>2, FS_Subset
    <3> HIDE DEF same
    <3>3. Cardinality(call.answer) = Cardinality(same)
      BY <3>1, ThreadAssumption
    <3> QED BY <3>1, <3>2, <3>3, FS_Subset
  <2> QED BY <2>4, <2>5
<1> QED BY <1>1, Inductive, PTL
==============================================================================
