------------------------ MODULE ToolAdmissionProofs ------------------------
(***************************************************************************)
(* Proofs about tool calls for any number of calls, cost classes, permits  *)
(* and threads: permits are conserved, and a thread whose caller has left  *)
(* has been told.                                                          *)
(***************************************************************************)
EXTENDS ToolAdmission, FiniteSetTheorems, SequenceTheorems, TLAPS

-----------------------------------------------------------------------------
(* Sequences in which no call is twice                                     *)

Once(s) == \A i, j \in DOMAIN s : s[i] = s[j] => i = j
In(s, c) == \E i \in DOMAIN s : s[i] = c

LEMMA AppendFacts ==
    ASSUME NEW S, NEW s \in Seq(S), NEW c \in S, Once(s), ~In(s, c)
    PROVE  /\ Append(s, c) \in Seq(S) /\ Once(Append(s, c))
           /\ \A x : In(Append(s, c), x) <=> In(s, x) \/ x = c
<1>1. /\ Append(s, c) \in Seq(S) /\ Len(s) \in Nat
      /\ DOMAIN Append(s, c) = 1..(Len(s) + 1) /\ DOMAIN s = 1..Len(s)
      /\ \A i \in 1..Len(s) : Append(s, c)[i] = s[i]
      /\ Append(s, c)[Len(s) + 1] = c
  OBVIOUS
<1> DEFINE a == Append(s, c)
<1> HIDE DEF a
<1>2. \A i \in DOMAIN a : i \in DOMAIN s \/ i = Len(s) + 1
  BY <1>1 DEF a
<1>3. Once(a)
  BY <1>1, <1>2 DEF a, Once, In
<1>4. ASSUME NEW x PROVE In(a, x) <=> In(s, x) \/ x = c
  <2>1. In(s, x) => In(a, x)
    BY <1>1 DEF a, In
  <2>2. In(a, c)
    BY <1>1 DEF a, In
  <2>3. In(a, x) => In(s, x) \/ x = c
    BY <1>1, <1>2 DEF a, In
  <2> QED BY <2>1, <2>2, <2>3
<1> QED BY <1>1, <1>3, <1>4 DEF a

LEMMA TailFacts ==
    ASSUME NEW S, NEW s \in Seq(S), s # <<>>, Once(s)
    PROVE  /\ Head(s) \in S /\ Tail(s) \in Seq(S) /\ Once(Tail(s)) /\ In(s, Head(s))
           /\ \A x : In(Tail(s), x) <=> In(s, x) /\ x # Head(s)
<1>1. /\ Head(s) = s[1] /\ Head(s) \in S /\ Tail(s) \in Seq(S) /\ Len(s) \in Nat \ {0}
      /\ DOMAIN Tail(s) = 1..(Len(s) - 1) /\ DOMAIN s = 1..Len(s)
      /\ \A i \in 1..(Len(s) - 1) : Tail(s)[i] = s[i + 1]
  OBVIOUS
<1> DEFINE t == Tail(s)
<1> HIDE DEF t
<1>2. 1 \in DOMAIN s /\ \A i \in DOMAIN t : i + 1 \in DOMAIN s /\ i \in Nat /\ i + 1 # 1
  BY <1>1 DEF t
<1>3. Once(t)
  BY <1>1, <1>2 DEF t, Once
<1>4. ASSUME NEW x PROVE In(t, x) <=> In(s, x) /\ x # Head(s)
  <2>1. In(t, x) => In(s, x) /\ x # Head(s)
    BY <1>1, <1>2 DEF t, In, Once
  <2>2. ASSUME NEW i \in DOMAIN s, i # 1 PROVE i - 1 \in DOMAIN t /\ t[i - 1] = s[i]
    BY <1>1, <2>2 DEF t
  <2>3. In(s, x) /\ x # Head(s) => In(t, x)
    BY <1>1, <2>2 DEF In
  <2> QED BY <2>1, <2>3
<1> QED BY <1>1, <1>2, <1>3, <1>4 DEF t, In

LEMMA RemoveFacts ==
    ASSUME NEW S, NEW s \in Seq(S), NEW c, Once(s)
    PROVE  /\ RemoveFirst(s, c) \in Seq(S) /\ Once(RemoveFirst(s, c))
           /\ \A x : In(RemoveFirst(s, c), x) <=> In(s, x) /\ x # c
<1>1. CASE ~In(s, c)
  <2>1. RemoveFirst(s, c) = s
    BY <1>1 DEF RemoveFirst, In
  <2> QED BY <1>1, <2>1 DEF In
<1>2. CASE In(s, c)
  <2> DEFINE I == {i \in 1..Len(s) : s[i] = c}
             k == Min(I)
             r == RemoveAt(s, k)
  <2>1. PICK i \in 1..Len(s) : s[i] = c
    BY <1>2 DEF In
  <2>2. I = {i}
    BY <2>1 DEF Once
  <2>3. k = i
    BY <2>1, <2>2 DEF Min
  <2>4. RemoveFirst(s, c) = r
    BY <2>1, <2>2 DEF RemoveFirst, SelectInSeq
  <2>5. r = SubSeq(s, 1, i - 1) \o SubSeq(s, i + 1, Len(s))
    BY <2>3 DEF RemoveAt
  <2>6. Len(s) \in Nat /\ i \in Nat /\ 1 <= i /\ i <= Len(s)
    BY <2>1
  <2> HIDE DEF I, k, r
  <2>7. /\ SubSeq(s, 1, i - 1) \in Seq(S) /\ SubSeq(s, i + 1, Len(s)) \in Seq(S)
        /\ Len(SubSeq(s, 1, i - 1)) = i - 1 /\ Len(SubSeq(s, i + 1, Len(s))) = Len(s) - i
        /\ \A j \in 1..(i - 1) : SubSeq(s, 1, i - 1)[j] = s[j]
        /\ \A j \in 1..(Len(s) - i) : SubSeq(s, i + 1, Len(s))[j] = s[i + j]
    BY <2>6
  <2> DEFINE u == SubSeq(s, 1, i - 1)
             v == SubSeq(s, i + 1, Len(s))
  <2> HIDE DEF u, v
  <2>14. u \in Seq(S) /\ v \in Seq(S) /\ r = u \o v /\ Len(u) = i - 1 /\ Len(v) = Len(s) - i
    BY <2>5, <2>7 DEF u, v
  <2>15. /\ u \o v \in Seq(S) /\ Len(u \o v) = Len(u) + Len(v)
         /\ \A j \in 1..(Len(u) + Len(v)) : (u \o v)[j] = IF j <= Len(u) THEN u[j] ELSE v[j - Len(u)]
    BY <2>14, ConcatProperties
  <2>8. r \in Seq(S) /\ Len(r) = Len(s) - 1 /\ DOMAIN r = 1..(Len(s) - 1)
    <3>1. r \in Seq(S) /\ Len(r) = Len(s) - 1
      BY <2>6, <2>14, <2>15
    <3> QED BY <3>1, LenProperties
  <2>16. \A j \in 1..(Len(s) - 1) : r[j] = IF j <= i - 1 THEN u[j] ELSE v[j - (i - 1)]
    BY <2>6, <2>14, <2>15
  <2>9. \A j \in 1..(i - 1) : r[j] = s[j]
    <3>1. \A j \in 1..(i - 1) : u[j] = s[j]
      BY <2>7 DEF u
    <3>2. ASSUME NEW j \in 1..(i - 1) PROVE r[j] = u[j]
      <4>1. j \in 1..(Len(s) - 1) /\ j <= i - 1
        BY <2>6
      <4> QED BY <2>16, <4>1
    <3> QED BY <3>1, <3>2
  <2>10. \A j \in i..(Len(s) - 1) : r[j] = s[j + 1]
    <3>1. \A j \in i..(Len(s) - 1) : j - (i - 1) \in 1..(Len(s) - i) /\ i + (j - (i - 1)) = j + 1
      BY <2>6
    <3>2. \A j \in 1..(Len(s) - i) : v[j] = s[i + j]
      BY <2>7 DEF v
    <3>3. ASSUME NEW j \in i..(Len(s) - 1) PROVE r[j] = v[j - (i - 1)]
      <4>1. j \in 1..(Len(s) - 1) /\ ~(j <= i - 1)
        BY <2>6
      <4> QED BY <2>16, <4>1
    <3>4. ASSUME NEW j \in i..(Len(s) - 1) PROVE v[j - (i - 1)] = s[j + 1]
      <4>1. v[j - (i - 1)] = s[i + (j - (i - 1))]
        BY <3>1, <3>2
      <4> QED BY <3>1, <4>1
    <3> QED BY <3>3, <3>4
  <2>11. \A j \in DOMAIN r : \/ j \in 1..(i - 1) /\ r[j] = s[j] /\ j \in DOMAIN s /\ j < i
                             \/ j \in i..(Len(s) - 1) /\ r[j] = s[j + 1] /\ j + 1 \in DOMAIN s /\ i < j + 1
    BY <2>6, <2>8, <2>9, <2>10
  <2>12. Once(r)
    BY <2>6, <2>11 DEF Once
  <2>13. ASSUME NEW x PROVE In(r, x) <=> In(s, x) /\ x # c
    <3>1. In(r, x) => In(s, x) /\ x # c
      BY <2>1, <2>6, <2>11 DEF In, Once
    <3>2. ASSUME NEW j \in DOMAIN s, s[j] # c PROVE In(r, s[j])
      <4>1. CASE j < i
        BY <4>1, <2>6, <2>8, <2>9 DEF In
      <4>2. CASE j > i
        <5>1. j - 1 \in i..(Len(s) - 1) /\ j - 1 \in DOMAIN r /\ (j - 1) + 1 = j
          BY <4>2, <2>6, <2>8
        <5> QED BY <5>1, <2>10 DEF In
      <4> QED BY <3>2, <4>1, <4>2, <2>1, <2>6
    <3> QED BY <3>1, <3>2 DEF In
  <2> QED BY <2>4, <2>8, <2>12, <2>13
<1> QED BY <1>1, <1>2

-----------------------------------------------------------------------------
(* The invariant                                                           *)

Types ==
    /\ state \in [Calls -> Admitted \cup {"idle", "waiting", "answered"}]
    /\ outcome \in [Calls -> {"none", "ok", "rate_limited", "query_timeout",
                              "starved", "cancelled"}]
    /\ permits \in [Classes -> Nat] /\ waiters \in [Classes -> Seq(Calls)]
    /\ queue \in Seq(Calls) /\ thread \in [Threads -> Calls \cup {Nobody}]
    /\ token \in [Calls -> BOOLEAN]

\* A semaphore's queue holds calls of its class that wait.
SemInv ==
    \A k \in Classes :
        /\ Once(waiters[k])
        /\ \A x \in Calls : In(waiters[k], x) => ClassOf[x] = k /\ state[x] = "waiting"

\* A call is queued or runs on one thread, and its caller waits or has told it.
PoolInv ==
    /\ Once(queue)
    /\ \A x \in Calls : In(queue, x) => state[x] = "submitted"
    /\ \A t \in Threads : thread[t] # Nobody =>
          /\ ~In(queue, thread[t])
          /\ \/ state[thread[t]] = "submitted"
             \/ state[thread[t]] = "answered" /\ token[thread[t]]
          /\ \A u \in Threads : thread[u] = thread[t] => u = t

PermitInv ==
    \A k \in Classes :
        IsFiniteSet(InFlight(k)) /\ permits[k] + Cardinality(InFlight(k)) = Limit[k]

IInv == Types /\ SemInv /\ PoolInv /\ PermitInv

LEMMA InitInv == Init => IInv
<1> SUFFICES ASSUME Init PROVE IInv
  OBVIOUS
<1> USE AdmissionAssumption
<1>1. Types
  BY DEF Init, Types, Admitted
<1>2. \A k \in Classes : waiters[k] = <<>> /\ DOMAIN waiters[k] = {}
  BY DEF Init
<1>3. SemInv
  BY <1>2 DEF SemInv, Once, In
<1>4. PoolInv
  BY DEF Init, PoolInv, Once, In
<1>5. PermitInv
  <2>1. \A k \in Classes : InFlight(k) = {}
    BY DEF Init, InFlight, Admitted
  <2>2. \A k \in Classes : Limit[k] \in Nat /\ permits[k] = Limit[k]
    BY DEF Init
  <2>3. Cardinality({}) = 0 /\ IsFiniteSet({})
    BY FS_EmptySet
  <2>4. \A k \in Classes : IsFiniteSet(InFlight(k)) /\ Cardinality(InFlight(k)) = 0
    BY <2>1, <2>3
  <2>5. \A k \in Classes : permits[k] + Cardinality(InFlight(k)) = Limit[k]
    BY <2>2, <2>4
  <2> QED BY <2>4, <2>5 DEF PermitInv
<1> QED BY <1>1, <1>3, <1>4, <1>5 DEF IInv

\* The invariant gives what the runs check.
LEMMA InvImplies == IInv => TypeOK /\ PermitsConserved /\ NoOrphanUntold
<1> SUFFICES ASSUME IInv PROVE TypeOK /\ PermitsConserved /\ NoOrphanUntold
  OBVIOUS
<1>1. \A k \in Classes : /\ permits[k] + Cardinality(InFlight(k)) = Limit[k]
                         /\ Cardinality(InFlight(k)) \in Nat
  BY FS_CardinalityType DEF IInv, PermitInv
<1>2. TypeOK
  BY <1>1, AdmissionAssumption DEF IInv, Types, TypeOK
<1>3. \A i \in DOMAIN queue : queue[i] \in Calls
  BY DEF IInv, Types
<1>4. NoOrphanUntold
  BY <1>3 DEF IInv, PoolInv, NoOrphanUntold, In
<1> QED BY <1>1, <1>2, <1>4 DEF PermitsConserved

-----------------------------------------------------------------------------
(* Permits                                                                 *)

\* A step that moves no call in or out of flight keeps the count.
LEMMA SameFlight ==
    ASSUME PermitInv, UNCHANGED permits,
           \A x \in Calls : state'[x] \in Admitted <=> state[x] \in Admitted
    PROVE  PermitInv'
<1>1. \A k \in Classes : InFlight(k)' = InFlight(k)
  BY DEF InFlight
<1> QED BY <1>1 DEF PermitInv

\* sem.release after a call in flight ends.
LEMMA ReleaseKeeps ==
    ASSUME Types, SemInv, PermitInv, NEW c \in Calls, state[c] \in Admitted,
           Release(ClassOf[c], [state EXCEPT ![c] = "answered"])
    PROVE  /\ state' \in [Calls -> Admitted \cup {"idle", "waiting", "answered"}]
           /\ permits' \in [Classes -> Nat] /\ waiters' \in [Classes -> Seq(Calls)]
           /\ SemInv' /\ PermitInv'
           /\ \A x \in Calls : \/ x = c /\ state'[x] = "answered"
                               \/ x # c /\ state'[x] = state[x]
                               \/ x # c /\ state[x] = "waiting"
<1> DEFINE k == ClassOf[c]
<1>1. k \in Classes /\ ClassOf \in [Calls -> Classes] /\ Limit \in [Classes -> Nat \ {0}]
  BY AdmissionAssumption
<1>2. c \in InFlight(k) /\ state[c] # "waiting"
  BY DEF InFlight, Admitted
<1>3. /\ IsFiniteSet(InFlight(k) \ {c})
      /\ Cardinality(InFlight(k) \ {c}) = Cardinality(InFlight(k)) - 1
      /\ Cardinality(InFlight(k)) \in Nat /\ permits[k] \in Nat
      /\ permits[k] + Cardinality(InFlight(k)) = Limit[k]
  BY <1>1, <1>2, FS_RemoveElement, FS_CardinalityType DEF PermitInv, Types
<1>4. CASE waiters[k] = <<>>
  <2>1. /\ permits' = [permits EXCEPT ![k] = @ + 1] /\ waiters' = waiters
        /\ state' = [state EXCEPT ![c] = "answered"]
    BY <1>4 DEF Release
  <2>2. /\ state' \in [Calls -> Admitted \cup {"idle", "waiting", "answered"}]
        /\ permits' \in [Classes -> Nat] /\ waiters' \in [Classes -> Seq(Calls)]
        /\ \A x \in Calls : state'[x] = IF x = c THEN "answered" ELSE state[x]
    BY <1>1, <2>1 DEF Types
  <2>3. SemInv'
    BY <1>2, <2>1, <2>2 DEF SemInv
  <2>4. PermitInv'
    <3>1. InFlight(k)' = InFlight(k) \ {c}
      BY <1>1, <2>2 DEF InFlight, Admitted
    <3>2. \A j \in Classes \ {k} : InFlight(j)' = InFlight(j) /\ permits'[j] = permits[j]
      BY <1>1, <2>1, <2>2 DEF InFlight, Types
    <3>3. permits'[k] = permits[k] + 1
      BY <1>1, <2>1 DEF Types
    <3>4. IsFiniteSet(InFlight(k)') /\ permits'[k] + Cardinality(InFlight(k)') = Limit[k]
      BY <1>3, <3>1, <3>3
    <3> QED BY <3>2, <3>4 DEF PermitInv
  <2> QED BY <2>2, <2>3, <2>4
<1>5. CASE waiters[k] # <<>>
  <2> DEFINE w == Head(waiters[k])
  <2>1. /\ waiters' = [waiters EXCEPT ![k] = Tail(@)] /\ permits' = permits
        /\ state' = [[state EXCEPT ![c] = "answered"] EXCEPT ![w] = "granted"]
    BY <1>5 DEF Release
  <2>2. waiters[k] \in Seq(Calls) /\ Once(waiters[k])
    BY <1>1 DEF Types, SemInv
  <2>3. /\ w \in Calls /\ Tail(waiters[k]) \in Seq(Calls) /\ Once(Tail(waiters[k]))
        /\ In(waiters[k], w)
        /\ \A x : In(Tail(waiters[k]), x) <=> In(waiters[k], x) /\ x # w
    BY <1>5, <2>2, TailFacts
  <2>4. state[w] = "waiting" /\ ClassOf[w] = k /\ w # c
    BY <1>1, <1>2, <2>3 DEF SemInv
  <2> HIDE DEF w
  <2>5. /\ state' \in [Calls -> Admitted \cup {"idle", "waiting", "answered"}]
        /\ permits' \in [Classes -> Nat] /\ waiters' \in [Classes -> Seq(Calls)]
        /\ \A x \in Calls : state'[x] = IF x = c THEN "answered"
                                        ELSE IF x = w THEN "granted" ELSE state[x]
    BY <1>1, <2>1, <2>3, <2>4 DEF Types, Admitted
  <2>6. SemInv'
    <3> SUFFICES ASSUME NEW j \in Classes
                 PROVE  /\ Once(waiters'[j])
                        /\ \A x \in Calls : In(waiters'[j], x) =>
                              ClassOf[x] = j /\ state'[x] = "waiting"
      BY DEF SemInv
    <3>1. CASE j = k
      <4>1. waiters'[j] = Tail(waiters[k])
        BY <1>1, <2>1, <3>1 DEF Types
      <4> QED BY <1>1, <1>2, <2>3, <2>5, <3>1, <4>1 DEF SemInv
    <3>2. CASE j # k
      <4>1. waiters'[j] = waiters[j]
        BY <1>1, <2>1, <3>2 DEF Types
      <4> QED BY <1>1, <1>2, <2>4, <2>5, <3>2, <4>1 DEF SemInv
    <3> QED BY <3>1, <3>2
  <2>7. PermitInv'
    <3>1. InFlight(k)' = (InFlight(k) \ {c}) \cup {w} /\ w \notin InFlight(k) \ {c}
      BY <1>1, <2>3, <2>4, <2>5 DEF InFlight, Admitted
    <3>2. \A j \in Classes \ {k} : InFlight(j)' = InFlight(j)
      BY <1>1, <2>4, <2>5 DEF InFlight
    <3>3. IsFiniteSet(InFlight(k)') /\ Cardinality(InFlight(k)') = Cardinality(InFlight(k))
      <4> DEFINE S == InFlight(k) \ {c}
      <4>1. IsFiniteSet(S) /\ w \notin S /\ Cardinality(S) = Cardinality(InFlight(k)) - 1
        BY <1>3, <3>1
      <4> HIDE DEF S
      <4>2. IsFiniteSet(S \cup {w}) /\ Cardinality(S \cup {w}) = Cardinality(S) + 1
        BY <4>1, FS_AddElement
      <4>3. InFlight(k)' = S \cup {w}
        BY <3>1 DEF S
      <4>4. Cardinality(S) + 1 = Cardinality(InFlight(k))
        BY <1>3, <4>1
      <4> QED BY <4>2, <4>3, <4>4
    <3> QED BY <2>1, <3>2, <3>3 DEF PermitInv
  <2> QED BY <2>4, <2>5, <2>6, <2>7
<1> QED BY <1>4, <1>5

\* A call stops waiting for its permit.
LEMMA LeaveSemaphoreKeeps ==
    ASSUME Types, SemInv, PermitInv, NEW c \in Calls,
           state[c] \in {"waiting", "granted"}, LeaveSemaphore(c)
    PROVE  /\ state' \in [Calls -> Admitted \cup {"idle", "waiting", "answered"}]
           /\ permits' \in [Classes -> Nat] /\ waiters' \in [Classes -> Seq(Calls)]
           /\ SemInv' /\ PermitInv'
           /\ \A x \in Calls : \/ x = c /\ state'[x] = "answered"
                               \/ x # c /\ state'[x] = state[x]
                               \/ x # c /\ state[x] = "waiting"
<1>1. CASE state[c] = "granted"
  <2>1. Release(ClassOf[c], [state EXCEPT ![c] = "answered"]) /\ state[c] \in Admitted
    BY <1>1 DEF LeaveSemaphore, Admitted
  <2> QED BY <2>1, ReleaseKeeps
<1>2. CASE state[c] = "waiting"
  <2> DEFINE k == ClassOf[c]
             r == RemoveFirst(waiters[k], c)
  <2>1. k \in Classes
    BY AdmissionAssumption
  <2>2. waiters[k] \in Seq(Calls) /\ Once(waiters[k])
    BY <2>1 DEF Types, SemInv
  <2>3. r \in Seq(Calls) /\ Once(r) /\ \A x : In(r, x) <=> In(waiters[k], x) /\ x # c
    BY <2>2, RemoveFacts
  <2>4. /\ waiters' = [waiters EXCEPT ![k] = r] /\ permits' = permits
        /\ state' = [state EXCEPT ![c] = "answered"]
    BY <1>2 DEF LeaveSemaphore
  <2> HIDE DEF r
  <2>5. /\ state' \in [Calls -> Admitted \cup {"idle", "waiting", "answered"}]
        /\ permits' \in [Classes -> Nat] /\ waiters' \in [Classes -> Seq(Calls)]
        /\ \A x \in Calls : state'[x] = IF x = c THEN "answered" ELSE state[x]
    BY <2>1, <2>3, <2>4 DEF Types
  <2>6. \A j \in Classes : waiters'[j] = IF j = k THEN r ELSE waiters[j]
    BY <2>1, <2>4 DEF Types
  <2>7. SemInv'
    <3> SUFFICES ASSUME NEW j \in Classes
                 PROVE  /\ Once(waiters'[j])
                        /\ \A x \in Calls : In(waiters'[j], x) =>
                              ClassOf[x] = j /\ state'[x] = "waiting"
      BY DEF SemInv
    <3>1. \A x \in Calls : In(waiters[j], x) =>
             ClassOf[x] = j /\ (x # c => state'[x] = "waiting")
      BY <2>5 DEF SemInv
    <3>2. CASE j = k
      <4>1. Once(waiters'[j]) /\ \A x \in Calls : In(waiters'[j], x) <=> In(waiters[j], x) /\ x # c
        BY <2>3, <2>6, <3>2
      <4> QED BY <3>1, <4>1
    <3>3. CASE j # k
      <4>1. waiters'[j] = waiters[j] /\ Once(waiters[j])
        BY <2>6, <3>3 DEF SemInv
      <4>2. \A x \in Calls : In(waiters[j], x) => x # c
        BY <3>1, <3>3
      <4> QED BY <3>1, <4>1, <4>2
    <3> QED BY <3>2, <3>3
  <2>8. PermitInv'
    <3>1. \A x \in Calls : state'[x] \in Admitted <=> state[x] \in Admitted
      BY <1>2, <2>5 DEF Admitted
    <3> QED BY <2>4, <3>1, SameFlight
  <2> QED BY <2>5, <2>7, <2>8
<1> QED BY <1>1, <1>2

-----------------------------------------------------------------------------
(* The steps                                                               *)

\* Submitting a call that is neither queued nor on a thread.
LEMMA SubmitKeeps ==
    ASSUME Types, PoolInv, NEW c \in Calls, state[c] # "submitted", ~OnThread(c),
           Submit(c), UNCHANGED thread,
           state' = [state EXCEPT ![c] = "submitted"]
    PROVE  /\ queue' \in Seq(Calls) /\ token' \in [Calls -> BOOLEAN]
           /\ state' \in [Calls -> Admitted \cup {"idle", "waiting", "answered"}]
           /\ PoolInv'
<1>1. ~In(queue, c) /\ Once(queue) /\ queue \in Seq(Calls)
  BY DEF PoolInv, Types
<1>2. /\ queue' \in Seq(Calls) /\ Once(queue')
      /\ \A x : In(queue', x) <=> In(queue, x) \/ x = c
  BY <1>1, AppendFacts DEF Submit
<1>3. /\ state' \in [Calls -> Admitted \cup {"idle", "waiting", "answered"}]
      /\ token' \in [Calls -> BOOLEAN]
      /\ \A x \in Calls : state'[x] = IF x = c THEN "submitted" ELSE state[x]
      /\ \A x \in Calls : x # c => token'[x] = token[x]
  BY DEF Types, Submit, Admitted
<1>4. \A x \in Calls : In(queue', x) => state'[x] = "submitted"
  BY <1>2, <1>3 DEF PoolInv
<1>5. ASSUME NEW t \in Threads, thread'[t] # Nobody
      PROVE  /\ ~In(queue', thread'[t])
             /\ \/ state'[thread'[t]] = "submitted"
                \/ state'[thread'[t]] = "answered" /\ token'[thread'[t]]
             /\ \A u \in Threads : thread'[u] = thread'[t] => u = t
  <2>1. thread' = thread /\ thread[t] \in Calls /\ thread[t] # c
    BY <1>5 DEF Types, OnThread
  <2> QED BY <1>2, <1>3, <1>5, <2>1 DEF PoolInv
<1> QED BY <1>2, <1>3, <1>4, <1>5 DEF PoolInv

\* A waiting or granted call leaves: the pool does not notice.
LEMMA PoolUnmoved ==
    ASSUME Types, PoolInv, UNCHANGED <<queue, thread, token>>,
           \A x \in Calls : \/ state'[x] = state[x]
                            \/ state[x] \in {"waiting", "granted", "idle"}
    PROVE  PoolInv'
<1>1. Once(queue')
  BY DEF PoolInv
<1>2. \A x \in Calls : In(queue', x) => state'[x] = "submitted"
  BY DEF PoolInv
<1>3. ASSUME NEW t \in Threads, thread'[t] # Nobody
      PROVE  /\ ~In(queue', thread'[t])
             /\ \/ state'[thread'[t]] = "submitted"
                \/ state'[thread'[t]] = "answered" /\ token'[thread'[t]]
             /\ \A u \in Threads : thread'[u] = thread'[t] => u = t
  <2>1. thread[t] \in Calls /\ thread' = thread /\ token' = token /\ queue' = queue
    BY <1>3 DEF Types
  <2> QED BY <1>3, <2>1 DEF PoolInv
<1> QED BY <1>1, <1>2, <1>3 DEF PoolInv

LEMMA ArriveKeeps == ASSUME IInv, NEW c \in Calls, Arrive(c) PROVE IInv'
<1> DEFINE k == ClassOf[c]
<1> USE DEF IInv
<1>1. /\ k \in Classes /\ ClassOf \in [Calls -> Classes] /\ Limit \in [Classes -> Nat \ {0}]
  BY AdmissionAssumption
<1>2. /\ outcome' \in [Calls -> {"none", "ok", "rate_limited", "query_timeout",
                                "starved", "cancelled"}]
      /\ thread' = thread /\ thread' \in [Threads -> Calls \cup {Nobody}]
      /\ state[c] \in {"idle", "answered"} /\ ~OnThread(c) /\ c \notin InFlight(k)
  BY DEF Arrive, Types, InFlight, Admitted
<1>3. CASE permits[k] > 0 /\ waiters[k] = <<>>
  <2>1. /\ permits' = [permits EXCEPT ![k] = @ - 1] /\ waiters' = waiters
        /\ state' = [state EXCEPT ![c] = "submitted"] /\ Submit(c)
    BY <1>3 DEF Arrive
  <2>2. /\ queue' \in Seq(Calls) /\ token' \in [Calls -> BOOLEAN]
        /\ state' \in [Calls -> Admitted \cup {"idle", "waiting", "answered"}]
        /\ PoolInv'
    BY <1>2, <2>1, SubmitKeeps
  <2>3. permits' \in [Classes -> Nat] /\ permits'[k] = permits[k] - 1 /\ permits[k] \in Nat
    BY <1>1, <1>3, <2>1 DEF Types
  <2>4. \A x \in Calls : state'[x] = IF x = c THEN "submitted" ELSE state[x]
    BY <2>1 DEF Types
  <2>5. SemInv'
    BY <1>2, <2>1, <2>4 DEF SemInv
  <2>6. PermitInv'
    <3>1. InFlight(k)' = InFlight(k) \cup {c}
      BY <2>4 DEF InFlight, Admitted
    <3>2. \A j \in Classes \ {k} : InFlight(j)' = InFlight(j) /\ permits'[j] = permits[j]
      BY <1>1, <2>1, <2>4 DEF InFlight, Types
    <3>3. /\ IsFiniteSet(InFlight(k)) /\ Cardinality(InFlight(k)) \in Nat
          /\ permits[k] + Cardinality(InFlight(k)) = Limit[k]
      BY <1>1, FS_CardinalityType DEF PermitInv
    <3>4. /\ IsFiniteSet(InFlight(k)')
          /\ Cardinality(InFlight(k)') = Cardinality(InFlight(k)) + 1
      BY <1>2, <3>1, <3>3, FS_AddElement
    <3>5. permits'[k] + Cardinality(InFlight(k)') = Limit[k]
      BY <2>3, <3>3, <3>4
    <3> QED BY <3>2, <3>4, <3>5 DEF PermitInv
  <2> QED BY <1>2, <2>1, <2>2, <2>3, <2>5, <2>6 DEF Types
<1>4. CASE ~(permits[k] > 0 /\ waiters[k] = <<>>)
  <2>1. /\ waiters' = [waiters EXCEPT ![k] = Append(@, c)]
        /\ state' = [state EXCEPT ![c] = "waiting"]
        /\ UNCHANGED <<permits, queue, token>>
    BY <1>4 DEF Arrive
  <2>2. /\ state' \in [Calls -> Admitted \cup {"idle", "waiting", "answered"}]
        /\ \A x \in Calls : state'[x] = IF x = c THEN "waiting" ELSE state[x]
    BY <2>1 DEF Types
  <2>3. waiters[k] \in Seq(Calls) /\ Once(waiters[k]) /\ ~In(waiters[k], c)
    BY <1>1, <1>2 DEF Types, SemInv
  <2> DEFINE a == Append(waiters[k], c)
  <2>4. a \in Seq(Calls) /\ Once(a) /\ \A x : In(a, x) <=> In(waiters[k], x) \/ x = c
    BY <2>3, AppendFacts
  <2> HIDE DEF a
  <2>5. /\ waiters' \in [Classes -> Seq(Calls)]
        /\ \A j \in Classes : waiters'[j] = IF j = k THEN a ELSE waiters[j]
    BY <1>1, <2>1, <2>4 DEF Types, a
  <2>6. SemInv'
    <3> SUFFICES ASSUME NEW j \in Classes
                 PROVE  /\ Once(waiters'[j])
                        /\ \A x \in Calls : In(waiters'[j], x) =>
                              ClassOf[x] = j /\ state'[x] = "waiting"
      BY DEF SemInv
    <3>1. \A x \in Calls : In(waiters[j], x) => ClassOf[x] = j /\ state'[x] = "waiting"
      BY <1>2, <2>2 DEF SemInv
    <3>2. CASE j = k
      <4>1. \A x \in Calls : In(waiters'[j], x) <=> In(waiters[j], x) \/ x = c
        BY <2>4, <2>5, <3>2
      <4>2. Once(waiters'[j]) /\ ClassOf[c] = j /\ state'[c] = "waiting"
        BY <2>2, <2>4, <2>5, <3>2
      <4> QED BY <3>1, <4>1, <4>2
    <3>3. CASE j # k
      <4>1. waiters'[j] = waiters[j]
        BY <2>5, <3>3
      <4> QED BY <3>1, <4>1 DEF SemInv
    <3> QED BY <3>2, <3>3
  <2>7. PermitInv'
    <3>1. \A x \in Calls : state'[x] \in Admitted <=> state[x] \in Admitted
      BY <1>2, <2>2 DEF Admitted
    <3> QED BY <2>1, <3>1, SameFlight
  <2>8. PoolInv'
    <3> SUFFICES ASSUME NEW t \in Threads, thread[t] # Nobody
                 PROVE  thread[t] \in Calls /\ thread[t] # c
      BY <1>2, <2>1, <2>2 DEF PoolInv
    <3> QED BY <1>2 DEF Types, OnThread
  <2> QED BY <1>2, <2>1, <2>2, <2>5, <2>6, <2>7, <2>8 DEF Types
<1> QED BY <1>3, <1>4

LEMMA ResumeKeeps == ASSUME IInv, NEW c \in Calls, Resume(c) PROVE IInv'
<1> USE DEF IInv
<1>1. /\ state[c] = "granted" /\ Submit(c) /\ state' = [state EXCEPT ![c] = "submitted"]
      /\ UNCHANGED <<outcome, permits, waiters, thread>>
  BY DEF Resume
<1>2. ~OnThread(c)
  BY <1>1, AdmissionAssumption DEF PoolInv, OnThread
<1>3. /\ queue' \in Seq(Calls) /\ token' \in [Calls -> BOOLEAN]
      /\ state' \in [Calls -> Admitted \cup {"idle", "waiting", "answered"}]
      /\ PoolInv'
  BY <1>1, <1>2, SubmitKeeps
<1>4. \A x \in Calls : state'[x] = IF x = c THEN "submitted" ELSE state[x]
  BY <1>1 DEF Types
<1>5. SemInv'
  BY <1>1, <1>4 DEF SemInv
<1>6. PermitInv'
  <2>1. \A x \in Calls : state'[x] \in Admitted <=> state[x] \in Admitted
    BY <1>1, <1>4 DEF Admitted
  <2> QED BY <1>1, <2>1, SameFlight
<1> QED BY <1>1, <1>3, <1>5, <1>6 DEF Types

\* The 1 ms wait expires, or the client leaves before the call runs.
LEMMA LeaveEarlyKeeps ==
    ASSUME IInv, NEW c \in Calls, state[c] \in {"waiting", "granted"}, LeaveSemaphore(c),
           NEW how \in {"rate_limited", "cancelled"},
           outcome' = [outcome EXCEPT ![c] = how], UNCHANGED <<queue, thread, token>>
    PROVE  IInv'
<1> USE DEF IInv
<1>1. /\ state' \in [Calls -> Admitted \cup {"idle", "waiting", "answered"}]
      /\ permits' \in [Classes -> Nat] /\ waiters' \in [Classes -> Seq(Calls)]
      /\ SemInv' /\ PermitInv'
      /\ \A x \in Calls : \/ x = c /\ state'[x] = "answered"
                          \/ x # c /\ state'[x] = state[x]
                          \/ x # c /\ state[x] = "waiting"
  BY LeaveSemaphoreKeeps
<1>2. PoolInv'
  BY <1>1, PoolUnmoved
<1> QED BY <1>1, <1>2 DEF Types

\* A call that ran, or was about to, is answered.
LEMMA LeaveKeeps ==
    ASSUME IInv, NEW c \in Calls, state[c] \in {"submitted", "returned"},
           NEW how \in {"ok", "query_timeout", "starved", "cancelled"}, Leave(c, how)
    PROVE  IInv'
<1> USE DEF IInv
<1>1. /\ Release(ClassOf[c], [state EXCEPT ![c] = "answered"])
      /\ outcome' = [outcome EXCEPT ![c] = how] /\ queue' = RemoveFirst(queue, c)
      /\ token' = [token EXCEPT ![c] = TRUE] /\ thread' = thread
      /\ state[c] \in Admitted
  BY DEF Leave, TokenExit, Admitted
<1>2. /\ state' \in [Calls -> Admitted \cup {"idle", "waiting", "answered"}]
      /\ permits' \in [Classes -> Nat] /\ waiters' \in [Classes -> Seq(Calls)]
      /\ SemInv' /\ PermitInv'
      /\ \A x \in Calls : \/ x = c /\ state'[x] = "answered"
                          \/ x # c /\ state'[x] = state[x]
                          \/ x # c /\ state[x] = "waiting"
  BY <1>1, ReleaseKeeps
<1>3. /\ queue' \in Seq(Calls) /\ Once(queue')
      /\ \A x : In(queue', x) <=> In(queue, x) /\ x # c
  <2>1. queue \in Seq(Calls) /\ Once(queue)
    BY DEF Types, PoolInv
  <2> QED BY <1>1, <2>1, RemoveFacts
<1>4. /\ outcome' \in [Calls -> {"none", "ok", "rate_limited", "query_timeout",
                                "starved", "cancelled"}]
      /\ token' \in [Calls -> BOOLEAN]
      /\ \A x \in Calls : token'[x] = IF x = c THEN TRUE ELSE token[x]
  BY <1>1 DEF Types
<1>5. PoolInv'
  <2>1. \A x \in Calls : In(queue', x) => state'[x] = "submitted"
    BY <1>2, <1>3 DEF PoolInv
  <2>2. ASSUME NEW t \in Threads, thread'[t] # Nobody
        PROVE  /\ ~In(queue', thread'[t])
               /\ \/ state'[thread'[t]] = "submitted"
                  \/ state'[thread'[t]] = "answered" /\ token'[thread'[t]]
               /\ \A u \in Threads : thread'[u] = thread'[t] => u = t
    <3>1. thread' = thread /\ thread[t] \in Calls
      BY <1>1, <2>2 DEF Types
    <3> DEFINE x == thread[t]
    <3>2. /\ ~In(queue, x)
          /\ state[x] = "submitted" \/ (state[x] = "answered" /\ token[x])
          /\ \A u \in Threads : thread[u] = x => u = t
      <4>1. thread[t] # Nobody
        BY <2>2, <3>1
      <4> QED BY <4>1 DEF PoolInv
    <3> HIDE DEF x
    <3>3. x \in Calls /\ x = thread'[t]
      BY <3>1 DEF x
    <3>4. CASE x = c
      BY <1>2, <1>3, <1>4, <3>1, <3>2, <3>3, <3>4
    <3>5. CASE x # c
      <4>1. token'[x] = token[x]
        BY <1>4, <3>3, <3>5
      <4>2. state'[x] = state[x]
        <5>1. state[x] # "waiting"
          BY <3>2
        <5> QED BY <1>2, <3>3, <3>5, <5>1
      <4> QED BY <1>3, <3>1, <3>2, <3>3, <4>1, <4>2
    <3> QED BY <3>4, <3>5
  <2> QED BY <1>3, <2>1, <2>2 DEF PoolInv
<1> QED BY <1>1, <1>2, <1>3, <1>4, <1>5 DEF Types

LEMMA PickUpKeeps == ASSUME IInv, NEW t \in Threads, PickUp(t) PROVE IInv'
<1> USE DEF IInv
<1>1. /\ thread[t] = Nobody /\ queue # <<>> /\ thread' = [thread EXCEPT ![t] = Head(queue)]
      /\ queue' = Tail(queue) /\ UNCHANGED <<state, outcome, permits, waiters, token>>
  BY DEF PickUp
<1> DEFINE h == Head(queue)
<1>2. /\ h \in Calls /\ queue' \in Seq(Calls) /\ Once(queue') /\ In(queue, h)
      /\ \A x : In(queue', x) <=> In(queue, x) /\ x # h
  <2>1. queue \in Seq(Calls) /\ Once(queue)
    BY DEF Types, PoolInv
  <2> QED BY <1>1, <2>1, TailFacts
<1>3. /\ thread' \in [Threads -> Calls \cup {Nobody}]
      /\ \A u \in Threads : thread'[u] = IF u = t THEN h ELSE thread[u]
  BY <1>1, <1>2 DEF Types
<1> HIDE DEF h
<1>4. PoolInv'
  <2>1. \A x \in Calls : In(queue', x) => state'[x] = "submitted"
    BY <1>1, <1>2 DEF PoolInv
  <2>2. \A u \in Threads : thread[u] # h
    BY <1>2, AdmissionAssumption DEF PoolInv
  <2>3. ASSUME NEW u \in Threads, thread'[u] # Nobody
        PROVE  /\ ~In(queue', thread'[u])
               /\ \/ state'[thread'[u]] = "submitted"
                  \/ state'[thread'[u]] = "answered" /\ token'[thread'[u]]
               /\ \A v \in Threads : thread'[v] = thread'[u] => v = u
    <3>1. CASE u = t
      BY <1>1, <1>2, <1>3, <2>2, <3>1 DEF PoolInv
    <3>2. CASE u # t
      BY <1>1, <1>2, <1>3, <2>2, <2>3, <3>2 DEF PoolInv
    <3> QED BY <3>1, <3>2
  <2> QED BY <1>2, <2>1, <2>3 DEF PoolInv
<1>5. SemInv'
  BY <1>1 DEF SemInv
<1>6. PermitInv'
  BY <1>1, SameFlight
<1> QED BY <1>1, <1>2, <1>3, <1>4, <1>5, <1>6 DEF Types

\* A thread is done with its call.
LEMMA ThreadFreed ==
    ASSUME Types, PoolInv, NEW t \in Threads, thread' = [thread EXCEPT ![t] = Nobody],
           UNCHANGED <<queue, token>>, thread[t] \in Calls,
           \A x \in Calls : x # thread[t] => state'[x] = state[x]
    PROVE  thread' \in [Threads -> Calls \cup {Nobody}] /\ PoolInv'
<1>1. /\ thread' \in [Threads -> Calls \cup {Nobody}]
      /\ \A u \in Threads : thread'[u] = IF u = t THEN Nobody ELSE thread[u]
  BY DEF Types
<1>2. ~In(queue, thread[t])
  BY AdmissionAssumption DEF PoolInv
<1>3. \A x \in Calls : In(queue', x) => state'[x] = "submitted"
  BY <1>2 DEF PoolInv
<1>4. ASSUME NEW u \in Threads, thread'[u] # Nobody
      PROVE  /\ ~In(queue', thread'[u])
             /\ \/ state'[thread'[u]] = "submitted"
                \/ state'[thread'[u]] = "answered" /\ token'[thread'[u]]
             /\ \A v \in Threads : thread'[v] = thread'[u] => v = u
  <2>1. u # t /\ thread'[u] = thread[u] /\ thread[u] \in Calls
    BY <1>1, <1>4
  <2>2. thread[u] # thread[t]
    BY <2>1, <1>4 DEF PoolInv
  <2>3. state'[thread[u]] = state[thread[u]]
    BY <2>1, <2>2
  <2> QED BY <1>1, <1>4, <2>1, <2>3 DEF PoolInv
<1>5. Once(queue')
  BY DEF PoolInv
<1> QED BY <1>1, <1>3, <1>4, <1>5 DEF PoolInv

LEMMA NativeReturnsKeeps == ASSUME IInv, NEW t \in Threads, NativeReturns(t) PROVE IInv'
<1> DEFINE c == thread[t]
<1> USE DEF IInv
<1>1. /\ c # Nobody /\ thread' = [thread EXCEPT ![t] = Nobody]
      /\ state' = (IF state[c] = "submitted" THEN [state EXCEPT ![c] = "returned"] ELSE state)
      /\ UNCHANGED <<outcome, permits, waiters, queue, token>>
  BY DEF NativeReturns
<1>2. c \in Calls
  BY <1>1 DEF Types
<1>3. /\ state' \in [Calls -> Admitted \cup {"idle", "waiting", "answered"}]
      /\ \A x \in Calls : x # c => state'[x] = state[x]
      /\ \A x \in Calls : \/ state'[x] = state[x]
                          \/ state[x] = "submitted" /\ state'[x] = "returned"
  BY <1>1, <1>2 DEF Types, Admitted
<1>4. thread' \in [Threads -> Calls \cup {Nobody}] /\ PoolInv'
  BY <1>1, <1>2, <1>3, ThreadFreed
<1>5. SemInv'
  BY <1>1, <1>3 DEF SemInv
<1>6. PermitInv'
  <2>1. \A x \in Calls : state'[x] \in Admitted <=> state[x] \in Admitted
    BY <1>3 DEF Admitted
  <2> QED BY <1>1, <2>1, SameFlight
<1> QED BY <1>1, <1>3, <1>4, <1>5, <1>6 DEF Types

LEMMA NativeCancelledKeeps == ASSUME IInv, NEW t \in Threads, NativeCancelled(t) PROVE IInv'
<1> USE DEF IInv
<1>1. /\ thread[t] \in Calls /\ thread' = [thread EXCEPT ![t] = Nobody]
      /\ UNCHANGED <<state, outcome, permits, waiters, queue, token>>
  BY DEF NativeCancelled, Types
<1>2. thread' \in [Threads -> Calls \cup {Nobody}] /\ PoolInv'
  BY <1>1, ThreadFreed
<1>3. SemInv' /\ PermitInv'
  BY <1>1, SameFlight DEF SemInv
<1> QED BY <1>1, <1>2, <1>3 DEF Types

LEMMA StutterKeeps == ASSUME IInv, UNCHANGED vars PROVE IInv'
<1>1. Types' /\ SemInv' /\ PoolInv'
  BY DEF IInv, vars, Types, SemInv, PoolInv
<1>2. PermitInv'
  BY SameFlight DEF IInv, vars
<1> QED BY <1>1, <1>2 DEF IInv

LEMMA NextInv == IInv /\ [Next]_vars => IInv'
<1> SUFFICES ASSUME IInv, [Next]_vars PROVE IInv'
  OBVIOUS
<1>1. ASSUME NEW c \in Calls, Arrive(c) PROVE IInv'
  BY <1>1, ArriveKeeps
<1>2. ASSUME NEW c \in Calls, Resume(c) PROVE IInv'
  BY <1>2, ResumeKeeps
<1>3. ASSUME NEW c \in Calls, Reject(c) PROVE IInv'
  BY <1>3, LeaveEarlyKeeps DEF Reject
<1>4. ASSUME NEW c \in Calls, Answer(c) PROVE IInv'
  BY <1>4, LeaveKeeps DEF Answer
<1>5. ASSUME NEW c \in Calls, TimedOut(c) PROVE IInv'
  <2>1. PICK how \in {"starved", "query_timeout"} : Leave(c, how)
    BY <1>5 DEF TimedOut
  <2> QED BY <1>5, <2>1, LeaveKeeps DEF TimedOut
<1>6. ASSUME NEW c \in Calls, ClientGone(c) PROVE IInv'
  <2>1. CASE state[c] \in {"submitted", "returned"} /\ Leave(c, "cancelled")
    BY <2>1, LeaveKeeps
  <2>2. CASE /\ state[c] \in {"waiting", "granted"} /\ LeaveSemaphore(c)
             /\ outcome' = [outcome EXCEPT ![c] = "cancelled"]
             /\ UNCHANGED <<queue, thread, token>>
    BY <2>2, LeaveEarlyKeeps
  <2> QED BY <1>6, <2>1, <2>2 DEF ClientGone
<1>7. ASSUME NEW t \in Threads, PickUp(t) PROVE IInv'
  BY <1>7, PickUpKeeps
<1>8. ASSUME NEW t \in Threads, NativeReturns(t) PROVE IInv'
  BY <1>8, NativeReturnsKeeps
<1>9. ASSUME NEW t \in Threads, NativeCancelled(t) PROVE IInv'
  BY <1>9, NativeCancelledKeeps
<1>10. CASE UNCHANGED vars
  BY <1>10, StutterKeeps
<1> QED BY <1>1, <1>2, <1>3, <1>4, <1>5, <1>6, <1>7, <1>8, <1>9, <1>10 DEF Next, CallStep

LEMMA Inductive == Spec => []IInv
<1> QED BY InitInv, NextInv, PTL DEF Spec

-----------------------------------------------------------------------------
(* Theorems                                                                *)

\* Every variable keeps its type; no semaphore exceeds its class limit.
THEOREM TypeCorrect == Spec => []TypeOK
<1> QED BY Inductive, InvImplies, PTL

\* cost_class.py: whatever the order of hand-overs, expiries of the 1 ms
\* wait, results, timeouts and disconnects, the permits of a class and its
\* calls in flight add up to its limit.
THEOREM PermitsAreConserved == Spec => []PermitsConserved
<1> QED BY Inductive, InvImplies, PTL

\* timeout.py: the pool's queue holds no call whose caller has left, and a
\* thread whose caller has left has its cancel token set.
THEOREM NoOrphanGoesUntold == Spec => []NoOrphanUntold
<1> QED BY Inductive, InvImplies, PTL

=============================================================================
