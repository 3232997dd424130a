---------------------------- MODULE ToolAdmission ----------------------------
(***************************************************************************)
(* Tool calls of one serving process (cost_class.py, timeout.py): a call   *)
(* takes a permit of its cost class, runs its native part on a thread of   *)
(* the event loop's default pool, and is answered by the result, by the    *)
(* wall-clock cap or by the client going away, whichever comes first.  A   *)
(* native call cannot be interrupted: it notices at its next check of the  *)
(* cancel token (timeout.rs) that nobody waits for it any more.            *)
(*                                                                         *)
(* The semaphore, the pool and wait_for are those of CPython 3.12: release *)
(* hands the permit to the oldest waiter, a waiter that times out after it *)
(* was handed a permit passes it on, and cancelling a future that has not  *)
(* started takes it out of the pool's queue.                               *)
(***************************************************************************)
EXTENDS Naturals, Sequences, FiniteSets, SequencesExt

CONSTANTS
    Calls,     \* tool calls in sight
    Classes,   \* cost classes
    ClassOf,   \* [Calls -> Classes] cost_class_of
    Limit,     \* [Classes -> Nat] _LIMITS
    Threads,   \* threads of the pool asyncio.to_thread uses
    Nobody     \* a thread that runs no call

ASSUME AdmissionAssumption ==
    /\ ClassOf \in [Calls -> Classes] /\ Limit \in [Classes -> Nat \ {0}]
    /\ Nobody \notin Calls

VARIABLES
    state,    \* [Calls -> where the coroutine is]
    outcome,  \* [Calls -> how the call was answered]
    permits,  \* [Classes -> Nat] value of the semaphore
    waiters,  \* [Classes -> Seq(Calls)] suspended in sem.acquire
    queue,    \* Seq(Calls) submitted to the pool, not started
    thread,   \* [Threads -> the call it runs]
    token     \* [Calls -> the cancel token is set]

vars == <<state, outcome, permits, waiters, queue, thread, token>>

Init ==
    /\ state = [c \in Calls |-> "idle"] /\ outcome = [c \in Calls |-> "none"]
    /\ permits = Limit /\ waiters = [k \in Classes |-> <<>>]
    /\ queue = <<>> /\ thread = [t \in Threads |-> Nobody]
    /\ token = [c \in Calls |-> FALSE]

OnThread(c) == \E t \in Threads : thread[t] = c

------------------------------------------------------------------------------
(* Admission.                                                               *)

\* The body of the tool reaches run_with_timeout.
Submit(c) ==
    /\ queue' = Append(queue, c)
    /\ token' = [token EXCEPT ![c] = FALSE]

\* A new call, past the shedding check: sem.acquire takes a permit at once
\* or waits for one behind the calls that already do.
Arrive(c) ==
    LET k == ClassOf[c] IN
    /\ state[c] \in {"idle", "answered"} /\ ~OnThread(c)
    /\ outcome' = [outcome EXCEPT ![c] = "none"]
    /\ IF permits[k] > 0 /\ waiters[k] = <<>>
       THEN /\ permits' = [permits EXCEPT ![k] = @ - 1]
            /\ state' = [state EXCEPT ![c] = "submitted"]
            /\ Submit(c)
            /\ UNCHANGED waiters
       ELSE /\ waiters' = [waiters EXCEPT ![k] = Append(@, c)]
            /\ state' = [state EXCEPT ![c] = "waiting"]
            /\ UNCHANGED <<permits, queue, token>>
    /\ UNCHANGED thread

\* sem.release: to the oldest waiter, else back to the semaphore.
Release(k, others) ==
    IF waiters[k] = <<>>
    THEN /\ permits' = [permits EXCEPT ![k] = @ + 1]
         /\ state' = others
         /\ UNCHANGED waiters
    ELSE /\ waiters' = [waiters EXCEPT ![k] = Tail(@)]
         /\ state' = [others EXCEPT ![Head(waiters[k])] = "granted"]
         /\ UNCHANGED permits

\* The waiter resumes with the permit it was handed.
Resume(c) ==
    /\ state[c] = "granted"
    /\ state' = [state EXCEPT ![c] = "submitted"]
    /\ Submit(c)
    /\ UNCHANGED <<outcome, permits, waiters, thread>>

\* wait_for(sem.acquire(), 0.001) expires: rate_limited.  A permit that was
\* handed over in the meantime is passed on.
DropsPermit(c) ==
    /\ state' = [state EXCEPT ![c] = "answered"]
    /\ waiters' = [waiters EXCEPT ![ClassOf[c]] = RemoveFirst(@, c)]
    /\ UNCHANGED permits
ReleasesAnyway(c) == Release(ClassOf[c], [state EXCEPT ![c] = "answered"])
LeaveSemaphore(c) ==
    LET left == [state EXCEPT ![c] = "answered"] IN
    IF state[c] = "granted"
    THEN Release(ClassOf[c], left)
    ELSE /\ waiters' = [waiters EXCEPT ![ClassOf[c]] = RemoveFirst(@, c)]
         /\ state' = left
         /\ UNCHANGED permits

Reject(c) ==
    /\ state[c] \in {"waiting", "granted"}
    /\ LeaveSemaphore(c)
    /\ outcome' = [outcome EXCEPT ![c] = "rate_limited"]
    /\ UNCHANGED <<queue, thread, token>>

------------------------------------------------------------------------------
(* The pool.                                                                *)

\* A free thread installs the token of the oldest queued call and runs it.
PickUp(t) ==
    /\ thread[t] = Nobody /\ queue # <<>>
    /\ thread' = [thread EXCEPT ![t] = Head(queue)]
    /\ queue' = Tail(queue)
    /\ UNCHANGED <<state, outcome, permits, waiters, token>>

\* The native call returns: with a result while its caller waits, or with
\* one that nobody reads.
NativeReturns(t) ==
    LET c == thread[t] IN
    /\ c # Nobody
    /\ thread' = [thread EXCEPT ![t] = Nobody]
    /\ state' = IF state[c] = "submitted" THEN [state EXCEPT ![c] = "returned"] ELSE state
    /\ UNCHANGED <<outcome, permits, waiters, queue, token>>

\* check_request_deadline at a batch boundary finds the token set.
NativeCancelled(t) ==
    /\ thread[t] # Nobody /\ token[thread[t]]
    /\ thread' = [thread EXCEPT ![t] = Nobody]
    /\ UNCHANGED <<state, outcome, permits, waiters, queue, token>>

------------------------------------------------------------------------------
(* Answers.  Every way out of run_with_timeout cancels the token, every way *)
(* out of the wrapper releases the permit.                                  *)

UncancelledExit(c) == UNCHANGED token
TokenExit(c) == token' = [token EXCEPT ![c] = TRUE]

Leave(c, how) ==
    /\ Release(ClassOf[c], [state EXCEPT ![c] = "answered"])
    /\ outcome' = [outcome EXCEPT ![c] = how]
    /\ queue' = RemoveFirst(queue, c)
    /\ TokenExit(c)
    /\ UNCHANGED thread

Answer(c) == state[c] = "returned" /\ Leave(c, "ok")

\* The cap, also when the result is there and the coroutine has not resumed.
\* It is seconds: a call is still queued then only if no thread was free.
UncappedRun(c) == state[c] = "returned" /\ Leave(c, "query_timeout")
TimedOut(c) ==
    /\ state[c] \in {"submitted", "returned"}
    /\ c \in ToSet(queue) => \A t \in Threads : thread[t] # Nobody
    /\ Leave(c, IF c \in ToSet(queue) THEN "starved" ELSE "query_timeout")

\* The client disconnects.
ClientGone(c) ==
    \/ state[c] \in {"submitted", "returned"} /\ Leave(c, "cancelled")
    \/ /\ state[c] \in {"waiting", "granted"}
       /\ LeaveSemaphore(c)
       /\ outcome' = [outcome EXCEPT ![c] = "cancelled"]
       /\ UNCHANGED <<queue, thread, token>>

------------------------------------------------------------------------------
CallStep(c) == Resume(c) \/ Reject(c) \/ Answer(c) \/ TimedOut(c)

Next ==
    \/ \E c \in Calls : Arrive(c) \/ CallStep(c) \/ ClientGone(c)
    \/ \E t \in Threads : PickUp(t) \/ NativeReturns(t) \/ NativeCancelled(t)

Spec == Init /\ [][Next]_vars

\* The event loop and its timers run, a free thread takes work, and a native
\* call reaches its checks.  That it returns by itself is not assumed.
FairSpec ==
    /\ Spec
    /\ \A c \in Calls : WF_vars(CallStep(c))
    /\ \A t \in Threads : WF_vars(PickUp(t)) /\ WF_vars(NativeCancelled(t))

------------------------------------------------------------------------------
(* Properties.                                                              *)

Admitted == {"granted", "submitted", "returned"}
InFlight(k) == {c \in Calls : ClassOf[c] = k /\ state[c] \in Admitted}

\* Every variable has its type.
TypeOK ==
    /\ state \in [Calls -> Admitted \cup {"idle", "waiting", "answered"}]
    /\ outcome \in [Calls -> {"none", "ok", "rate_limited", "query_timeout",
                              "starved", "cancelled"}]
    /\ \A k \in Classes : permits[k] \in 0 .. Limit[k]
    /\ DOMAIN permits = Classes /\ waiters \in [Classes -> Seq(Calls)]
    /\ queue \in Seq(Calls) /\ thread \in [Threads -> Calls \cup {Nobody}]
    /\ token \in [Calls -> BOOLEAN]

\* No permit is lost or invented, through hand-overs that race the 1 ms
\* timer, timeouts that race results and clients that leave in any state: the
\* calls in flight and the semaphore add up to the class limit.
PermitsConserved ==
    \A k \in Classes : permits[k] + Cardinality(InFlight(k)) = Limit[k]

\* The pool works for callers only: what is queued has a caller waiting, and
\* a thread whose caller has left has been told to stop (timeout.py, the
\* `finally` that cancels the token).
NoOrphanUntold ==
    /\ \A i \in DOMAIN queue : state[queue[i]] = "submitted"
    /\ \A t \in Threads :
          thread[t] # Nobody /\ state[thread[t]] = "answered" => token[thread[t]]

\* Every call is answered, also when the native part never returns by itself.
EveryCallAnswered ==
    \A c \in Calls : state[c] \in {"waiting", "granted", "submitted"} ~> state[c] = "answered"

\* A thread does not stay with a call that nobody waits for.
ThreadsComeBack ==
    \A t \in Threads, c \in Calls :
        (thread[t] = c /\ state[c] = "answered") ~> (thread[t] # c)

==============================================================================
