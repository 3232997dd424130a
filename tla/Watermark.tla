------------------------------ MODULE Watermark ------------------------------
(***************************************************************************)
(* What an ingested data directory promises to its readers, without any    *)
(* process, phase, lock or tier: rows of the corpus become readable, a     *)
(* watermark per shard moves only over rows that are already readable, a   *)
(* "nothing new upstream" promise never exceeds the watermark, and the     *)
(* corpus generation moves by one.  SyncRun implements it (docs/           *)
(* architecture/data-flow.md, "Failure semantics").                        *)
(***************************************************************************)
EXTENDS Naturals

CONSTANT Shards

VARIABLES
    held,      \* [Shards -> SUBSET Nat] readable rows of each shard
    done,      \* [Shards -> Nat] every row up to here is readable
    promised,  \* [Shards -> Nat] no need to fetch the shard up to here
    epoch      \* announcements so far

vars == <<held, done, promised, epoch>>

Init ==
    /\ held = [s \in Shards |-> {}]
    /\ done = [s \in Shards |-> 0]
    /\ promised = [s \in Shards |-> 0]
    /\ epoch = 0

Hold(s) ==
    /\ held[s] \subseteq held'[s]
    /\ held' = [held EXCEPT ![s] = held'[s]]
    /\ UNCHANGED <<done, promised, epoch>>

Advance(s) ==
    /\ done'[s] > done[s]
    /\ 1 .. done'[s] \subseteq held[s]
    /\ done' = [done EXCEPT ![s] = done'[s]]
    /\ UNCHANGED <<held, promised, epoch>>

\* The promises are replaced as a whole, and may also be taken back.
Promise ==
    /\ promised' = [s \in Shards |-> promised'[s]]
    /\ \A s \in Shards : promised'[s] <= done[s]
    /\ UNCHANGED <<held, done, epoch>>

Announce ==
    /\ epoch' = epoch + 1
    /\ UNCHANGED <<held, done, promised>>

Next == (\E s \in Shards : Hold(s) \/ Advance(s)) \/ Promise \/ Announce

Spec == Init /\ [][Next]_vars

==============================================================================
