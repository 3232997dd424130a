--------------------------- MODULE MCSegmentStore ---------------------------
(* Instances of SegmentStore for TLC. *)
EXTENDS SegmentStore, TLC

CONSTANTS w1, w2

WorkerSymmetry == Permutations({w1, w2})

\* Everything but a write that fails half way in a process that goes on.
TornTails == {"roll", "attempt", "crash", "power"}
ShortWrites == {"short"}

=============================================================================
