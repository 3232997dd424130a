-------------------------- MODULE MCToolAdmission --------------------------
(* Instances of ToolAdmission for TLC: cheap and moderate calls, more than  *)
(* there are permits and threads.                                           *)
EXTENDS ToolAdmission, TLC

CONSTANTS a1, m1, m2, m3, t1, t2

TwoClasses == {"cheap", "moderate"}
Class == [c \in Calls |-> IF c = a1 THEN "cheap" ELSE "moderate"]
Limits == [cheap |-> 4, moderate |-> 2]

==============================================================================
