----------------------------- MODULE MCOverTier -----------------------------
(* Instances of OverTier: an over.db left by an older release with two     *)
(* rows, a cross-post among them, and a third message still to come.       *)
EXTENDS OverTier, TLC

CONSTANTS m1, m2, l1, l2

OneRowPerList == (1 :> <<m1, l1>>) @@ (3 :> <<m1, l2>>)

\* The legacy trailer table of these rows; a REPLACE left a gap in its rowids.
DenseMails  == (1 :> <<m1, l2>>) @@ (2 :> <<m1, l1>>)
GappedMails == (1 :> <<m1, l2>>) @@ (5 :> <<m1, l1>>)
=============================================================================
