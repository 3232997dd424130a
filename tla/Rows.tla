-------------------------------- MODULE Rows --------------------------------
(***************************************************************************)
(* Sequences of rows: what a scan that filters, and one that stops at a    *)
(* limit, keep of them. ToSet(s), the rows of s, is SequencesExt's.        *)
(***************************************************************************)
EXTENDS Integers, SequencesExt

\* The rows of s that are in keep, in their order.
Select(s, keep) ==
    LET kept[n \in 0 .. Len(s)] ==
          IF n = 0 THEN <<>>
          ELSE IF s[n] \in keep THEN Append(kept[n - 1], s[n]) ELSE kept[n - 1]
    IN  kept[Len(s)]

\* The first n rows of s, or all of them.
FirstN(s, n) == SubSeq(s, 1, IF Len(s) < n THEN Len(s) ELSE n)
==============================================================================
