------------------------------ MODULE MCSearch ------------------------------
(* Instances of Search over those of ReaderQueries: queries for one tier,  *)
(* for two whose rankings differ, and with predicates only a later filter  *)
(* looks at.                                                               *)
EXTENDS Search

CONSTANTS m1, m2, m3, l1, l2

All == [date |-> 2, has |-> Facts]
Late == [date |-> 3, has |-> {"line", "file", "text"}]  \* names the address, touches no function
NoDate == [date |-> Undated, has |-> Facts]
SomeContents == {All, Late, NoDate}

SomeBatches == {<<m1>>, <<m1, m2>>}

Bounded(l, s, u) == [list |-> l, since |-> s, until |-> u]
SomeFilterings == {Bounded(Absent, Absent, Absent), Bounded(l1, Absent, Absent),
                   Bounded(l1, 2, 3)}

Ask(by, l, s, patch, text) ==
  [by |-> by, mid |-> m1, list |-> l, since |-> s, until |-> Absent, patch |-> patch, text |-> text]
SomeParsed ==
  {Ask({}, l1, Absent, FALSE, FALSE), Ask({}, Absent, 2, FALSE, FALSE),
   Ask({}, l1, Absent, FALSE, TRUE), Ask({"file"}, l1, Absent, FALSE, TRUE),
   Ask({"author"}, l1, 2, TRUE, TRUE), Ask({"mid"}, Absent, Absent, FALSE, TRUE),
   Ask({"fixes", "author"}, Absent, Absent, FALSE, FALSE),
   [Ask({}, l1, 3, FALSE, FALSE) EXCEPT !.until = 2]}

\* Three rankings of three messages.
Dated == {All, [All EXCEPT !.date = 3]}
OneBatch == {<<m1, m2, m3>>}
Order3 == <<m1, m2, m3>>
Relevant3 == <<m2, m3, m1>>
ThreeTiers == {Ask({"author"}, l1, Absent, TRUE, TRUE)}

Order == <<m1, m2>>
Relevant == <<m2, m1>>
=============================================================================
