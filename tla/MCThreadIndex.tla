--------------------------- MODULE MCThreadIndex ---------------------------
(* Instances of ThreadIndex for TLC: mailboxes of three messages.           *)
EXTENDS ThreadIndex

CONSTANTS m1, m2, m3, t1

\* Headers of m1, dated day 0; of m2, within a window of both others or undated;
\* of m3, dated day 40, whose first reference may differ from what it replies to.
First == [reply : {m2, Nobody}, ref : {Nobody}, topic : {t1}, date : {0},
          cover : {TRUE}]
Second ==
    {h \in [reply : {m1, Elsewhere, Nobody}, ref : {Nobody},
            topic : {t1, Untitled}, date : {20, Undated}, cover : {TRUE}] :
        /\ h.date = Undated => h.reply = Nobody /\ h.topic = t1
        /\ h.reply = Elsewhere => h.topic = Untitled}
Third ==
    {h \in [reply : {m1, m2, Elsewhere, Nobody}, ref : {m1, Nobody},
            topic : {t1, Untitled}, date : {40}, cover : {FALSE}] :
        /\ h.topic = Untitled <=> h.reply \in {m2, Elsewhere}
        /\ h.ref = m1 => h.topic = Untitled}

Mailbox(a, b, c) ==
    [m \in Msgs |-> CASE m = m1 -> a [] m = m2 -> b [] m = m3 -> c]

\* If m1 replies to m2 then in a cycle, or to a message with a lost parent.
AnyMailbox ==
    {Mailbox(a, b, c) : a \in {h \in First : h.reply = Nobody},
                        b \in Second, c \in Third}
    \cup {Mailbox(a, b, c) : a \in First,
                             b \in {h \in Second : h.reply # Nobody}, c \in Third}

\* A first and a second version of a series, and a reply to the second.
TwoVersions ==
    {f \in AnyMailbox :
        /\ f[m2].reply = Nobody /\ f[m2].topic = t1 /\ f[m2].date = 20
        /\ f[m3].reply = m2}
==============================================================================
