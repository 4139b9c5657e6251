---------------------------- MODULE MCFeedVerdicts ----------------------------
(* Finite instances of FeedVerdicts for TLC. *)
EXTENDS FeedVerdicts

\* Two rows: the kinds of both, and how the second relates to the first.
Rows(a, b, twins, newer) == [kind |-> [i \in Items |-> IF i = 1 THEN a ELSE b],
                             twins |-> twins, newer |-> newer]
Left(a, b) == [i \in Items |-> IF i = 1 THEN a ELSE b]

Copies == {<<1, 2>>, <<2, 1>>}

\* One story twice, a release line, two rows that can never be admitted.
MCCorpora == {Rows("plain", "gated", Copies, {}), Rows("release", "release", {}, {<<2, 1>>}),
              Rows("cut", "archive", {}, {})}
MCCopies  == {Rows("plain", "gated", Copies, {})}

\* The first row stood in the feed or was new, the second was out of it or new.
MCPasts == {Left("yes", "no"), Left("none", "no"), Left("yes", "none")}
MCPast  == {Left("yes", "no")}
=============================================================================
