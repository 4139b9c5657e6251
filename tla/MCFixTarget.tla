----------------------------- MODULE MCFixTarget -----------------------------
(***************************************************************************)
(* Instances of FixTarget: five versions, three advisories, each with one  *)
(* of the shapes below, and the registry answers that matter: no           *)
(* facts, everything listed, releases withdrawn, and bounds the registry   *)
(* does not list below or above its newest release.                        *)
(***************************************************************************)
EXTENDS FixTarget, TLC

W(low, end, bound) == [low |-> low, end |-> end, bound |-> bound]
Ranges(ws, ls)     == [known |-> TRUE, windows |-> ws, lists |-> ls]
NoData             == [known |-> FALSE, windows |-> {}, lists |-> {}]

MCContents == {
  NoData,
  Ranges({W(0, "fixed", 2)}, {}),
  Ranges({W(2, "fixed", 3), W(4, "fixed", 5)}, {}),
  Ranges({W(0, "fixed", 2), W(3, "fixed", 4)}, {}),
  Ranges({W(1, "fixed", 3), W(1, "fixed", 2)}, {}),
  Ranges({W(3, "lastAffected", 4), W(0, "fixed", 3)}, {}),
  Ranges({W(3, "open", 0)}, {{1}}),
  Ranges({W(3, "unknown", 0), W(1, "fixed", 2)}, {}),
  Ranges({W(2, "garbled", 0)}, {{1}}),
  Ranges({W(0, "lastAffected", 1)}, {{2, 3, 5}}) }

Facts(p, e) == [published |-> p, excluded |-> e]

MCRegistries == {
  Facts({}, {}), Facts({}, {2}),
  Facts(1..5, {}), Facts(1..5, {2}), Facts(1..5, {2, 3, 5}),
  Facts({1, 2, 5}, {}), Facts({1, 3}, {3}) }

Symmetry == Permutations(Advisories)
=============================================================================
