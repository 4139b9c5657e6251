----------------------------- MODULE DampedFeed -----------------------------
(***************************************************************************)
(* What the verdict boundary promises to whoever reads the feed: an item   *)
(* does not enter or leave it on one run's opinion.  A standing verdict    *)
(* changes side only                                                       *)
(*   - when the change was recorded as an intent by an earlier run and is  *)
(*     now asked for again,                                                *)
(*   - when a rejection names its reason, or                               *)
(*   - when the item is an anti-bubble pick, be it brought in or turned    *)
(*     down again before the run ended.                                    *)
(* A verdict may also be withdrawn; the next one is then a first verdict.  *)
(*                                                                         *)
(* Nothing is said of who decides, of how many lanes there are or of what  *)
(* they read: FeedVerdicts implements this with an analysis cycle, a       *)
(* reconciliation sweep and a judge drain that run side by side.           *)
(***************************************************************************)
CONSTANT Items

VARIABLE feed    \* what stands for each item, and what one run has asked for

Sides == {"no", "yes"}

\* The causes a verdict that is not a plain score verdict carries.
Causes == {"none", "pick", "score_sunk_in_version", "stale_version", "llm_reject",
           "pending_retries_exhausted", "duplicate_curated", "superseded_release",
           "awaiting_judge", "stale_news", "source_not_in_feed"}

Standing == [shown : Sides \cup {"none"}, intent : Sides \cup {"none"}, cause : Causes]

Unjudged == [shown |-> "none", intent |-> "none", cause |-> "none"]

\* One item's move from a to b.
First(a, b)    == a.shown = "none" /\ b.shown \in Sides /\ b.intent = "none"
Ask(a, b)      == /\ a.shown \in Sides
                  /\ b.shown = a.shown
                  /\ b.cause = a.cause
                  /\ b.intent \in Sides \ {a.shown}
Agree(a, b)    == a.intent \in Sides /\ b.shown = a.intent /\ b.intent = "none"
Stand(a, b)    == b.shown = a.shown /\ b.intent = "none"
Reject(a, b)   == b.shown = "no" /\ b.intent = "none" /\ b.cause \notin {"none", "pick"}
Pick(a, b)     == b.shown \in Sides /\ b.intent = "none" /\ b.cause = "pick"
Withdraw(a, b) == b = Unjudged

Move(a, b) == \/ First(a, b) \/ Ask(a, b) \/ Agree(a, b) \/ Stand(a, b)
              \/ Reject(a, b) \/ Pick(a, b) \/ Withdraw(a, b)

Init == feed \in [Items -> Standing]

\* One transaction moves any number of rows.
Next == /\ feed' \in [Items -> Standing]
        /\ \A i \in Items : feed'[i] = feed[i] \/ Move(feed[i], feed'[i])

Spec == Init /\ [][Next]_feed
=============================================================================
