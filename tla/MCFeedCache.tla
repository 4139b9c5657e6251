----------------------------- MODULE MCFeedCache -----------------------------
(* Finite instances of FeedCache for TLC. *)
EXTENDS FeedCache, TLC

\* Readers are interchangeable, and so are background tasks.
MCSymmetry == Permutations(Readers) \cup Permutations(Tasks)
=============================================================================
