---------------------------- MODULE MCAnalysisRun ----------------------------
(* Finite instances of AnalysisRun for TLC. *)
EXTENDS AnalysisRun, TLC

\* Runs of one kind are interchangeable.
MCSymmetry == Permutations(Foreground) \cup Permutations(Cycles)
=============================================================================
