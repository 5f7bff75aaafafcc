----------------------------- MODULE CollectorMC -----------------------------
(* An instance of Collector for TLC. *)
EXTENDS Collector, TLC

Symmetry == Permutations(Snapshots)

\* Bound: jobs and samples are not mixed, for they meet in nothing but the order of
\* a snapshot's two loops.  A state with both is checked but not left.
JobsOrSamples == begun = 0 \/ \A h \in Histograms : lives[h] = 0
=============================================================================
