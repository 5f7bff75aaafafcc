-------------------------- MODULE SubscriptionsMC --------------------------
(* Instances of Subscriptions for TLC. *)
EXTENDS Subscriptions, Samples

Symmetry == Permutations(RequestSlots) \cup Permutations(JobSlots)
=============================================================================
