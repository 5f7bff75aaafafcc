----------------------- MODULE SubscriptionsIntentMC -----------------------
(* Instances of SubscriptionsIntent for TLC. *)
EXTENDS SubscriptionsIntent, Samples
=============================================================================
