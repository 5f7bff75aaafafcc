---------------------------- MODULE LastOnlineMC ----------------------------
(* Instances of LastOnline for TLC. *)
EXTENDS LastOnline

MCStrategies == {"Require2XX", "Allow401AndBelow", "Allow404AndBelow"}
=============================================================================
