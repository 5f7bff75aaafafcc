------------------------------- MODULE RelayMC -------------------------------
(* Instances of Relay for TLC. *)
EXTENDS Relay, Samples

MCHomeOf == [o \in Objects |-> "else"]
=============================================================================
