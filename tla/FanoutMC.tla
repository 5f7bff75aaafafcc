------------------------------ MODULE FanoutMC ------------------------------
(* Instances of Fanout for TLC. *)
EXTENDS Fanout

MCHomeOf == [o \in Objects |-> "s1"]

\* A server that refuses the sender below the last face of the dice, and one
\* that only receives.
Picky == [probability |-> 0, enabled |-> TRUE, authorities |-> {}, allowlist |-> FALSE,
          receiveOnly |-> FALSE]
Mute == [Picky EXCEPT !.enabled = FALSE, !.receiveOnly = TRUE]

OnlyMute == {Mute}
OnlyPicky == {Picky}

Symmetry == Permutations(RequestSlots) \cup Permutations(JobSlots) \cup Permutations(ManySlots)
=============================================================================
