------------------------ MODULE SubscriptionsIntent ------------------------
(***************************************************************************)
(* Subscriptions with a history of what each actor was last told "202      *)
(* Accepted" for: the documented effect of an activity is compared with    *)
(* the state the relay comes to rest in.                                   *)
(***************************************************************************)
EXTENDS Subscriptions

VARIABLE intent  \* the last Follow or Undo Follow of each actor that was accepted

ivars == <<vars, intent>>

IntentInit == Init /\ intent = [a \in Actors |-> "none"]

Accepts(r) == intent' = [intent EXCEPT ![requests[r].actor] = requests[r].kind]

\* handle_undo accepts the Undo of a non-listener, and drops it.
Drops(r) == requests[r].kind = "Undo" /\ ~IsConnected(requests[r].actor)

IntentNext ==
  \/ \E r \in RequestSlots, j \in JobSlots : QueueJob(r, j) /\ Accepts(r)
  \/ \E r \in RequestSlots :
        /\ CheckConnected(r)
        /\ IF Drops(r) THEN Accepts(r) ELSE UNCHANGED intent
  \/ /\ \/ \E r \in RequestSlots, kind \in Arrivals, a \in Actors : Receive(r, kind, a)
        \/ \E r \in RequestSlots : CheckAllowed(r)
        \/ \E j \in JobSlots : JobStep(j) \/ JobError(j)
     /\ UNCHANGED intent

IntentSpec == IntentInit /\ [][IntentNext]_ivars

\* Nothing is in progress.
AtRest == /\ \A r \in RequestSlots : requests[r] = NoRequest
          /\ \A j \in JobSlots : jobs[j] = NoJob

\* README: "Undo Follow {self-actor}, stop listening on the relay".  At rest, an
\* actor whose Undo Follow was the last thing accepted of it does not listen.
UndoStopsListening ==
  AtRest => \A a \in Actors : intent[a] = "Undo" => a \notin connected

\* README: "Follow {self-actor}, become a listener of the relay, a Follow will be
\* sent back".  At rest, the relay follows an actor whose last was such a Follow.
FollowIsSentBack ==
  AtRest => \A a \in Actors : intent[a] = "FollowSelf" => a \in following
=============================================================================
