-------------------------------- MODULE Relay --------------------------------
(***************************************************************************)
(* The relay as a whole: Subscriptions, which says who listens, and        *)
(* Fanout, which sends to the listeners, over one database and behind one  *)
(* inbox (routes/inbox.rs).  Every step is a step of one of them, but for  *)
(* the inbox, whose checks are about the one and whose work is the other's,*)
(* and the restart, which is of both.                                      *)
(*                                                                         *)
(* The inbox saves the actor and then reads is_allowed and is_connected,   *)
(* at two moments, before it looks at the kind of activity: posts go the   *)
(* way the Follows of Subscriptions go.                                    *)
(***************************************************************************)
EXTENDS Subscriptions

CONSTANTS
  Objects, HomeOf, Configs, Faces, Capacity,  \* as in Fanout
  PostSlots,   \* inbox requests with a post, in progress at a time
  RelaySlots,  \* Announce and Forward jobs
  ManySlots,   \* DeliverMany jobs
  PostKinds,   \* bound: the kinds of post that arrive
  MaxPosts,    \* bound: the posts accepted, after which none arrives
  MaxFaults    \* bound: steps of Announce, Forward and DeliverMany that fail

VARIABLES
  checks,   \* the posts the inbox has not yet checked
  config, cache, posts, relayed, many, copies, accepted, faults  \* of Fanout

F == INSTANCE Fanout WITH
  Servers <- Actors, RequestSlots <- PostSlots, JobSlots <- RelaySlots,
  Arrivals <- PostKinds, MaxAccepts <- MaxPosts, MaxErrors <- MaxFaults,
  Restarts <- (MaxCrashes > 0),
  listening <- connected, requests <- posts, jobs <- relayed, errors <- faults

ASSUME RelayAssumption == F!FanoutAssumption

\* What Fanout has and Subscriptions does not, and the other way round.
fanout == <<config, cache, posts, relayed, many, copies, accepted, faults>>
subscriptions == <<saved, allowed, blocked, requests, jobs, edits, following, late, bounds>>
relayVars == <<vars, fanout, checks>>

NoCheck == [pc |-> "idle"]
Check == [pc : {"received", "allowed"}, kind : PostKinds, origin : Actors, object : Objects]

RelayInit ==
  /\ Init
  /\ F!Init
  /\ checks = [r \in PostSlots |-> NoCheck]

-----------------------------------------------------------------------------
(* The inbox handler, for an activity that is to be relayed. *)

\* actors.get finds the actor's row, or fetches the actor and saves it.
ReceivePost(r, kind, a, o) ==
  /\ checks[r] = NoCheck
  /\ F!TotalAccepted < MaxPosts
  /\ checks' = [checks EXCEPT ![r] = [pc |-> "received", kind |-> kind,
                                      origin |-> a, object |-> o]]
  /\ Meet(a)
  /\ UNCHANGED fanout

Dismiss(r) == checks' = [checks EXCEPT ![r] = NoCheck]

\* A mutated form: only Follows need permission.
CheckNoPost(r) ==
  /\ checks[r].pc = "received"
  /\ checks' = [checks EXCEPT ![r].pc = "allowed"]
  /\ UNCHANGED <<vars, fanout>>

\* db.is_allowed.
CheckPost(r) ==
  /\ checks[r].pc = "received"
  /\ IF Denied(checks[r].origin)
       THEN Dismiss(r) ELSE checks' = [checks EXCEPT ![r].pc = "allowed"]
  /\ UNCHANGED <<vars, fanout>>

\* db.is_connected, and then handle_announce or handle_forward.
AcceptPost(r) ==
  /\ checks[r].pc = "allowed"
  /\ IsConnected(checks[r].origin)
  /\ F!Accept(r, checks[r].kind, checks[r].origin, checks[r].object)
  /\ Dismiss(r)
  /\ UNCHANGED subscriptions

\* Not connected, an object in the cache, an error or a client that goes away.
DismissPost(r) ==
  /\ checks[r] # NoCheck
  /\ Dismiss(r)
  /\ UNCHANGED <<vars, fanout>>

-----------------------------------------------------------------------------
\* A step of Subscriptions, which sees nothing of posts.
SubscriptionsStep(step) == step /\ UNCHANGED <<fanout, checks>>

\* A step of Fanout, which leaves who listens to Subscriptions.
FanoutStep(step) == step /\ UNCHANGED <<subscriptions, checks>>

\* A mutated form: the DeliverMany jobs survive, to be run again.
RelayRestartAgain ==
  /\ Restart
  /\ many' = [k \in ManySlots |->
       IF many[k].pc = "none" THEN many[k] ELSE [many[k] EXCEPT !.pc = "start", !.left = {}]]
  /\ config' = [s \in Actors |-> F!NoConfig]
  /\ cache' = <<>>
  /\ posts' = [r \in PostSlots |-> F!NoRequest]
  /\ relayed' = [j \in RelaySlots |-> F!NoJob]
  /\ checks' = [r \in PostSlots |-> NoCheck]
  /\ UNCHANGED <<copies, accepted, faults>>

\* The process is restarted: what is in memory is lost on both sides.
RelayRestart ==
  /\ Restart
  /\ F!Restart
  /\ checks' = [r \in PostSlots |-> NoCheck]

PostStep(r) == CheckPost(r) \/ AcceptPost(r) \/ DismissPost(r)

QueuePost(r) == \E j \in RelaySlots : F!QueueJob(r, j)

RelayNext ==
  \/ SubscriptionsStep(Next /\ UNCHANGED crashes)
  \/ \E r \in PostSlots : PostStep(r)
  \/ \E r \in PostSlots, kind \in PostKinds, a \in Actors, o \in Objects :
        ReceivePost(r, kind, a, o)
  \/ \E r \in PostSlots : FanoutStep(QueuePost(r))
  \/ \E j \in RelaySlots : FanoutStep(F!JobStep(j) \/ F!JobError(j))
  \/ \E k \in ManySlots : FanoutStep(F!ManyStep(k) \/ F!ManyError(k))
  \/ \E s \in Actors, cfg \in Configs \cup {F!NoConfig} : FanoutStep(F!Configure(s, cfg))
  \/ RelayRestart

RelaySpec == RelayInit /\ [][RelayNext]_relayVars

(***************************************************************************)
(* Jobs and edits run to their end, as in both modules; a handler is       *)
(* polled until it answers, or dropped.  Queueing a post waits for nothing *)
(* in the code, so it is not passed over for want of a slot for ever.      *)
(***************************************************************************)
RelayFairSpec ==
  /\ RelaySpec
  /\ \A j \in JobSlots : WF_relayVars(SubscriptionsStep(JobStep(j)))
  /\ \A m \in Admins : WF_relayVars(SubscriptionsStep(EditStep(m)))
  /\ \A r \in RequestSlots : WF_relayVars(SubscriptionsStep(RequestStep(r) \/ Abandon(r)))
  /\ \A r \in PostSlots : WF_relayVars(PostStep(r)) /\ SF_relayVars(FanoutStep(QueuePost(r)))
  /\ \A j \in RelaySlots : WF_relayVars(FanoutStep(F!JobStep(j)))
  /\ \A k \in ManySlots : WF_relayVars(FanoutStep(F!ManyStep(k)))

-----------------------------------------------------------------------------
(* Properties *)

\* Something is being sent to the actor: a job has read its inbox.
Reached(a) ==
  \/ \E j \in RelaySlots : relayed[j].pc = "queue" /\ a \in relayed[j].to
  \/ \E k \in ManySlots : many[k].pc # "none" /\ a \in many[k].to \cup many[k].left

\* Something of the actor's is on its way to others.
Heard(a) ==
  \/ \E r \in PostSlots : checks[r].pc = "allowed" /\ checks[r].origin = a
  \/ \E r \in PostSlots : posts[r].pc = "queue" /\ posts[r].origin = a
  \/ \E j \in RelaySlots : relayed[j].pc # "none" /\ relayed[j].origin = a
  \/ \E k \in ManySlots : many[k].pc # "none" /\ many[k].origin = a

CutOff(a) == Barred(a) /\ ~Reached(a) /\ ~Heard(a)

\* Once what was under way when an actor was denied has drained, the denial holds
\* for deliveries and posts too: no Deliver is queued to it and no post of it is
\* taken, for as long as the lists deny it, through restarts and whatever others do.
CutOffStays ==
  [][\A a \in Actors : CutOff(a) /\ Denied(a)' =>
        /\ CutOff(a)'
        /\ \A o \in Objects : copies'[<<o, a>>] = copies[<<o, a>>]]_relayVars

\* And it does drain: an actor denied for good is cut off in the end, unless its
\* connection was made behind the edit's back.
BlockTakesEffect ==
  \A a \in Actors : <>[]Denied(a) => <>[](CutOff(a) \/ a \in late)

\* Whatever Subscriptions does to the listeners, Fanout is prepared for: what is
\* shown of Fanout, where listeners come and go at will, holds of the whole.
ImplementsFanout == F!Spec
=============================================================================
