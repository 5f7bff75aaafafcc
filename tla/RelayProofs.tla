----------------------------- MODULE RelayProofs -----------------------------
(***************************************************************************)
(* Proofs about Relay, for every set of actors, domains, objects and slots *)
(* and any number of posts, failures and restarts.  The whole is first     *)
(* shown to be a Subscriptions and a Fanout at once, so that what is       *)
(* proved of either holds of it; what only the two together keep follows.  *)
(***************************************************************************)
EXTENDS Relay, SubscriptionsProofs

-----------------------------------------------------------------------------
(* The whole is a Subscriptions. *)

\* A step of the relay is one of Subscriptions, which sees a post only as an
\* actor met, or leaves Subscriptions alone.
LEMMA StepIsSubscriptions ==
  ASSUME [RelayNext]_relayVars
  PROVE  [Next]_vars
<1>1. CASE SubscriptionsStep(Next /\ UNCHANGED crashes)
  BY <1>1 DEF SubscriptionsStep
<1>2. ASSUME NEW r \in PostSlots, PostStep(r)
      PROVE  UNCHANGED vars
  BY <1>2 DEF PostStep, CheckPost, AcceptPost, DismissPost, F!Accept, subscriptions, vars,
              tables
<1>3. ASSUME NEW r, NEW kind, NEW a \in Actors, NEW o, ReceivePost(r, kind, a, o)
      PROVE  Next
  BY <1>3 DEF ReceivePost, Next
<1>4. ASSUME UNCHANGED subscriptions, connected' = connected
      PROVE  UNCHANGED vars
  BY <1>4 DEF subscriptions, vars, tables
<1>5. ASSUME NEW r \in PostSlots, FanoutStep(QueuePost(r))
      PROVE  UNCHANGED vars
  BY <1>4, <1>5 DEF FanoutStep, QueuePost, F!QueueJob
<1>6. ASSUME NEW j \in RelaySlots, FanoutStep(F!JobStep(j) \/ F!JobError(j))
      PROVE  UNCHANGED vars
  BY <1>4, <1>6 DEF FanoutStep, F!JobStep, F!JobError, F!CheckReceiveOnly, F!ReadInboxes,
                    F!CacheObject, F!QueueMany
<1>7. ASSUME NEW k \in ManySlots, FanoutStep(F!ManyStep(k) \/ F!ManyError(k))
      PROVE  UNCHANGED vars
  BY <1>4, <1>7 DEF FanoutStep, F!ManyStep, F!ManyError, F!ThrowDice, F!DeliverNext,
                    F!FinishMany
<1>8. ASSUME NEW s, NEW cfg, FanoutStep(F!Configure(s, cfg))
      PROVE  UNCHANGED vars
  BY <1>4, <1>8 DEF FanoutStep, F!Configure
<1>9. CASE RelayRestart
  BY <1>9 DEF RelayRestart, Next
<1>10. CASE UNCHANGED relayVars
  BY <1>10 DEF relayVars
<1> QED BY <1>1, <1>2, <1>3, <1>5, <1>6, <1>7, <1>8, <1>9, <1>10 DEF RelayNext

\* What is proved of Subscriptions, where posts are left out, holds of the whole.
THEOREM RelayIsSubscriptions == RelaySpec => Spec
<1>1. RelayInit => Init
  BY DEF RelayInit
<1> QED BY <1>1, StepIsSubscriptions, PTL DEF RelaySpec, Spec

\* What is proved of Subscriptions holds of its part of the relay.
LEMMA RelayKeepsListenersTyped == RelaySpec => [](TypeOK /\ StepsFitKind)
BY RelayIsSubscriptions, TypeCorrect, StepsAlwaysFitKind, PTL

-----------------------------------------------------------------------------
(* The whole is a Fanout. *)

\* A step of Subscriptions adds or removes one listener at most.
LEMMA ListenersChangeByOne ==
  ASSUME TypeOK, Next
  PROVE  \/ connected' = connected
         \/ \E s \in Actors : connected' \in {connected \cup {s}, connected \ {s}}
<1>1. ASSUME NEW j \in JobSlots, JobStep(j) \/ JobError(j)
      PROVE  \/ connected' = connected
             \/ \E s \in Actors : connected' \in {connected \cup {s}, connected \ {s}}
  <2>1. jobs[j].actor \in Actors
    BY <1>1 DEF JobStep, JobError, CheckFollow, FollowBack, AddConnection, SaveActor,
       QueueAccept, QueueQueries, CheckUndo, RemoveConnection, QueueUndo, TypeOK, Job, NoJob
  <2> QED
    BY <1>1, <2>1 DEF JobStep, JobError, CheckFollow, FollowBack, AddConnection, SaveActor,
       QueueAccept, QueueQueries, CheckUndo, RemoveConnection, QueueUndo, tables
<1>2. ASSUME NEW m \in Admins, EditStep(m)
      PROVE  \/ connected' = connected
             \/ \E s \in Actors : connected' \in {connected \cup {s}, connected \ {s}}
  BY <1>2 DEF EditStep, SweepOne, Block, Unallow, Unblock, Allow, Disallow
<1>3. CASE ~ \/ \E j \in JobSlots : JobStep(j) \/ JobError(j)
             \/ \E m \in Admins : EditStep(m)
  BY <1>3 DEF Next, Receive, Meet, RequestStep, CheckAllowed, CheckConnected, QueueJob,
              Abandon, StartEdit, Restart, tables
<1> QED BY <1>1, <1>2, <1>3

\* A post in the inbox is one of the kinds that arrive, from one of the actors.
ChecksTyped == checks \in [PostSlots -> Check \cup {NoCheck}]

\* A post being checked is a Check.
LEMMA CheckInUse ==
  ASSUME ChecksTyped, NEW r \in PostSlots, checks[r].pc # "idle"
  PROVE  checks[r] \in Check
BY DEF ChecksTyped, NoCheck

\* Every step keeps the posts being checked of their type.
LEMMA ChecksStayTyped == ChecksTyped /\ [RelayNext]_relayVars => ChecksTyped'
<1> SUFFICES ASSUME ChecksTyped, [RelayNext]_relayVars
             PROVE  ChecksTyped'
  OBVIOUS
<1>1. ASSUME NEW r \in PostSlots, PostStep(r)
      PROVE  ChecksTyped'
  BY <1>1, CheckInUse DEF PostStep, CheckPost, AcceptPost, DismissPost, Dismiss, ChecksTyped,
                          Check, NoCheck
<1>2. ASSUME NEW r \in PostSlots, NEW kind \in PostKinds, NEW a \in Actors, NEW o \in Objects,
             ReceivePost(r, kind, a, o)
      PROVE  ChecksTyped'
  BY <1>2 DEF ReceivePost, ChecksTyped, Check
<1>3. CASE RelayRestart
  BY <1>3 DEF RelayRestart, ChecksTyped
<1>4. CASE UNCHANGED checks
  BY <1>4 DEF ChecksTyped
<1> QED BY <1>1, <1>2, <1>3, <1>4 DEF RelayNext, SubscriptionsStep, FanoutStep, relayVars

\* They always are.
LEMMA RelayKeepsChecksTyped == RelaySpec => []ChecksTyped
<1>1. RelayInit => ChecksTyped
  BY DEF RelayInit, ChecksTyped
<1> QED BY <1>1, ChecksStayTyped, PTL DEF RelaySpec

\* To Fanout a step of Subscriptions is a change of who listens, at most, and
\* the inbox's work on a post is an Accept.
LEMMA StepIsFanout ==
  ASSUME TypeOK, ChecksTyped, [RelayNext]_relayVars
  PROVE  [F!Next]_F!vars
<1>1. ASSUME UNCHANGED fanout, connected' = connected
      PROVE  UNCHANGED F!vars
  BY <1>1 DEF fanout, F!vars
<1>2. CASE SubscriptionsStep(Next /\ UNCHANGED crashes)
  <2>1. Next /\ UNCHANGED fanout
    BY <1>2 DEF SubscriptionsStep
  <2>2. CASE connected' = connected
    BY <1>1, <2>1, <2>2
  <2>3. CASE \E s \in Actors : connected' \in {connected \cup {s}, connected \ {s}}
    BY <2>1, <2>3 DEF fanout, F!Next, F!Churn
  <2> QED BY <2>1, <2>2, <2>3, ListenersChangeByOne
<1>3. ASSUME NEW r \in PostSlots, CheckPost(r) \/ DismissPost(r)
      PROVE  UNCHANGED F!vars
  BY <1>1, <1>3 DEF CheckPost, DismissPost, vars, tables
<1>4. ASSUME NEW r \in PostSlots, NEW kind \in PostKinds, NEW a \in Actors, NEW o \in Objects,
             ReceivePost(r, kind, a, o)
      PROVE  UNCHANGED F!vars
  BY <1>1, <1>4 DEF ReceivePost, Meet
<1>5. CASE RelayRestart
  BY <1>5 DEF RelayRestart, F!Next
<1>6. CASE UNCHANGED relayVars
  BY <1>1, <1>6 DEF relayVars, vars, tables
<1>7. ASSUME NEW r \in PostSlots, AcceptPost(r)
      PROVE  F!Next
  <2>1. checks[r] \in Check
    BY <1>7, CheckInUse DEF AcceptPost
  <2> QED BY <1>7, <2>1 DEF AcceptPost, Check, F!Next
<1>8. ASSUME \/ \E r \in PostSlots : FanoutStep(QueuePost(r))
             \/ \E j \in RelaySlots : FanoutStep(F!JobStep(j) \/ F!JobError(j))
             \/ \E k \in ManySlots : FanoutStep(F!ManyStep(k) \/ F!ManyError(k))
             \/ \E s \in Actors, cfg \in Configs \cup {F!NoConfig} :
                   FanoutStep(F!Configure(s, cfg))
      PROVE  F!Next
  BY <1>8 DEF FanoutStep, QueuePost, F!Next
<1> QED BY <1>2, <1>3, <1>4, <1>5, <1>6, <1>7, <1>8 DEF RelayNext, PostStep

\* Whatever joins, leaves, sweeps and restarts do to the listeners, the relay is
\* a Fanout: what holds of it with listeners that come and go at will, such as
\* that nothing is delivered to where it lives, holds of the whole.
THEOREM RelayIsFanout == RelaySpec => ImplementsFanout
<1>1. RelayInit => F!Init
  BY DEF RelayInit
<1> QED
  BY <1>1, StepIsFanout, RelayKeepsListenersTyped, RelayKeepsChecksTyped, PTL
  DEF RelaySpec, ImplementsFanout, F!Spec

-----------------------------------------------------------------------------
(* The types of what relaying carries. *)

Carried ==
  /\ posts \in [PostSlots -> F!Request \cup {F!NoRequest}]
  /\ relayed \in [RelaySlots -> F!Job \cup {F!NoJob}]
  /\ many \in [ManySlots -> F!Many \cup {F!NoMany}]
  /\ copies \in [Objects \X Actors -> Nat]

\* A post on its way to the queue is a Request of Fanout.
LEMMA RequestInUse ==
  ASSUME Carried, NEW r \in PostSlots, posts[r] # F!NoRequest
  PROVE  posts[r] \in F!Request
BY DEF Carried

\* An Announce or Forward job in use is a Job of Fanout.
LEMMA RelayedInUse ==
  ASSUME Carried, NEW j \in RelaySlots, relayed[j].pc # "none"
  PROVE  relayed[j] \in F!Job
BY DEF Carried, F!NoJob

\* A DeliverMany in use is a Many of Fanout.
LEMMA ManyInUse ==
  ASSUME Carried, NEW k \in ManySlots, many[k].pc # "none"
  PROVE  many[k] \in F!Many
BY DEF Carried, F!NoMany

\* Posts stay well formed while they are accepted and queued.
LEMMA CarriedByRequests ==
  ASSUME TypeOK, Carried, NEW r \in PostSlots,
         \/ \E kind \in PostKinds, s \in Actors, o \in Objects : F!Accept(r, kind, s, o)
         \/ \E j \in RelaySlots : F!QueueJob(r, j)
  PROVE  Carried'
<1> USE RelayAssumption DEF F!FanoutAssumption
<1>1. ASSUME NEW kind \in PostKinds, NEW s \in Actors, NEW o \in Objects,
             F!Accept(r, kind, s, o)
      PROVE  Carried'
  <2>1. [pc |-> "queue", kind |-> kind, origin |-> s, object |-> o] \in F!Request
    BY DEF F!Request
  <2> QED BY <1>1, <2>1 DEF F!Accept, Carried
<1>2. ASSUME NEW j \in RelaySlots, F!QueueJob(r, j)
      PROVE  Carried'
  <2> DEFINE new == [pc |-> F!FirstStep(posts[r].kind), kind |-> posts[r].kind,
                     origin |-> posts[r].origin, object |-> posts[r].object,
                     to |-> {}, tries |-> 0]
  <2>1. posts[r] \in F!Request
    BY <1>2, RequestInUse DEF F!QueueJob
  <2>2. new \in F!Job
    BY <2>1 DEF F!Request, F!Job, F!FirstStep, F!Kinds
  <2>3. relayed' = [relayed EXCEPT ![j] = new]
    BY <1>2 DEF F!QueueJob
  <2> HIDE DEF new
  <2>4. relayed' \in [RelaySlots -> F!Job \cup {F!NoJob}]
    BY <2>2, <2>3 DEF Carried
  <2>5. posts' \in [PostSlots -> F!Request \cup {F!NoRequest}]
    BY <1>2 DEF F!QueueJob, Carried
  <2> QED BY <1>2, <2>4, <2>5 DEF F!QueueJob, Carried
<1> QED BY <1>1, <1>2

\* What a step of an Announce or a Forward job makes of the job.
LEMMA RelayedStep ==
  ASSUME TypeOK, Carried, NEW j \in RelaySlots, F!JobStep(j) \/ F!JobError(j)
  PROVE  /\ relayed[j] \in F!Job
         /\ relayed' = [relayed EXCEPT ![j] = relayed'[j]]
         /\ \/ relayed'[j] = F!NoJob
            \/ /\ relayed'[j] \in F!Job
               /\ relayed'[j].origin = relayed[j].origin
               /\ relayed'[j].to \in {{}, relayed[j].to,
                                      F!InboxesWithout(relayed[j].origin, relayed[j].object)}
               /\ relayed'[j].pc = "queue" => relayed'[j].to \subseteq connected
<1> USE RelayAssumption DEF F!FanoutAssumption
<1>1. relayed[j] \in F!Job
  BY RelayedInUse DEF F!JobStep, F!JobError, F!CheckReceiveOnly, F!ReadInboxes, F!QueueMany,
                      F!CacheObject
<1>2. CASE F!CheckReceiveOnly(j)
  BY <1>1, <1>2 DEF F!CheckReceiveOnly, Carried, F!Job
<1>3. CASE F!ReadInboxes(j)
  <2> DEFINE inboxes == F!InboxesWithout(relayed[j].origin, relayed[j].object)
  <2>1. inboxes \subseteq connected /\ inboxes \subseteq Actors
    BY DEF TypeOK, F!InboxesWithout
  <2>2. relayed' = [relayed EXCEPT ![j] = [relayed[j] EXCEPT !.pc = "queue", !.to = inboxes]]
    BY <1>3 DEF F!ReadInboxes, Carried
  <2> HIDE DEF inboxes
  <2>3. /\ relayed'[j] \in F!Job /\ relayed'[j].origin = relayed[j].origin
        /\ relayed'[j].to = inboxes
    BY <1>1, <2>1, <2>2 DEF F!Job, Carried
  <2>4. relayed' = [relayed EXCEPT ![j] = relayed'[j]]
    BY <2>2 DEF Carried
  <2> QED BY <1>1, <2>1, <2>3, <2>4 DEF inboxes
<1>4. ASSUME NEW k \in ManySlots, F!QueueMany(j, k)
      PROVE  /\ relayed' = [relayed EXCEPT ![j] = relayed'[j]]
             /\ \/ relayed'[j] = F!NoJob
                \/ relayed'[j] = [relayed[j] EXCEPT !.pc = "cache"]
  BY <1>4 DEF F!QueueMany, Carried
<1>5. CASE F!CacheObject(j)
  BY <1>1, <1>5 DEF F!CacheObject, Carried
<1>6. CASE F!JobError(j)
  <2>1. /\ relayed' = [relayed EXCEPT ![j] = relayed'[j]]
        /\ \/ relayed'[j] = F!NoJob
           \/ /\ relayed[j].tries # MaxTries
              /\ relayed'[j] = [relayed[j] EXCEPT !.pc = F!FirstStep(relayed[j].kind),
                                                  !.to = {}, !.tries = relayed[j].tries + 1]
    BY <1>6 DEF F!JobError, Carried
  <2>2. relayed[j].tries # MaxTries => relayed[j].tries + 1 \in 0..MaxTries
    BY <1>1 DEF F!Job
  <2>3. F!FirstStep(relayed[j].kind) \in {"start", "inboxes"}
    BY DEF F!FirstStep
  <2> QED BY <1>1, <2>1, <2>2, <2>3 DEF F!Job
<1>7. ASSUME NEW k \in ManySlots, F!QueueMany(j, k)
      PROVE  \/ relayed'[j] = F!NoJob
             \/ /\ relayed'[j] \in F!Job
                /\ relayed'[j].origin = relayed[j].origin
                /\ relayed'[j].to = relayed[j].to
                /\ relayed'[j].pc = "cache"
  BY <1>1, <1>4, <1>7 DEF F!Job
<1> QED BY <1>1, <1>2, <1>3, <1>4, <1>5, <1>6, <1>7 DEF F!JobStep

\* What QueueMany makes of a job: a DeliverMany with its inboxes and its origin.
LEMMA ManyQueued ==
  ASSUME Carried, NEW j \in RelaySlots, NEW k \in ManySlots, F!QueueMany(j, k)
  PROVE  /\ relayed[j].pc = "queue"
         /\ many' = [many EXCEPT ![k] = many'[k]]
         /\ many'[k] \in F!Many
         /\ many'[k].origin = relayed[j].origin
         /\ many'[k].to = relayed[j].to
         /\ many'[k].left = {}
         /\ copies' = copies
<1> USE RelayAssumption DEF F!FanoutAssumption
<1> DEFINE new == [pc |-> "start", to |-> relayed[j].to, left |-> {}, dice |-> 0,
                   filterable |-> relayed[j].kind = "Announce", origin |-> relayed[j].origin,
                   object |-> relayed[j].object, tries |-> 0]
<1>1. relayed[j] \in F!Job /\ relayed[j].pc = "queue"
  BY RelayedInUse DEF F!QueueMany
<1>2. /\ new \in F!Many /\ new.origin = relayed[j].origin
      /\ new.to = relayed[j].to /\ new.left = {}
  BY <1>1 DEF F!Many, F!Job
<1>3. many' = [many EXCEPT ![k] = new] /\ copies' = copies
  BY DEF F!QueueMany
<1> HIDE DEF new
<1>4. many'[k] = new
  BY <1>3 DEF Carried
<1> QED BY <1>1, <1>2, <1>3, <1>4

\* What a step of a DeliverMany makes of it and of the copies: it delivers to
\* none but its inboxes.
LEMMA ManyStep ==
  ASSUME Carried, NEW k \in ManySlots, F!ManyStep(k) \/ F!ManyError(k)
  PROVE  /\ many[k] \in F!Many /\ many[k].pc # "none"
         /\ many' = [many EXCEPT ![k] = many'[k]]
         /\ \/ many'[k] = F!NoMany
            \/ /\ many'[k] \in F!Many
               /\ many'[k].origin = many[k].origin
               /\ many'[k].to = many[k].to
               /\ many'[k].left \subseteq many[k].to \cup many[k].left
         /\ copies' \in [Objects \X Actors -> Nat]
         /\ \A o \in Objects, a \in Actors \ many[k].left : copies'[<<o, a>>] = copies[<<o, a>>]
<1> USE RelayAssumption DEF F!FanoutAssumption
<1>1. many[k] \in F!Many /\ many[k].pc # "none"
  <2>1. many[k].pc \in {"start", "deliver"}
    BY DEF F!ManyStep, F!ManyError, F!ThrowDice, F!DeliverNext, F!FinishMany
  <2> QED BY <2>1, ManyInUse
<1>2. ASSUME NEW dice \in 0..(Faces - 1), F!ThrowDice(k, dice)
      PROVE  /\ many' = [many EXCEPT ![k] = many'[k]]
             /\ many'[k] \in F!Many
             /\ many'[k].origin = many[k].origin
             /\ many'[k].to = many[k].to
             /\ many'[k].left = many[k].to
             /\ copies' = copies
  <2> DEFINE next == [many[k] EXCEPT !.pc = "deliver", !.left = many[k].to, !.dice = dice]
  <2>1. many' = [many EXCEPT ![k] = next] /\ copies' = copies
    BY <1>2 DEF F!ThrowDice, Carried
  <2>2. /\ next \in F!Many /\ next.origin = many[k].origin
        /\ next.to = many[k].to /\ next.left = many[k].to
    BY <1>1 DEF F!Many
  <2> HIDE DEF next
  <2> QED BY <2>1, <2>2 DEF Carried
<1>3. ASSUME NEW t \in Actors, F!DeliverNext(k, t)
      PROVE  /\ many' = [many EXCEPT ![k] = many'[k]]
             /\ many'[k] \in F!Many
             /\ many'[k].origin = many[k].origin
             /\ many'[k].to = many[k].to
             /\ many'[k].left \subseteq many[k].left
             /\ copies' \in [Objects \X Actors -> Nat]
             /\ \A o \in Objects, a \in Actors \ many[k].left :
                  copies'[<<o, a>>] = copies[<<o, a>>]
  <2>1. many' = [many EXCEPT ![k] = [many[k] EXCEPT !.left = many[k].left \ {t}]]
    BY <1>3 DEF F!DeliverNext, Carried
  <2>2. t \in many[k].left /\ many[k].object \in Objects
    BY <1>1, <1>3 DEF F!DeliverNext, F!Many
  <2>3. /\ copies' \in [Objects \X Actors -> Nat]
        /\ \A p \in Objects \X Actors : p # <<many[k].object, t>> => copies'[p] = copies[p]
    BY <1>3, <2>2 DEF F!DeliverNext, Carried
  <2>4. ASSUME NEW o \in Objects, NEW a \in Actors \ many[k].left
        PROVE  copies'[<<o, a>>] = copies[<<o, a>>]
    BY <2>2, <2>3, <2>4
  <2> QED BY <1>1, <2>1, <2>3, <2>4 DEF Carried, F!Many
<1>4. CASE F!FinishMany(k)
  BY <1>1, <1>4 DEF F!FinishMany, Carried
<1>5. CASE F!ManyError(k)
  <2> DEFINE again == [many[k] EXCEPT !.pc = "start", !.left = {}, !.dice = 0,
                                      !.tries = many[k].tries + 1]
  <2>1. /\ \/ many' = [many EXCEPT ![k] = F!NoMany]
           \/ many[k].tries # MaxTries /\ many' = [many EXCEPT ![k] = again]
        /\ copies' = copies
    BY <1>5 DEF F!ManyError, Carried
  <2>2. /\ 0 \in 0..(Faces - 1)
        /\ many[k].tries # MaxTries => many[k].tries + 1 \in 0..MaxTries
    BY <1>1 DEF F!Many
  <2>3. /\ many[k].tries # MaxTries => again \in F!Many
        /\ again.origin = many[k].origin /\ again.to = many[k].to /\ again.left = {}
    BY <1>1, <2>2 DEF F!Many
  <2> HIDE DEF again
  <2> QED BY <1>1, <2>1, <2>3 DEF Carried
<1>6. copies \in [Objects \X Actors -> Nat]
  BY DEF Carried
<1> QED BY <1>1, <1>2, <1>3, <1>4, <1>5, <1>6 DEF F!ManyStep

\* Every step of Fanout keeps what is carried well formed.
LEMMA CarriedStays ==
  ASSUME TypeOK, Carried, [F!Next]_F!vars
  PROVE  Carried'
<1>1. ASSUME NEW j \in RelaySlots, F!JobStep(j) \/ F!JobError(j)
      PROVE  Carried'
  <2>1. relayed' \in [RelaySlots -> F!Job \cup {F!NoJob}]
    BY <1>1, RelayedStep DEF Carried
  <2>2. posts' = posts
    BY <1>1 DEF F!JobStep, F!JobError, F!CheckReceiveOnly, F!ReadInboxes, F!QueueMany,
                F!CacheObject
  <2>3. CASE \E k \in ManySlots : F!QueueMany(j, k)
    BY <2>1, <2>2, <2>3, ManyQueued DEF Carried
  <2>4. CASE ~ \E k \in ManySlots : F!QueueMany(j, k)
    BY <1>1, <2>1, <2>2, <2>4
    DEF F!JobStep, F!JobError, F!CheckReceiveOnly, F!ReadInboxes, F!CacheObject, Carried
  <2> QED BY <2>3, <2>4
<1>2. ASSUME NEW k \in ManySlots, F!ManyStep(k) \/ F!ManyError(k)
      PROVE  Carried'
  <2>1. posts' = posts /\ relayed' = relayed
    BY <1>2 DEF F!ManyStep, F!ManyError, F!ThrowDice, F!DeliverNext, F!FinishMany
  <2> QED BY <1>2, <2>1, ManyStep DEF Carried
<1>3. CASE \/ \E s \in Actors : F!Churn(s)
           \/ \E s \in Actors, cfg \in Configs \cup {F!NoConfig} : F!Configure(s, cfg)
           \/ UNCHANGED F!vars
  BY <1>3 DEF F!Churn, F!Configure, F!vars, Carried
<1>4. CASE F!Restart
  BY <1>4 DEF F!Restart, Carried
<1> QED BY <1>1, <1>2, <1>3, <1>4, CarriedByRequests DEF F!Next

\* What relaying carries is always of its type.
LEMMA RelayKeepsCarried == RelaySpec => []Carried
<1>1. RelayInit => Carried
  BY DEF RelayInit, F!Init, Carried
<1>2. TypeOK /\ ChecksTyped /\ Carried /\ [RelayNext]_relayVars => Carried'
  BY StepIsFanout, CarriedStays
<1> QED
  BY <1>1, <1>2, RelayKeepsListenersTyped, RelayKeepsChecksTyped, PTL DEF RelaySpec

-----------------------------------------------------------------------------
(* Cut off for good. *)

\* Nothing of a cut-off actor's starts out, since its posts stop at CheckPost,
\* and what starts out for others finds it no listener.
LEMMA StepKeepsCutOff ==
  ASSUME TypeOK, StepsFitKind, ChecksTyped, Carried, [RelayNext]_relayVars,
         NEW a \in Actors, CutOff(a), Denied(a)'
  PROVE  /\ CutOff(a)'
         /\ \A o \in Objects : copies'[<<o, a>>] = copies[<<o, a>>]
<1>1. Barred(a)' /\ a \notin connected
  BY StepIsSubscriptions, StepKeepsBarred DEF CutOff, Barred
<1>2. ~Reached(a) /\ ~Heard(a) /\ Denied(a)
  BY DEF CutOff, Barred
<1> USE DEF Reached, Heard
<1>3. ASSUME UNCHANGED fanout, UNCHANGED checks
      PROVE  ~Reached(a)' /\ ~Heard(a)' /\ copies' = copies
  BY <1>2, <1>3 DEF fanout
<1>4. ASSUME NEW r \in PostSlots, CheckPost(r) \/ DismissPost(r)
      PROVE  ~Reached(a)' /\ ~Heard(a)' /\ copies' = copies
  <2>1. \A q \in PostSlots : ~(checks'[q].pc = "allowed" /\ checks'[q].origin = a)
    <3>1. CASE DismissPost(r) \/ (CheckPost(r) /\ Denied(checks[r].origin))
      BY <1>2, <3>1 DEF DismissPost, CheckPost, Dismiss, ChecksTyped, NoCheck
    <3>2. CASE CheckPost(r) /\ ~Denied(checks[r].origin)
      <4>1. checks[r] \in Check
        BY <3>2, CheckInUse DEF CheckPost
      <4>2. checks' = [checks EXCEPT ![r] = [checks[r] EXCEPT !.pc = "allowed"]]
        BY <3>2 DEF CheckPost, ChecksTyped
      <4>3. checks'[r].origin # a
        BY <1>2, <3>2, <4>1, <4>2 DEF ChecksTyped, Check
      <4> QED BY <1>2, <4>2, <4>3 DEF ChecksTyped
    <3> QED BY <1>4, <3>1, <3>2
  <2> QED BY <1>2, <1>4, <2>1 DEF CheckPost, DismissPost, fanout
<1>5. ASSUME NEW r \in PostSlots, AcceptPost(r)
      PROVE  ~Reached(a)' /\ ~Heard(a)' /\ copies' = copies
  <2>1. checks[r].pc = "allowed" /\ checks[r].origin # a
    BY <1>2, <1>5 DEF AcceptPost
  <2>2. /\ posts'[r].origin = checks[r].origin
        /\ \A q \in PostSlots \ {r} : posts'[q] = posts[q]
        /\ UNCHANGED <<relayed, many, copies>>
    BY <1>5 DEF AcceptPost, F!Accept, Carried
  <2>3. \A q \in PostSlots : ~(checks'[q].pc = "allowed" /\ checks'[q].origin = a)
    BY <1>2, <1>5 DEF AcceptPost, Dismiss, ChecksTyped, NoCheck
  <2> QED BY <1>2, <2>1, <2>2, <2>3
<1>6. ASSUME NEW r \in PostSlots, NEW kind, NEW b, NEW o, ReceivePost(r, kind, b, o)
      PROVE  ~Reached(a)' /\ ~Heard(a)' /\ copies' = copies
  BY <1>2, <1>6 DEF ReceivePost, fanout, ChecksTyped
<1>7. ASSUME NEW r \in PostSlots, NEW j \in RelaySlots, F!QueueJob(r, j), UNCHANGED checks
      PROVE  ~Reached(a)' /\ ~Heard(a)' /\ copies' = copies
  <2>1. posts[r] \in F!Request
    BY <1>7, RequestInUse DEF F!QueueJob
  <2>2. posts[r].origin # a
    BY <1>2, <2>1 DEF F!Request
  <2>3. /\ relayed'[j].origin = posts[r].origin /\ relayed'[j].to = {}
        /\ \A i \in RelaySlots \ {j} : relayed'[i] = relayed[i]
        /\ \A q \in PostSlots : posts'[q] = posts[q] \/ posts'[q] = F!NoRequest
        /\ UNCHANGED <<many, copies>>
    BY <1>7 DEF F!QueueJob, Carried
  <2> QED BY <1>2, <1>7, <2>2, <2>3 DEF F!NoRequest
<1>8. ASSUME NEW j \in RelaySlots, F!JobStep(j) \/ F!JobError(j), UNCHANGED checks
      PROVE  ~Reached(a)' /\ ~Heard(a)' /\ copies' = copies
  <2>1. posts' = posts
    BY <1>8 DEF F!JobStep, F!JobError, F!CheckReceiveOnly, F!ReadInboxes, F!QueueMany,
                F!CacheObject
  <2>2. relayed[j] \in F!Job /\ relayed[j].pc # "none" /\ relayed[j].origin # a
    BY <1>2, <1>8, RelayedStep DEF F!Job
  <2>3. /\ \A i \in RelaySlots \ {j} : relayed'[i] = relayed[i]
        /\ relayed'[j].pc # "none" => relayed'[j].origin # a
        /\ relayed'[j].pc = "queue" => a \notin relayed'[j].to
    BY <1>1, <1>8, <2>2, RelayedStep DEF Carried, F!NoJob
  <2>4. CASE \E k \in ManySlots : F!QueueMany(j, k)
    <3>1. PICK k \in ManySlots : F!QueueMany(j, k)
      BY <2>4
    <3>2. /\ \A i \in ManySlots \ {k} : many'[i] = many[i]
          /\ many'[k].origin # a /\ a \notin many'[k].to \cup many'[k].left
          /\ copies' = copies
      BY <1>2, <2>2, <3>1, ManyQueued DEF Carried
    <3> QED BY <1>2, <1>8, <2>1, <2>3, <3>2
  <2>5. CASE ~ \E k \in ManySlots : F!QueueMany(j, k)
    <3>1. UNCHANGED <<many, copies>>
      BY <1>8, <2>5 DEF F!JobStep, F!JobError, F!CheckReceiveOnly, F!ReadInboxes,
                        F!CacheObject
    <3> QED BY <1>2, <1>8, <2>1, <2>3, <3>1
  <2> QED BY <2>4, <2>5
<1>9. ASSUME NEW k \in ManySlots, F!ManyStep(k) \/ F!ManyError(k), UNCHANGED checks
      PROVE  /\ ~Reached(a)' /\ ~Heard(a)'
             /\ \A o \in Objects : copies'[<<o, a>>] = copies[<<o, a>>]
  <2>1. posts' = posts /\ relayed' = relayed
    BY <1>9 DEF F!ManyStep, F!ManyError, F!ThrowDice, F!DeliverNext, F!FinishMany
  <2>2. many[k].origin # a /\ a \notin many[k].to \cup many[k].left
    BY <1>2, <1>9, ManyStep
  <2>3. /\ \A i \in ManySlots \ {k} : many'[i] = many[i]
        /\ many'[k].pc # "none" =>
             many'[k].origin # a /\ a \notin many'[k].to \cup many'[k].left
    BY <1>9, <2>2, ManyStep DEF Carried, F!NoMany
  <2>4. \A o \in Objects : copies'[<<o, a>>] = copies[<<o, a>>]
    BY <1>9, <2>2, ManyStep
  <2> QED BY <1>2, <1>9, <2>1, <2>3, <2>4
<1>10. ASSUME NEW s, NEW cfg, F!Configure(s, cfg), UNCHANGED checks
       PROVE  ~Reached(a)' /\ ~Heard(a)' /\ copies' = copies
  BY <1>2, <1>10 DEF F!Configure
<1>11. CASE RelayRestart
  <2>1. ~Reached(a)' /\ ~Heard(a)'
    BY <1>11 DEF RelayRestart, F!Restart, F!NoRequest, F!NoJob, F!NoMany, NoCheck
  <2> QED BY <1>1, <1>11, <2>1 DEF RelayRestart, F!Restart, CutOff
<1>12. /\ ~Reached(a)' /\ ~Heard(a)'
       /\ \A o \in Objects : copies'[<<o, a>>] = copies[<<o, a>>]
  BY <1>3, <1>4, <1>5, <1>6, <1>7, <1>8, <1>9, <1>10, <1>11
  DEF RelayNext, SubscriptionsStep, FanoutStep, PostStep, QueuePost, relayVars, CutOff
<1> QED BY <1>1, <1>12 DEF CutOff

\* Once what was under way when an actor was denied has drained, the denial holds
\* for deliveries to it and posts of it, too.
THEOREM CutOffAlwaysStays == RelaySpec => CutOffStays
<1>1. TypeOK /\ StepsFitKind /\ ChecksTyped /\ Carried /\ [RelayNext]_relayVars
        => [\A a \in Actors : CutOff(a) /\ Denied(a)' =>
              /\ CutOff(a)'
              /\ \A o \in Objects : copies'[<<o, a>>] = copies[<<o, a>>]]_relayVars
  BY StepKeepsCutOff
<1> QED
  BY <1>1, RelayKeepsListenersTyped, RelayKeepsChecksTyped, RelayKeepsCarried, PTL
  DEF RelaySpec, CutOffStays
=============================================================================
