------------------------------- MODULE Fanout -------------------------------
(***************************************************************************)
(* How an activity of one listener reaches the others: handle_announce and *)
(* handle_forward of the inbox (routes/inbox.rs), the Announce and Forward *)
(* jobs (jobs/apub), DeliverMany with its per-server filter                *)
(* (jobs/deliver_many.rs) and the object cache and server configurations   *)
(* of State (data/state.rs).  A server stands for its actor, its inbox and *)
(* its authority.  Who listens is changed by Subscriptions; here it simply *)
(* changes.                                                                *)
(***************************************************************************)
EXTENDS SequencesExt

CONSTANTS
  Servers,       \* the servers that may listen
  Objects,       \* the objects they announce or act on
  HomeOf,        \* the server whose authority an object's id has
  Configs,       \* the NodeConfig records an administrator may set
  Faces,         \* what the dice shows: 0..Faces - 1, 256 faces in the code
  Capacity,      \* of the object cache, 8192 in the code
  RequestSlots,  \* accepted requests that have yet to queue their job
  JobSlots,      \* Announce and Forward jobs, waiting or running
  ManySlots,     \* DeliverMany jobs, waiting or running
  Arrivals,      \* bound: the kinds of activity that arrive
  MaxAccepts,    \* bound: the activities accepted in a behaviour
  MaxTries,      \* how often a failed job is tried again
  MaxErrors,     \* bound: job steps that fail in a behaviour
  Restarts       \* whether the process may be restarted

\* Announce and Create, against Add, Delete, Remove, Update and other Undos.
Kinds == {"Announce", "Forward"}

\* NodeConfig; the set of authorities is one of servers.
NodeConfig == [probability : 0..(Faces - 1), enabled : BOOLEAN, authorities : SUBSET Servers,
               allowlist : BOOLEAN, receiveOnly : BOOLEAN]

NoConfig == [enabled |-> "unset"]

ASSUME FanoutAssumption ==
  /\ IsFiniteSet(RequestSlots) /\ IsFiniteSet(JobSlots) /\ IsFiniteSet(ManySlots)
  /\ HomeOf \in [Objects -> Servers]
  /\ Faces \in Nat \ {0}
  /\ Capacity \in Nat \ {0}
  /\ Configs \subseteq NodeConfig
  /\ Arrivals \subseteq Kinds
  /\ MaxAccepts \in Nat
  /\ MaxTries \in Nat
  /\ MaxErrors \in Nat
  /\ Restarts \in BOOLEAN

VARIABLES
  listening,  \* the servers whose actor is connected
  config,     \* State::node_config
  cache,      \* State::object_cache, least recently used first
  requests,   \* accepted requests on their way to the job queue
  jobs,       \* the Announce and Forward jobs
  many,       \* the DeliverMany jobs
  copies,     \* the Deliver jobs queued, by object and server
  accepted,   \* the activities accepted, by object
  errors      \* job steps that have failed

vars == <<listening, config, cache, requests, jobs, many, copies, accepted, errors>>

NoRequest == [pc |-> "idle"]
Request == [pc : {"queue"}, kind : Kinds, origin : Servers, object : Objects]

NoJob == [pc |-> "none"]
Job == [pc : {"start", "inboxes", "queue", "cache"}, kind : Kinds, origin : Servers,
        object : Objects, to : SUBSET Servers, tries : 0..MaxTries]

NoMany == [pc |-> "none"]
Many == [pc : {"start", "deliver"}, to : SUBSET Servers, left : SUBSET Servers,
         dice : 0..(Faces - 1), filterable : BOOLEAN, origin : Servers, object : Objects,
         tries : 0..MaxTries]

TypeOK ==
  /\ listening \subseteq Servers
  /\ config \in [Servers -> Configs \cup {NoConfig}]
  /\ cache \in Seq(Objects) /\ Len(cache) <= Capacity /\ IsInjective(cache)
  /\ requests \in [RequestSlots -> Request \cup {NoRequest}]
  /\ jobs \in [JobSlots -> Job \cup {NoJob}]
  /\ many \in [ManySlots -> Many \cup {NoMany}]
  /\ copies \in [Objects \X Servers -> Nat]
  /\ accepted \in [Objects -> Nat]
  /\ errors \in 0..MaxErrors

Init ==
  /\ listening \in SUBSET Servers
  /\ config = [s \in Servers |-> NoConfig]
  /\ cache = <<>>
  /\ requests = [r \in RequestSlots |-> NoRequest]
  /\ jobs = [j \in JobSlots |-> NoJob]
  /\ many = [k \in ManySlots |-> NoMany]
  /\ copies = [p \in Objects \X Servers |-> 0]
  /\ accepted = [o \in Objects |-> 0]
  /\ errors = 0

-----------------------------------------------------------------------------
(* The object cache, an LRU.  contains does not refresh an entry, put does. *)

Cached(o) == \E i \in DOMAIN cache : cache[i] = o

\* The entries of the other objects; an object has at most one.
Others(o) ==
  IF Cached(o) THEN RemoveAt(cache, CHOOSE i \in DOMAIN cache : cache[i] = o) ELSE cache

\* Put without the bound.
PutUnbounded(o) == Append(Others(o), o)

Put(o) == Append(IF Len(Others(o)) >= Capacity THEN Tail(Others(o)) ELSE Others(o), o)

-----------------------------------------------------------------------------
(* The inbox, past its checks, which Relay has: handle_announce and           *)
(* handle_forward.                                                            *)

TotalAccepted == FoldSet(LAMBDA o, n : accepted[o] + n, 0, Objects)

\* An Accept that does not look in the cache.
AcceptUnchecked(r, kind, s, o) ==
  /\ requests[r] = NoRequest
  /\ TotalAccepted < MaxAccepts
  /\ requests' = [requests EXCEPT ![r] = [pc |-> "queue", kind |-> kind,
                                          origin |-> s, object |-> o]]
  /\ accepted' = [accepted EXCEPT ![o] = @ + 1]
  /\ UNCHANGED <<listening, config, cache, jobs, many, copies, errors>>

\* handle_announce answers 202 and queues nothing for an object in the cache.
Accept(r, kind, s, o) ==
  /\ requests[r] = NoRequest
  /\ TotalAccepted < MaxAccepts
  /\ kind = "Announce" => ~Cached(o)
  /\ requests' = [requests EXCEPT ![r] = [pc |-> "queue", kind |-> kind,
                                          origin |-> s, object |-> o]]
  /\ accepted' = [accepted EXCEPT ![o] = @ + 1]
  /\ UNCHANGED <<listening, config, cache, jobs, many, copies, errors>>

\* The Announce job starts with the configuration, the Forward job without.
FirstStep(kind) == IF kind = "Announce" THEN "start" ELSE "inboxes"

\* A QueueJob whose request does not end with it.
QueueJobAgain(r, j) ==
  /\ requests[r] # NoRequest
  /\ jobs[j] = NoJob
  /\ jobs' = [jobs EXCEPT ![j] =
       [pc |-> FirstStep(requests[r].kind), kind |-> requests[r].kind,
        origin |-> requests[r].origin, object |-> requests[r].object,
        to |-> {}, tries |-> 0]]
  /\ UNCHANGED <<listening, config, cache, requests, many, copies, accepted, errors>>

\* jobs.queue(...).await.
QueueJob(r, j) ==
  /\ requests[r] # NoRequest
  /\ jobs[j] = NoJob
  /\ jobs' = [jobs EXCEPT ![j] =
       [pc |-> FirstStep(requests[r].kind), kind |-> requests[r].kind,
        origin |-> requests[r].origin, object |-> requests[r].object,
        to |-> {}, tries |-> 0]]
  /\ requests' = [requests EXCEPT ![r] = NoRequest]
  /\ UNCHANGED <<listening, config, cache, many, copies, accepted, errors>>

-----------------------------------------------------------------------------
(* The Announce and Forward jobs. *)

ReceiveOnly(s) == config[s] # NoConfig /\ config[s].receiveOnly

\* A CheckReceiveOnly that lets everything through.
CheckNothing(j) ==
  /\ jobs[j].pc = "start"
  /\ jobs' = [jobs EXCEPT ![j].pc = "inboxes"]
  /\ UNCHANGED <<listening, config, cache, requests, many, copies, accepted, errors>>

\* Announce::perform drops what a receive-only server sends.
CheckReceiveOnly(j) ==
  /\ jobs[j].pc = "start"
  /\ jobs' = [jobs EXCEPT ![j] =
       IF ReceiveOnly(jobs[j].origin) THEN NoJob ELSE [@ EXCEPT !.pc = "inboxes"]]
  /\ UNCHANGED <<listening, config, cache, requests, many, copies, accepted, errors>>

\* The filter without the object's authority.
InboxesWithoutSender(s, o) == listening \ {s}

\* The filter without the sender.
InboxesWithoutHome(s, o) == listening \ {HomeOf[o]}

\* inboxes_without: neither the sender's inbox nor one where the object lives.
InboxesWithout(s, o) == listening \ {s, HomeOf[o]}

ReadInboxes(j) ==
  /\ jobs[j].pc = "inboxes"
  /\ jobs' = [jobs EXCEPT ![j].pc = "queue",
                          ![j].to = InboxesWithout(jobs[j].origin, jobs[j].object)]
  /\ UNCHANGED <<listening, config, cache, requests, many, copies, accepted, errors>>

\* An Announce is filterable, a Forward is not and ends here.
QueueMany(j, k) ==
  /\ jobs[j].pc = "queue"
  /\ many[k] = NoMany
  /\ many' = [many EXCEPT ![k] =
       [pc |-> "start", to |-> jobs[j].to, left |-> {}, dice |-> 0,
        filterable |-> jobs[j].kind = "Announce", origin |-> jobs[j].origin,
        object |-> jobs[j].object, tries |-> 0]]
  /\ jobs' = [jobs EXCEPT ![j] =
       IF jobs[j].kind = "Announce" THEN [@ EXCEPT !.pc = "cache"] ELSE NoJob]
  /\ UNCHANGED <<listening, config, cache, requests, copies, accepted, errors>>

CacheObject(j) ==
  /\ jobs[j].pc = "cache"
  /\ cache' = Put(jobs[j].object)
  /\ jobs' = [jobs EXCEPT ![j] = NoJob]
  /\ UNCHANGED <<listening, config, requests, many, copies, accepted, errors>>

\* A JobError that never tries again.
JobErrorDrops(j) ==
  /\ jobs[j].pc \in {"inboxes", "queue"}
  /\ errors < MaxErrors
  /\ errors' = errors + 1
  /\ jobs' = [jobs EXCEPT ![j] = NoJob]
  /\ UNCHANGED <<listening, config, cache, requests, many, copies, accepted>>

\* get_inboxes or queue fails; nothing can fail once DeliverMany is queued.
JobError(j) ==
  /\ jobs[j].pc \in {"inboxes", "queue"}
  /\ errors < MaxErrors
  /\ errors' = errors + 1
  /\ jobs' = [jobs EXCEPT ![j] =
       IF jobs[j].tries = MaxTries THEN NoJob
       ELSE [@ EXCEPT !.pc = FirstStep(jobs[j].kind), !.to = {},
                      !.tries = jobs[j].tries + 1]]
  /\ UNCHANGED <<listening, config, cache, requests, many, copies, accepted>>

JobStep(j) == \/ CheckReceiveOnly(j) \/ ReadInboxes(j) \/ CacheObject(j)
              \/ \E k \in ManySlots : QueueMany(j, k)

-----------------------------------------------------------------------------
(* DeliverMany. *)

\* apply_filter: whether a server with configuration cfg is sent what origin
\* announces.
ApplyFilter(dice, origin, cfg) ==
  /\ ~(cfg.enabled /\ cfg.probability < dice)
  /\ (origin \in cfg.authorities) <=> cfg.allowlist

\* One throw of the dice for all the inboxes of a run.
ThrowDice(k, dice) ==
  /\ many[k].pc = "start"
  /\ many' = [many EXCEPT ![k].pc = "deliver", ![k].left = many[k].to, ![k].dice = dice]
  /\ UNCHANGED <<listening, config, cache, requests, jobs, copies, accepted, errors>>

Passes(k, t) ==
  \/ ~many[k].filterable
  \/ config[t] = NoConfig
  \/ ApplyFilter(many[k].dice, many[k].origin, config[t])

\* The loop comes to the next inbox, and queues its Deliver or skips it.
DeliverNext(k, t) ==
  /\ many[k].pc = "deliver"
  /\ t \in many[k].left
  /\ copies' = IF Passes(k, t) THEN [copies EXCEPT ![<<many[k].object, t>>] = @ + 1]
                               ELSE copies
  /\ many' = [many EXCEPT ![k].left = @ \ {t}]
  /\ UNCHANGED <<listening, config, cache, requests, jobs, accepted, errors>>

FinishMany(k) ==
  /\ many[k].pc = "deliver"
  /\ many[k].left = {}
  /\ many' = [many EXCEPT ![k] = NoMany]
  /\ UNCHANGED <<listening, config, cache, requests, jobs, copies, accepted, errors>>

\* queue fails for one inbox; the job is run again over all of them.
ManyError(k) ==
  /\ many[k].pc = "deliver"
  /\ many[k].left # {}
  /\ errors < MaxErrors
  /\ errors' = errors + 1
  /\ many' = [many EXCEPT ![k] =
       IF many[k].tries = MaxTries THEN NoMany
       ELSE [@ EXCEPT !.pc = "start", !.left = {}, !.dice = 0, !.tries = many[k].tries + 1]]
  /\ UNCHANGED <<listening, config, cache, requests, jobs, copies, accepted>>

ManyStep(k) == \/ \E dice \in 0..(Faces - 1) : ThrowDice(k, dice)
               \/ \E t \in Servers : DeliverNext(k, t)
               \/ FinishMany(k)

-----------------------------------------------------------------------------
\* Subscriptions: a server begins or ceases to listen.
Churn(s) ==
  /\ listening' \in {listening \cup {s}, listening \ {s}}
  /\ UNCHANGED <<config, cache, requests, jobs, many, copies, accepted, errors>>

\* The administrator sets or clears an authority's configuration.
Configure(s, cfg) ==
  /\ config' = [config EXCEPT ![s] = cfg]
  /\ UNCHANGED <<listening, cache, requests, jobs, many, copies, accepted, errors>>

\* All but the database is in memory, the configurations included.
Restart ==
  /\ Restarts
  /\ config' = [s \in Servers |-> NoConfig]
  /\ cache' = <<>>
  /\ requests' = [r \in RequestSlots |-> NoRequest]
  /\ jobs' = [j \in JobSlots |-> NoJob]
  /\ many' = [k \in ManySlots |-> NoMany]
  /\ UNCHANGED <<listening, copies, accepted, errors>>

Next ==
  \/ \E r \in RequestSlots, kind \in Arrivals, s \in Servers, o \in Objects :
        Accept(r, kind, s, o)
  \/ \E r \in RequestSlots, j \in JobSlots : QueueJob(r, j)
  \/ \E j \in JobSlots : JobStep(j) \/ JobError(j)
  \/ \E k \in ManySlots : ManyStep(k) \/ ManyError(k)
  \/ \E s \in Servers : Churn(s)
  \/ \E s \in Servers, cfg \in Configs \cup {NoConfig} : Configure(s, cfg)
  \/ Restart

Spec == Init /\ [][Next]_vars

\* Workers take every queued job and poll it to its end.
Fairness == /\ \A j \in JobSlots : WF_vars(JobStep(j))
            /\ \A k \in ManySlots : WF_vars(ManyStep(k))

FairSpec == Spec /\ Fairness

-----------------------------------------------------------------------------
(* Properties *)

\* No Deliver carries an object to the server it lives on, whoever relays it and
\* however the listeners and the configurations change meanwhile.
NeverSentHome == \A o \in Objects : copies[<<o, HomeOf[o]>>] = 0

\* The object is in the cache, and no Announce of it is past the cache's check.
Settled(o) ==
  /\ Cached(o)
  /\ \A r \in RequestSlots : requests[r] # NoRequest =>
       ~(requests[r].kind = "Announce" /\ requests[r].object = o)
  /\ \A j \in JobSlots : jobs[j] # NoJob =>
       ~(jobs[j].kind = "Announce" /\ jobs[j].object = o)

\* Two Announces of an object may both pass the check before either is carried
\* out, but once those in progress are done no other begins while the object
\* stays in the cache.
SettledStaysSettled == [][\A o \in Objects : Settled(o) /\ Cached(o)' => Settled(o)']_vars

\* A listener gets no more copies of an object than activities about it were
\* accepted, plus one for every failed step: what a DeliverMany repeats when it
\* is run again.
CopiesAccountedFor ==
  \A o \in Objects, t \in Servers : copies[<<o, t>>] <= accepted[o] + errors

\* While failures stay below the retry limit, a server that listens and filters
\* nothing receives the object of every job that gets past receive_only, unless
\* it leaves or is configured, or the sender is made receive-only, meanwhile.
ListenersReceive ==
  \A j \in JobSlots, o \in Objects, s, t \in Servers :
    (/\ jobs[j].pc = "inboxes" /\ jobs[j].object = o /\ jobs[j].origin = s
     /\ t \in listening \ {s, HomeOf[o]} /\ config[t] = NoConfig)
    ~> (copies[<<o, t>>] > 0 \/ t \notin listening \/ config[t] # NoConfig \/ ReceiveOnly(s))

\* Nothing of kind sent by s is being relayed.
Silent(s, kind) ==
  /\ \A j \in JobSlots : jobs[j] # NoJob => ~(jobs[j].origin = s /\ jobs[j].kind = kind)
  /\ \A k \in ManySlots : many[k] # NoMany =>
       ~(many[k].origin = s /\ many[k].filterable = (kind = "Announce"))

\* Nothing of kind sent by s is being delivered.
Undelivered(s, kind) ==
  \A k \in ManySlots : many[k] # NoMany =>
    ~(many[k].origin = s /\ many[k].filterable = (kind = "Announce"))

\* From a moment when nothing of it is under way, no Announce or Create of a
\* server that stays receive-only is ever on its way to the listeners.
ReceiveOnlySilencesAnnounces ==
  \A s \in Servers : [](Silent(s, "Announce") /\ []ReceiveOnly(s) => []Undelivered(s, "Announce"))

\* data/node.rs: "Receive only mode. Silently drop all incoming activities."  The
\* same of every kind of activity.
ReceiveOnlyIsSilent ==
  \A s \in Servers, kind \in Kinds :
    [](Silent(s, kind) /\ []ReceiveOnly(s) => []Undelivered(s, kind))

-----------------------------------------------------------------------------
(* What Fanout implements. *)

\* What a request, a job or a DeliverMany that is in progress is about.
About(q, s, o) == q.origin = s /\ q.object = o

\* How many activities of s about o have yet to read the inboxes.
Unread(q) == q.pc \in {"start", "inboxes"}
Open(s, o) ==
  Cardinality({r \in RequestSlots : requests[r] # NoRequest /\ About(requests[r], s, o)})
    + Cardinality({j \in JobSlots : Unread(jobs[j]) /\ About(jobs[j], s, o)})

\* How many of them have t in the inboxes that they read and have yet to serve it,
\* and how many have served it and may have to again.
Unsent(q) == IF q.pc = "start" THEN q.to ELSE IF q.pc = "deliver" THEN q.left ELSE {}
Sent(q) == IF q.pc = "deliver" THEN q.to \ q.left ELSE {}

Owed(s, o, t) ==
  Cardinality({j \in JobSlots : jobs[j].pc = "queue" /\ About(jobs[j], s, o) /\ t \in jobs[j].to})
    + Cardinality({k \in ManySlots : t \in Unsent(many[k]) /\ About(many[k], s, o)})
Served(s, o, t) == Cardinality({k \in ManySlots : t \in Sent(many[k]) /\ About(many[k], s, o)})

Promise == INSTANCE Ledger WITH
  open <- [p \in Servers \X Objects |-> Open(p[1], p[2])],
  owed <- [p \in Servers \X Objects \X Servers |-> Owed(p[1], p[2], p[3])],
  served <- [p \in Servers \X Objects \X Servers |-> Served(p[1], p[2], p[3])]

\* Each accepted activity is owed once to whom the relay found listening, never
\* to its sender or the object's home, and again only to make up for a failed step,
\* wherever in the requests, the jobs and the retries it is.
ImplementsLedger == Promise!Spec
=============================================================================
