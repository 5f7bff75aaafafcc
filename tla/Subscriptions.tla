--------------------------- MODULE Subscriptions ---------------------------
(***************************************************************************)
(* Who listens to the relay: the sled trees of connected actors and of     *)
(* allowed and blocked domains (db.rs), the inbox handler that admits a    *)
(* Follow or an Undo Follow (routes/inbox.rs), the jobs that carry them    *)
(* out (jobs/apub), and the administrator's edits of the lists             *)
(* (admin/routes.rs, telegram.rs).                                         *)
(*                                                                         *)
(* Every await of the handler and of the jobs, and every single operation  *)
(* on a tree, is a step.  Nothing orders the steps of different requests,  *)
(* jobs and administrators: each HTTP worker thread starts job servers of  *)
(* its own (main.rs), all of them over one database.                       *)
(***************************************************************************)
EXTENDS Domains

CONSTANTS
  Actors,        \* the actor ids of the servers that may subscribe
  AuthorityOf,   \* the authority of each actor id, a sequence of labels
  LabelPrefix,   \* pairs of distinct labels of which the first begins the second
  DomainNames,   \* the domains an administrator may name
  Restricted,    \* RESTRICTED_MODE
  RequestSlots,  \* inbox requests in progress at a time
  JobSlots,      \* jobs of the apub queue, waiting or running, at a time
  Admins,        \* edits of the lists in progress at a time
  Arrivals,      \* bound: the kinds of activity that arrive
  EditsMade,     \* bound: the kinds of edit that are made
  MaxTries,      \* how often a failed job is tried again
  MaxErrors,     \* bound: job steps that fail in a behaviour
  MaxCrashes     \* bound: restarts in a behaviour

\* Follow {self-actor}, Follow Public, Undo Follow, Reject Follow.
Kinds == {"FollowSelf", "FollowPublic", "Undo", "Reject"}
Follows == {"FollowSelf", "FollowPublic"}

EditKinds == {"block", "unblock", "allow", "disallow"}

ASSUME SubscriptionsAssumption ==
  /\ Arrivals \subseteq Kinds
  /\ EditsMade \subseteq EditKinds
  /\ Restricted \in BOOLEAN
  /\ MaxTries \in Nat
  /\ MaxErrors \in Nat
  /\ MaxCrashes \in Nat

VARIABLES
  connected,  \* the tree connected-actor-ids
  saved,      \* the ids with a row in the tree actor-id-actor
  allowed,    \* the tree of allowed domains
  blocked,    \* the tree of blocked domains
  requests,   \* the inbox requests in progress
  jobs,       \* the apub jobs, waiting, running or waiting for a retry
  edits,      \* the list edits in progress
  following,  \* the actors last sent a Follow, rather than an Undo Follow
  late,       \* history: the listeners that were let in behind an edit's back
  errors,     \* job steps that have failed
  crashes     \* restarts so far

tables == <<connected, saved, allowed, blocked>>
bounds == <<errors, crashes>>
vars == <<tables, requests, jobs, edits, following, late, bounds>>

-----------------------------------------------------------------------------
(* Requests, jobs and edits. *)

NoRequest == [pc |-> "idle"]
Request == [pc : {"received", "allowed", "accepted"}, kind : Kinds, actor : Actors]

NoJob == [pc |-> "none"]
Job == [pc : {"start", "followBack", "addConnection", "saveActor", "accept",
              "query", "remove", "removeQuietly", "undo"},
        kind : Kinds, actor : Actors, tries : 0..MaxTries]

\* Where a job begins, and begins again when it is retried.
FirstStep(kind) == IF kind = "Reject" THEN "remove" ELSE "start"

NewJob(kind, a) == [pc |-> FirstStep(kind), kind |-> kind, actor |-> a, tries |-> 0]

NoEdit == [kind |-> "none"]

\* todo: the domains still to be written; unswept: the actors the sweep has
\* not reached; unallow: the domain blocked but not yet taken off allowed.
Edit == [kind : EditKinds, todo : SUBSET DomainNames, unswept : SUBSET Actors,
         unallow : SUBSET DomainNames]

TypeOK ==
  /\ connected \subseteq Actors
  /\ saved \subseteq Actors
  /\ allowed \subseteq DomainNames
  /\ blocked \subseteq DomainNames
  /\ requests \in [RequestSlots -> Request \cup {NoRequest}]
  /\ jobs \in [JobSlots -> Job \cup {NoJob}]
  /\ edits \in [Admins -> Edit \cup {NoEdit}]
  /\ following \subseteq Actors
  /\ late \subseteq connected
  /\ errors \in 0..MaxErrors
  /\ crashes \in 0..MaxCrashes

-----------------------------------------------------------------------------
(* What the database answers. *)

\* The lists turn the actor away.
Denied(a) == ~IsAllowed(Restricted, allowed, blocked, AuthorityOf[a])

\* Db::is_connected: some connected id begins with the actor's authority.
IsConnected(a) ==
  \E b \in connected : UrlPrefix(LabelPrefix, AuthorityOf[a], AuthorityOf[b])

\* The edits that disconnect: add_blocks, and remove_allows in restricted mode.
Sweeps(kind) == kind = "block" \/ (kind = "disallow" /\ Restricted)

\* An edit that has still to write a domain above the actor has swept past it.
SweptPast(m, a) ==
  /\ edits[m].kind \in EditKinds
  /\ Sweeps(edits[m].kind)
  /\ a \notin edits[m].unswept
  /\ \E d \in edits[m].todo : KeyMatches(d, AuthorityOf[a])

\* A Follow of the actor is past the check of the lists and not settled.
FollowAdmitted(a) ==
  \/ \E r \in RequestSlots : /\ requests[r].pc \in {"allowed", "accepted"}
                             /\ requests[r].kind \in Follows
                             /\ requests[r].actor = a
  \/ \E j \in JobSlots : /\ jobs[j].pc # "none"
                         /\ jobs[j].kind \in Follows
                         /\ jobs[j].actor = a

-----------------------------------------------------------------------------
(* The inbox handler, routes/inbox.rs. *)

Advance(r, pc) == requests' = [requests EXCEPT ![r].pc = pc]
Answer(r) == requests' = [requests EXCEPT ![r] = NoRequest]

\* A mutated form: get_no_cache returns the fetched actor without saving it.
ReceiveUnsaved(r, kind, a) ==
  /\ requests[r] = NoRequest
  /\ requests' = [requests EXCEPT ![r] = [pc |-> "received", kind |-> kind, actor |-> a]]
  /\ UNCHANGED <<tables, jobs, edits, following, late, bounds>>

\* An activity arrives; actors.get finds the actor's row, or fetches the actor
\* and saves it.  An actor that cannot be fetched ends the request at once.
Receive(r, kind, a) ==
  /\ requests[r] = NoRequest
  /\ requests' = [requests EXCEPT ![r] = [pc |-> "received", kind |-> kind, actor |-> a]]
  /\ saved' = saved \cup {a}
  /\ UNCHANGED <<connected, allowed, blocked, jobs, edits, following, late, bounds>>

\* An activity of another kind arrives, to be refused, dropped or relayed: its
\* actor, too, is found or fetched and saved before it is looked at.
Meet(a) ==
  /\ saved' = saved \cup {a}
  /\ UNCHANGED <<connected, allowed, blocked, requests, jobs, edits, following, late, bounds>>

\* A mutated form: a Follow needs no listener, and no permission either.
CheckAllowedButFollows(r) ==
  /\ requests[r].pc = "received"
  /\ IF Denied(requests[r].actor) /\ requests[r].kind \notin Follows
       THEN Answer(r) ELSE Advance(r, "allowed")
  /\ UNCHANGED <<tables, jobs, edits, following, late, bounds>>

\* The first await, db.is_allowed.  NotAllowed is answered after is_connected
\* has been read too, which then changes nothing.
CheckAllowed(r) ==
  /\ requests[r].pc = "received"
  /\ IF Denied(requests[r].actor) THEN Answer(r) ELSE Advance(r, "allowed")
  /\ UNCHANGED <<tables, jobs, edits, following, late, bounds>>

\* The second await, db.is_connected.  Without a listener only a Follow or the
\* Undo of one is valid, and that Undo is accepted and dropped by handle_undo.
CheckConnected(r) ==
  /\ requests[r].pc = "allowed"
  /\ IF requests[r].kind \in Follows \/ IsConnected(requests[r].actor)
       THEN Advance(r, "accepted") ELSE Answer(r)
  /\ UNCHANGED <<tables, jobs, edits, following, late, bounds>>

\* The third await: handle_follow, handle_undo or handle_reject queues its job.
QueueJob(r, j) ==
  /\ requests[r].pc = "accepted"
  /\ jobs[j] = NoJob
  /\ jobs' = [jobs EXCEPT ![j] = NewJob(requests[r].kind, requests[r].actor)]
  /\ Answer(r)
  /\ UNCHANGED <<tables, edits, following, late, bounds>>

\* An await fails, or the client goes away and the handler is dropped with it.
Abandon(r) ==
  /\ requests[r] # NoRequest
  /\ Answer(r)
  /\ UNCHANGED <<tables, jobs, edits, following, late, bounds>>

-----------------------------------------------------------------------------
(* The jobs, jobs/apub/follow.rs, undo.rs and reject.rs. *)

Goto(j, pc) == jobs' = [jobs EXCEPT ![j].pc = pc]
Finish(j) == jobs' = [jobs EXCEPT ![j] = NoJob]

\* Follow: a Follow of the relay itself is returned unless its server is
\* already connected.
CheckFollow(j) ==
  /\ jobs[j].pc = "start"
  /\ jobs[j].kind \in Follows
  /\ IF jobs[j].kind = "FollowSelf" /\ ~IsConnected(jobs[j].actor)
       THEN Goto(j, "followBack") ELSE Goto(j, "addConnection")
  /\ UNCHANGED <<tables, requests, edits, following, late, bounds>>

\* Queues the Deliver of a Follow to the actor's inbox.
FollowBack(j) ==
  /\ jobs[j].pc = "followBack"
  /\ following' = following \cup {jobs[j].actor}
  /\ Goto(j, "addConnection")
  /\ UNCHANGED <<tables, requests, edits, late, bounds>>

\* A connection made now is not going to be swept, or was swept already.
LetInLate(a) == Denied(a) \/ \E m \in Admins : SweptPast(m, a)

\* ActorCache::add_connection, its first half: the connected id.
AddConnection(j) ==
  /\ jobs[j].pc = "addConnection"
  /\ connected' = connected \cup {jobs[j].actor}
  /\ late' = IF jobs[j].actor \in connected \/ ~LetInLate(jobs[j].actor)
               THEN late ELSE late \cup {jobs[j].actor}
  /\ Goto(j, "saveActor")
  /\ UNCHANGED <<saved, allowed, blocked, requests, edits, following, bounds>>

\* ActorCache::add_connection, its second half: the actor's row.
SaveActor(j) ==
  /\ jobs[j].pc = "saveActor"
  /\ saved' = saved \cup {jobs[j].actor}
  /\ Goto(j, "accept")
  /\ UNCHANGED <<connected, allowed, blocked, requests, edits, following, late, bounds>>

\* Queues the Deliver of the Accept, then the QueryInstance and QueryNodeinfo
\* jobs.  Other queues run those jobs; here each is a place to fail.
QueueAccept(j) ==
  /\ jobs[j].pc = "accept"
  /\ Goto(j, "query")
  /\ UNCHANGED <<tables, requests, edits, following, late, bounds>>

QueueQueries(j) ==
  /\ jobs[j].pc = "query"
  /\ Finish(j)
  /\ UNCHANGED <<tables, requests, edits, following, late, bounds>>

\* A mutated form: an Undo whose server is connected is only answered.
CheckUndoAnswers(j) ==
  /\ jobs[j].pc = "start"
  /\ jobs[j].kind = "Undo"
  /\ Goto(j, IF IsConnected(jobs[j].actor) THEN "undo" ELSE "removeQuietly")
  /\ UNCHANGED <<tables, requests, edits, following, late, bounds>>

\* Undo: an Undo Follow is returned if the actor's server was connected.
CheckUndo(j) ==
  /\ jobs[j].pc = "start"
  /\ jobs[j].kind = "Undo"
  /\ Goto(j, IF IsConnected(jobs[j].actor) THEN "remove" ELSE "removeQuietly")
  /\ UNCHANGED <<tables, requests, edits, following, late, bounds>>

\* Undo and Reject: ActorCache::remove_connection.
RemoveConnection(j) ==
  /\ jobs[j].pc \in {"remove", "removeQuietly"}
  /\ connected' = connected \ {jobs[j].actor}
  /\ late' = late \ {jobs[j].actor}
  /\ IF jobs[j].pc = "remove" THEN Goto(j, "undo") ELSE Finish(j)
  /\ UNCHANGED <<saved, allowed, blocked, requests, edits, following, bounds>>

\* Queues the Deliver of an Undo Follow to the actor's inbox.
QueueUndo(j) ==
  /\ jobs[j].pc = "undo"
  /\ following' = following \ {jobs[j].actor}
  /\ Finish(j)
  /\ UNCHANGED <<tables, requests, edits, late, bounds>>

\* Two mutated forms: a failed job is not run again, and one is run for ever.
JobErrorDrops(j) ==
  /\ jobs[j] # NoJob
  /\ errors < MaxErrors
  /\ errors' = errors + 1
  /\ Finish(j)
  /\ UNCHANGED <<tables, requests, edits, following, late, crashes>>

JobErrorForever(j) ==
  /\ jobs[j] # NoJob
  /\ errors < MaxErrors
  /\ errors' = errors + 1
  /\ jobs' = [jobs EXCEPT ![j].pc = FirstStep(jobs[j].kind), ![j].tries = @ + 1]
  /\ UNCHANGED <<tables, requests, edits, following, late, crashes>>

\* The step the job has come to returns an error.  The job server runs it again
\* from the start, with the arguments it was queued with, or gives it up.
JobError(j) ==
  /\ jobs[j] # NoJob
  /\ errors < MaxErrors
  /\ errors' = errors + 1
  /\ IF jobs[j].tries < MaxTries
       THEN jobs' = [jobs EXCEPT ![j].pc = FirstStep(jobs[j].kind), ![j].tries = @ + 1]
       ELSE Finish(j)
  /\ UNCHANGED <<tables, requests, edits, following, late, crashes>>

JobStep(j) ==
  \/ CheckFollow(j) \/ FollowBack(j) \/ AddConnection(j) \/ SaveActor(j)
  \/ QueueAccept(j) \/ QueueQueries(j)
  \/ CheckUndo(j) \/ RemoveConnection(j) \/ QueueUndo(j)

-----------------------------------------------------------------------------
(* The administrator's edits: db.rs add_blocks, remove_blocks, add_allows and *)
(* remove_allows, each a loop on a blocking thread with no transaction.       *)

\* The edit with one more domain written, over when it was the last.
Written(edit, d) ==
  IF edit.todo \subseteq {d} THEN NoEdit
  ELSE [edit EXCEPT !.todo = @ \ {d}, !.unallow = {}]

StartEdit(m, kind, domains) ==
  /\ edits[m] = NoEdit
  /\ edits' = [edits EXCEPT ![m] =
                 [kind |-> kind, todo |-> domains, unallow |-> {},
                  unswept |-> IF Sweeps(kind) THEN Actors ELSE {}]]
  /\ UNCHANGED <<tables, requests, jobs, following, late, bounds>>

\* The iterator over connected_by_domain reaches the place of one actor id.
SweepOne(m, a) ==
  /\ edits[m].kind \in EditKinds
  /\ a \in edits[m].unswept
  /\ edits' = [edits EXCEPT ![m].unswept = @ \ {a}]
  /\ IF \E d \in edits[m].todo : KeyMatches(d, AuthorityOf[a])
       THEN connected' = connected \ {a} /\ late' = late \ {a}
       ELSE UNCHANGED <<connected, late>>
  /\ UNCHANGED <<saved, allowed, blocked, requests, jobs, following, bounds>>

\* A mutated form: the lists are written before the sweep is over.
WritesUnswept(m, kind, d) ==
  /\ edits[m].kind = kind
  /\ d \in edits[m].todo

\* The second loop has come to domain d, in the edit's turn to write it.
Writes(m, kind, d) ==
  /\ edits[m].kind = kind
  /\ edits[m].unswept = {}
  /\ d \in edits[m].todo

\* add_blocks inserts the blocked domain ...
Block(m, d) ==
  /\ Writes(m, "block", d)
  /\ edits[m].unallow = {}
  /\ blocked' = blocked \cup {d}
  /\ edits' = [edits EXCEPT ![m].unallow = {d}]
  /\ UNCHANGED <<connected, saved, allowed, requests, jobs, following, late, bounds>>

\* ... and then removes it from the allowed ones.
Unallow(m, d) ==
  /\ Writes(m, "block", d)
  /\ edits[m].unallow = {d}
  /\ allowed' = allowed \ {d}
  /\ edits' = [edits EXCEPT ![m] = Written(@, d)]
  /\ UNCHANGED <<connected, saved, blocked, requests, jobs, following, late, bounds>>

Unblock(m, d) ==
  /\ Writes(m, "unblock", d)
  /\ blocked' = blocked \ {d}
  /\ edits' = [edits EXCEPT ![m] = Written(@, d)]
  /\ UNCHANGED <<connected, saved, allowed, requests, jobs, following, late, bounds>>

Allow(m, d) ==
  /\ Writes(m, "allow", d)
  /\ allowed' = allowed \cup {d}
  /\ edits' = [edits EXCEPT ![m] = Written(@, d)]
  /\ UNCHANGED <<connected, saved, blocked, requests, jobs, following, late, bounds>>

Disallow(m, d) ==
  /\ Writes(m, "disallow", d)
  /\ allowed' = allowed \ {d}
  /\ edits' = [edits EXCEPT ![m] = Written(@, d)]
  /\ UNCHANGED <<connected, saved, blocked, requests, jobs, following, late, bounds>>

EditStep(m) ==
  \/ \E a \in Actors : SweepOne(m, a)
  \/ \E d \in DomainNames : \/ Block(m, d) \/ Unallow(m, d) \/ Unblock(m, d)
                            \/ Allow(m, d) \/ Disallow(m, d)

-----------------------------------------------------------------------------
\* The process is restarted: requests, edits and the jobs, whose storage is in
\* memory, are gone; the trees are what they were.
Restart ==
  /\ crashes < MaxCrashes
  /\ crashes' = crashes + 1
  /\ requests' = [r \in RequestSlots |-> NoRequest]
  /\ jobs' = [j \in JobSlots |-> NoJob]
  /\ edits' = [m \in Admins |-> NoEdit]
  /\ UNCHANGED <<tables, following, late, errors>>

Init ==
  /\ connected = {}
  /\ saved = {}
  /\ allowed = {}
  /\ blocked = {}
  /\ requests = [r \in RequestSlots |-> NoRequest]
  /\ jobs = [j \in JobSlots |-> NoJob]
  /\ edits = [m \in Admins |-> NoEdit]
  /\ following = {}
  /\ late = {}
  /\ errors = 0
  /\ crashes = 0

RequestStep(r) ==
  \/ CheckAllowed(r)
  \/ CheckConnected(r)
  \/ \E j \in JobSlots : QueueJob(r, j)

Next ==
  \/ \E r \in RequestSlots, kind \in Arrivals, a \in Actors : Receive(r, kind, a)
  \/ \E a \in Actors : Meet(a)
  \/ \E r \in RequestSlots : RequestStep(r) \/ Abandon(r)
  \/ \E j \in JobSlots : JobStep(j) \/ JobError(j)
  \/ \E m \in Admins, kind \in EditsMade, domains \in (SUBSET DomainNames) \ {{}} :
        StartEdit(m, kind, domains)
  \/ \E m \in Admins : EditStep(m)
  \/ Restart

Spec == Init /\ [][Next]_vars

(***************************************************************************)
(* A worker that has taken a job keeps polling it, and a blocking thread   *)
(* runs its loop to the end.  Nothing is assumed of requests, errors,      *)
(* administrators or restarts.                                             *)
(***************************************************************************)
Fairness == /\ \A j \in JobSlots : WF_vars(JobStep(j))
            /\ \A m \in Admins : WF_vars(EditStep(m))

FairSpec == Spec /\ Fairness

-----------------------------------------------------------------------------
(* Properties *)

\* Db::inboxes skips a connected id that has no actor row, so every listener
\* must have one, from the moment its id is inserted and across restarts.
ListenersHaveActors == connected \subseteq saved

\* An actor that the lists turn away is still a listener only if its connection
\* was made while the edit was past it or done: the edit's own sweep, in whatever
\* order it meets the ids and whoever joins meanwhile, leaves nobody behind.
DeniedListenersAreLate == \A a \in connected : Denied(a) => a \in late

\* What is_allowed finds by scanning from the key of two labels is what a list
\* says, a name standing for itself and all below it; only a name of one label,
\* whose tree the scan never reaches, says nothing of longer ones.
ScanAgreesWithNames ==
  \A list \in {allowed, blocked}, a \in Actors :
    ListMatches(list, AuthorityOf[a])
      <=> \E d \in list : /\ IsSuffix(d, AuthorityOf[a])
                          /\ Len(d) >= 2 \/ Len(AuthorityOf[a]) = 1

\* Out, turned away, and no Follow admitted earlier is left to be carried out.
Barred(a) == Denied(a) /\ a \notin connected /\ ~FollowAdmitted(a)

\* Once the Follows admitted before a block have drained, the block holds: no
\* step, retry or restart lets the actor in until the lists allow it again.
BarredStaysOut == [][\A a \in Actors : Barred(a) /\ Denied(a)' => Barred(a)']_vars

\* The relay's promise, with nothing of how it is kept.
Promise == INSTANCE Listeners WITH
  listeners <- connected,
  admitted <- {a \in Actors : FollowAdmitted(a)},
  denied <- {a \in Actors : Denied(a)}

ImplementsPromise == Promise!Spec

\* Unless more steps fail than one job is tried again for, or the process goes
\* down, a Follow job makes its actor a listener, whichever steps are run again.
FollowJoins ==
  \A j \in JobSlots, a \in Actors :
    (jobs[j].pc = "start" /\ jobs[j].kind \in Follows /\ jobs[j].actor = a)
      ~> (a \in connected \/ errors > MaxTries \/ crashes > 0)

\* Likewise the Undo of a listener disconnects it.
UndoLeaves ==
  \A j \in JobSlots, a \in Actors :
    (jobs[j].pc = "start" /\ jobs[j].kind = "Undo" /\ jobs[j].actor = a)
      ~> (a \notin connected \/ errors > MaxTries \/ crashes > 0)
=============================================================================
