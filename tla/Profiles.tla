------------------------------ MODULE Profiles ------------------------------
(***************************************************************************)
(* What the relay shows of the servers that listen: the info, instance and *)
(* contact rows (data/node.rs over the trees of db.rs), the jobs that ask  *)
(* the servers for them (jobs/instance.rs, nodeinfo.rs, contact.rs), the   *)
(* job that starts those every five minutes (jobs/process_listeners.rs),   *)
(* and the two trees of avatars (data/media.rs), through which the relay   *)
(* serves a contact's picture under an id of its own.                      *)
(***************************************************************************)
EXTENDS Integers, Sequences

CONSTANTS
  Actors,      \* the actors that may listen, one to a server
  Pictures,    \* the URLs of the pictures servers name
  Workers,     \* workers of the queue "maintenance"
  Outdated,    \* the ten minutes after which a row is outdated, in ticks
  MaxIds,      \* bound: media ids drawn in a behaviour
  MaxFaults    \* bound: failures of the relay's own and restarts in a behaviour

ASSUME ProfilesAssumption ==
  /\ Outdated \in Nat \ {0}
  /\ MaxIds \in Nat
  /\ MaxFaults \in Nat

\* QueryInstance, QueryNodeinfo and QueryContact.
Kinds == {"instance", "nodeinfo", "contact"}

\* What a server answers with: its two documents, the contact being named in that
\* of the instance or that of the nodeinfo, or nothing of use: no document, a
\* failure, or an open breaker.  Servers change, so that a query may find both.
Services == {"instance", "nodeinfo", "nothing"}

VARIABLES
  connected,  \* the connected actors
  serves,     \* what each actor's server answers with
  info,       \* actor-id-info: the age of each row, Outdated for older or none
  instance,   \* actor-id-instance, likewise
  contact,    \* actor-id-contact: the age and the avatar of each row
  mediaUrl,   \* media-id-media-url: the pictures by id, ids taken in turn
  mediaId,    \* media-url-media-id: the id of each picture, 0 for none
  queued,     \* the jobs waiting, duplicates taken together
  running,    \* the job of each worker
  faults      \* failures and restarts so far

rows == <<info, instance, contact>>
media == <<mediaUrl, mediaId>>
world == <<connected, serves>>
vars == <<world, rows, media, queued, running, faults>>

\* An avatar of the relay's own: a picture and the media id made for it, 0 before
\* there is one.  NoAvatar stands for no contact, and for one whose avatar is the
\* picture's own URL.
NoAvatar == [id |-> 0]
Avatar == [id : 0..MaxIds, picture : Pictures]

Query == [kind : Kinds, actor : Actors]
NewQuery(kind, a) == [kind |-> kind, actor |-> a]

Idle == [pc |-> "idle"]
AvatarSteps == {"avatar", "saveUrl", "saveId", "setContact"}
StepsOf(kind) ==
  CASE kind = "instance" -> {"check", "checkInstance", "fetch", "setInstance"} \cup AvatarSteps
    [] kind = "nodeinfo" -> {"check", "fetch", "setInfo", "queueContact"}
    [] kind = "contact"  -> {"check", "fetch", "setContact"}
Steps == {"check", "checkInstance", "fetch", "setInstance", "setInfo", "queueContact"}
           \cup AvatarSteps
Job == [pc : Steps, query : Query, named : BOOLEAN, avatar : Avatar \cup {NoAvatar}]

\* A job is at a step of its own, and a QueryInstance knows the picture it stores.
Fits(job) ==
  /\ job.pc \in StepsOf(job.query.kind)
  /\ job.query.kind = "instance" /\ job.pc \in AvatarSteps => job.avatar \in Avatar

TypeOK ==
  /\ connected \subseteq Actors
  /\ serves \in [Actors -> Services]
  /\ info \in [Actors -> 0..Outdated]
  /\ instance \in [Actors -> 0..Outdated]
  /\ contact \in [Actors -> [age : 0..Outdated, avatar : Avatar \cup {NoAvatar}]]
  /\ mediaUrl \in Seq(Pictures) /\ Len(mediaUrl) <= MaxIds
  /\ mediaId \in [Pictures -> 0..MaxIds]
  /\ queued \subseteq Query
  /\ running \in [Workers -> Job \cup {Idle}]
  /\ faults \in 0..MaxFaults
  /\ \A w \in Workers : running[w] # Idle => Fits(running[w])

Init ==
  /\ connected = {}
  /\ serves \in [Actors -> Services]
  /\ info = [a \in Actors |-> Outdated]
  /\ instance = [a \in Actors |-> Outdated]
  /\ contact = [a \in Actors |-> [age |-> Outdated, avatar |-> NoAvatar]]
  /\ mediaUrl = <<>>
  /\ mediaId = [u \in Pictures |-> 0]
  /\ queued = {}
  /\ running = [w \in Workers |-> Idle]
  /\ faults = 0

-----------------------------------------------------------------------------
(* The queue. *)

Take(w, query) ==
  /\ running[w] = Idle
  /\ query \in queued
  /\ queued' = queued \ {query}
  /\ running' = [running EXCEPT ![w] = [pc |-> "check", query |-> query, named |-> FALSE,
                                        avatar |-> NoAvatar]]
  /\ UNCHANGED <<world, rows, media, faults>>

At(w, pc) == running[w].pc = pc
Kind(w) == running[w].query.kind
Of(w) == running[w].query.actor
Goto(w, pc) == running' = [running EXCEPT ![w].pc = pc]
Done(w) == running' = [running EXCEPT ![w] = Idle]

\* The job has failed: it goes back to the queue, or has used up its tries.
Failed(w) ==
  /\ Done(w)
  /\ queued' = queued \/ queued' = queued \cup {running[w].query}

-----------------------------------------------------------------------------
(* What a query fetches comes from one server in one step: the Mastodon or the *)
(* Misskey document, the nodeinfo by way of its link, the contact's actor.  A  *)
(* server that gives nothing ends the query or makes it fail.                  *)

Fetch(w, kind, found) ==
  /\ At(w, "fetch") /\ Kind(w) = kind
  /\ \/ serves[Of(w)] # "nothing" /\ found /\ UNCHANGED queued
     \/ serves[Of(w)] = "nothing" /\ Done(w) /\ UNCHANGED queued
     \/ serves[Of(w)] = "nothing" /\ Failed(w)
  /\ UNCHANGED <<world, rows, media, faults>>

-----------------------------------------------------------------------------
(* QueryInstance. *)

\* A check that asks only when both rows are outdated.
CheckBoth(w) ==
  /\ At(w, "check") /\ Kind(w) = "instance"
  /\ IF contact[Of(w)].age = Outdated THEN Goto(w, "checkInstance") ELSE Done(w)
  /\ UNCHANGED <<world, rows, media, queued, faults>>

\* The two rows are looked up in turn; either being outdated is enough, and then
\* the other one does not matter.
CheckContact(w) ==
  /\ At(w, "check") /\ Kind(w) = "instance"
  /\ Goto(w, IF contact[Of(w)].age = Outdated THEN "fetch" ELSE "checkInstance")
  /\ UNCHANGED <<world, rows, media, queued, faults>>

CheckInstance(w) ==
  /\ At(w, "checkInstance")
  /\ IF instance[Of(w)] = Outdated THEN Goto(w, "fetch") ELSE Done(w)
  /\ UNCHANGED <<world, rows, media, queued, faults>>

FetchInstance(w) ==
  Fetch(w, "instance",
        IF serves[Of(w)] = "nodeinfo" THEN Goto(w, "setInstance")
        ELSE \E u \in Pictures :
               running' = [running EXCEPT ![w].pc = "avatar",
                                          ![w].avatar = [id |-> 0, picture |-> u]])

\* MediaCache::get_uuid.
GetId(w) ==
  /\ At(w, "avatar")
  /\ LET u == running[w].avatar.picture IN
       IF mediaId[u] = 0 THEN Goto(w, "saveUrl")
       ELSE running' = [running EXCEPT ![w].pc = "setContact", ![w].avatar.id = mediaId[u]]
  /\ UNCHANGED <<world, rows, media, queued, faults>>

\* A save_url that maps the picture to the id before the id to the picture.
SaveIdFirst(w) ==
  /\ At(w, "saveUrl")
  /\ mediaId' = [mediaId EXCEPT ![running[w].avatar.picture] = Len(mediaUrl) + 1]
  /\ running' = [running EXCEPT ![w].pc = "saveId", ![w].avatar.id = Len(mediaUrl) + 1]
  /\ UNCHANGED <<world, rows, mediaUrl, queued, faults>>

\* MediaCache::store_url draws an id.  Db::save_url first maps it to the picture,
SaveUrl(w) ==
  /\ At(w, "saveUrl")
  /\ Len(mediaUrl) < MaxIds
  /\ mediaUrl' = Append(mediaUrl, running[w].avatar.picture)
  /\ running' = [running EXCEPT ![w].pc = "saveId", ![w].avatar.id = Len(mediaUrl) + 1]
  /\ UNCHANGED <<world, rows, mediaId, queued, faults>>

\* and then the picture to it.
SaveId(w) ==
  /\ At(w, "saveId")
  /\ mediaId' = [mediaId EXCEPT ![running[w].avatar.picture] = running[w].avatar.id]
  /\ Goto(w, "setContact")
  /\ UNCHANGED <<world, rows, mediaUrl, queued, faults>>

\* A step that takes every job for a QueryInstance.
SetContactGoesOn(w) ==
  /\ At(w, "setContact")
  /\ contact' = [contact EXCEPT ![Of(w)] = [age |-> 0, avatar |-> running[w].avatar]]
  /\ running' = [running EXCEPT ![w].pc = "setInstance", ![w].avatar = NoAvatar]
  /\ UNCHANGED <<world, info, instance, media, queued, faults>>

SetContact(w) ==
  /\ At(w, "setContact")
  /\ contact' = [contact EXCEPT ![Of(w)] = [age |-> 0, avatar |-> running[w].avatar]]
  /\ IF Kind(w) = "instance"
       THEN running' = [running EXCEPT ![w].pc = "setInstance", ![w].avatar = NoAvatar]
       ELSE Done(w)
  /\ UNCHANGED <<world, info, instance, media, queued, faults>>

SetInstance(w) ==
  /\ At(w, "setInstance")
  /\ instance' = [instance EXCEPT ![Of(w)] = 0]
  /\ Done(w)
  /\ UNCHANGED <<world, info, contact, media, queued, faults>>

-----------------------------------------------------------------------------
(* QueryNodeinfo. *)

CheckInfo(w) ==
  /\ At(w, "check") /\ Kind(w) = "nodeinfo"
  /\ IF info[Of(w)] = Outdated THEN Goto(w, "fetch") ELSE Done(w)
  /\ UNCHANGED <<world, rows, media, queued, faults>>

FetchInfo(w) ==
  Fetch(w, "nodeinfo", running' = [running EXCEPT ![w].pc = "setInfo",
                                                  ![w].named = serves[Of(w)] = "nodeinfo"])

SetInfo(w) ==
  /\ At(w, "setInfo")
  /\ info' = [info EXCEPT ![Of(w)] = 0]
  /\ IF running[w].named THEN Goto(w, "queueContact") ELSE Done(w)
  /\ UNCHANGED <<world, instance, contact, media, queued, faults>>

QueueContact(w) ==
  /\ At(w, "queueContact")
  /\ queued' = queued \cup {NewQuery("contact", Of(w))}
  /\ Done(w)
  /\ UNCHANGED <<world, rows, media, faults>>

-----------------------------------------------------------------------------
(* QueryContact, whose avatar is the picture itself. *)

CheckOwnContact(w) ==
  /\ At(w, "check") /\ Kind(w) = "contact"
  /\ IF contact[Of(w)].age = Outdated THEN Goto(w, "fetch") ELSE Done(w)
  /\ UNCHANGED <<world, rows, media, queued, faults>>

FetchContact(w) == Fetch(w, "contact", Goto(w, "setContact"))

-----------------------------------------------------------------------------
\* An access to the database fails, or to the queue.
JobError(w) ==
  /\ running[w] # Idle
  /\ faults < MaxFaults
  /\ faults' = faults + 1
  /\ Failed(w)
  /\ UNCHANGED <<world, rows, media>>

JobStep(w) ==
  \/ CheckContact(w) \/ CheckInstance(w) \/ FetchInstance(w)
  \/ GetId(w) \/ SaveUrl(w) \/ SaveId(w) \/ SetContact(w) \/ SetInstance(w)
  \/ CheckInfo(w) \/ FetchInfo(w) \/ SetInfo(w) \/ QueueContact(w)
  \/ CheckOwnContact(w) \/ FetchContact(w)

-----------------------------------------------------------------------------
(* Who asks for the queries. *)

Queries(actors) == {NewQuery(kind, a) : kind \in {"instance", "nodeinfo"}, a \in actors}

\* Listeners, started by the clock, queues those of the connected ids.
Listeners ==
  /\ queued' = queued \cup Queries(connected)
  /\ UNCHANGED <<world, rows, media, running, faults>>

\* It stops short when it fails to queue one.
ListenersError ==
  /\ faults < MaxFaults
  /\ faults' = faults + 1
  /\ \E some \in SUBSET Queries(connected) : queued' = queued \cup some
  /\ UNCHANGED <<world, rows, media, running>>

\* A Follow job connects the actor, if it is not, and queues its queries, unless it
\* fails before.
Join(a) ==
  /\ connected' = connected \cup {a}
  /\ \E some \in SUBSET Queries({a}) : queued' = queued \cup some
  /\ UNCHANGED <<serves, rows, media, running, faults>>

\* The actor is disconnected.  Its rows stay.
Leave(a) ==
  /\ a \in connected
  /\ connected' = connected \ {a}
  /\ UNCHANGED <<serves, rows, media, queued, running, faults>>

-----------------------------------------------------------------------------
\* An actor's server comes, goes, or changes its documents.
Serve(a, service) ==
  /\ serves' = [serves EXCEPT ![a] = service]
  /\ UNCHANGED <<connected, rows, media, queued, running, faults>>

Older(age) == IF age < Outdated THEN age + 1 ELSE age

\* Time passes.
Tick ==
  /\ info' = [a \in Actors |-> Older(info[a])]
  /\ instance' = [a \in Actors |-> Older(instance[a])]
  /\ contact' = [a \in Actors |-> [contact[a] EXCEPT !.age = Older(contact[a].age)]]
  /\ UNCHANGED <<world, media, queued, running, faults>>

\* The trees stay, the jobs do not.
Restart ==
  /\ faults < MaxFaults
  /\ faults' = faults + 1
  /\ queued' = {}
  /\ running' = [w \in Workers |-> Idle]
  /\ UNCHANGED <<world, rows, media>>

Next ==
  \/ \E w \in Workers : JobStep(w) \/ JobError(w)
  \/ \E w \in Workers, query \in queued : Take(w, query)
  \/ Listeners \/ ListenersError
  \/ \E a \in Actors : Join(a) \/ Leave(a)
  \/ \E a \in Actors, service \in Services : Serve(a, service)
  \/ Tick
  \/ Restart

Spec == Init /\ [][Next]_vars

(***************************************************************************)
(* Listeners is started again and again, a worker polls its job to the     *)
(* end, the job library passes no waiting job over for ever, and time      *)
(* passes.  Nothing is assumed of servers, actors or faults.               *)
(***************************************************************************)
Fairness ==
  /\ WF_vars(Listeners)
  /\ WF_vars(Tick)
  /\ \A w \in Workers : WF_vars(JobStep(w))
  /\ \A query \in Query : SF_vars(\E w \in Workers : Take(w, query))

FairSpec == Spec /\ Fairness

-----------------------------------------------------------------------------
(* Properties *)

\* GET /media/id answers with the picture the id was made for.
Resolves(avatar) ==
  avatar.id # 0 => avatar.id <= Len(mediaUrl) /\ mediaUrl[avatar.id] = avatar.picture

\* However jobs race for the id of a picture, fail half-way or are cut off by a
\* restart, an id that a contact shows, or that a job finds for its picture, leads
\* to that very picture.
AvatarsResolve ==
  /\ \A a \in Actors : Resolves(contact[a].avatar)
  /\ \A u \in Pictures : Resolves([id |-> mediaId[u], picture |-> u])

\* The actor a stays connected, and its server goes on answering alike, naming a
\* contact in one document or the other.
Steady(a, service) == a \in connected /\ serves[a] = service

\* Then no row of it stays outdated for good, though QueryInstance and QueryContact
\* both write the contact, each checks other rows before it does, and QueryNodeinfo
\* may have saved the info before it failed to queue the QueryContact.
ProfilesAreRenewed ==
  \A a \in Actors, service \in Services \ {"nothing"} : <>[]Steady(a, service) =>
    []<>(info[a] < Outdated) /\ []<>(instance[a] < Outdated) /\ []<>(contact[a].age < Outdated)
=============================================================================
