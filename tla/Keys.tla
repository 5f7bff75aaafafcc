-------------------------------- MODULE Keys --------------------------------
(***************************************************************************)
(* The key of one remote actor as the relay knows it: the actor cache      *)
(* (data/actor.rs over the trees of db.rs), the verifier that checks a     *)
(* request's signature with it (middleware/verifier.rs), the inbox that    *)
(* asks for the actor again (routes/inbox.rs), and the Follow job, which   *)
(* saves the actor it was queued with.  The actor's server replaces the    *)
(* key whenever it likes.                                                  *)
(***************************************************************************)
EXTENDS Integers

CONSTANTS
  Requests,  \* slots for requests in progress
  KeyIds,    \* the public_key_id's the actor uses, of its key and of later ones
  Refetch,   \* REFETCH_DURATION, 30 minutes in the code, in ticks
  MaxKey     \* bound: how often the key is replaced

ASSUME KeysAssumption ==
  /\ KeyIds # {}
  /\ Refetch \in Nat \ {0}
  /\ MaxKey \in Nat

\* A key pair: its public_key_id, and the number that tells it from the others.
Keys == [id : KeyIds, number : 0..MaxKey]

\* A db::Actor: its key and the time since saved_at, Refetch for any more.
Actors == [key : Keys, age : 0..Refetch]

VARIABLES
  current,   \* the key in the document that the actor's server serves
  stored,    \* actor_id_actor: the actor's row, or NoActor
  known,     \* public_key_id_actor_id: the key ids that lead to the actor
  requests   \* the signed requests in progress, their jobs included

vars == <<current, stored, known, requests>>

NoActor == [age |-> "none"]
NoRequest == [pc |-> "idle"]

\* What a step of a request does next.  The first three fetches are the
\* verifier's, the last the inbox's.
Fetches == {"fetch", "refetch", "routeFetch"}
Saves == {"save", "resave", "routeSave"}
Steps == {"lookUp", "allowed", "get", "owner", "verify", "verifyAgain",
          "routeGet", "keyId", "accepted", "unverified", "job"} \cup Fetches \cup Saves

Request == [pc : Steps, signed : Keys, actor : Actors \cup {NoActor}]

TypeOK ==
  /\ current \in Keys
  /\ stored \in Actors \cup {NoActor}
  /\ known \subseteq KeyIds
  /\ requests \in [Requests -> Request \cup {NoRequest}]

Init ==
  /\ current \in {k \in Keys : k.number = 0}
  /\ stored = NoActor
  /\ known = {}
  /\ requests = [r \in Requests |-> NoRequest]

Goto(r, pc) == requests' = [requests EXCEPT ![r].pc = pc]
GotoWith(r, pc, actor) == requests' = [requests EXCEPT ![r].pc = pc, ![r].actor = actor]
Over(r) == requests' = [requests EXCEPT ![r] = NoRequest]

-----------------------------------------------------------------------------
(* MyVerify::verify. *)

\* A request arrives, signed with the actor's key or with one it had before.
Arrive(r, key) ==
  /\ requests[r] = NoRequest
  /\ key.number = current.number => key = current
  /\ key.number <= current.number
  /\ requests' = [requests EXCEPT ![r] = [pc |-> "lookUp", signed |-> key, actor |-> NoActor]]
  /\ UNCHANGED <<current, stored, known>>

\* actor_id_from_public_key_id.
LookUp(r) ==
  /\ requests[r].pc = "lookUp"
  /\ Goto(r, IF requests[r].signed.id \in known THEN "allowed" ELSE "owner")
  /\ UNCHANGED <<current, stored, known>>

\* is_allowed refuses the actor or does not.
CheckAllowed(r) ==
  /\ requests[r].pc = "allowed"
  /\ Goto(r, "get") \/ Over(r)
  /\ UNCHANGED <<current, stored, known>>

\* The key's document names its owner; the actor is fetched next, cached or not.
FetchOwner(r) ==
  /\ requests[r].pc = "owner"
  /\ Goto(r, "refetch") \/ Over(r)
  /\ UNCHANGED <<current, stored, known>>

\* ActorCache::get: saved_at + REFETCH_DURATION > now.
Cached == stored # NoActor /\ stored.age < Refetch

GetActor(r) ==
  /\ requests[r].pc = "get"
  /\ IF Cached THEN GotoWith(r, "verify", stored) ELSE Goto(r, "fetch")
  /\ UNCHANGED <<current, stored, known>>

After == [fetch |-> "save", refetch |-> "resave", routeFetch |-> "routeSave",
          save |-> "verifyAgain", resave |-> "verifyAgain", routeSave |-> "keyId"]

\* get_no_cache: the server answers with what is current, or the fetch fails.
Fetch(r) ==
  /\ requests[r].pc \in Fetches
  /\ \/ GotoWith(r, After[requests[r].pc], [key |-> current, age |-> 0])
     \/ Over(r)
  /\ UNCHANGED <<current, stored, known>>

\* A write that is dated when it is made and not when the actor was fetched.
WriteDated(actor) ==
  /\ known' = known \cup {actor.key.id}
  /\ stored' = [actor EXCEPT !.age = 0]

\* Db::save_actor.  The key ids of earlier keys stay.
Write(actor) ==
  /\ known' = known \cup {actor.key.id}
  /\ stored' = actor

\* ... and the answer is dated and saved.
SaveFetched(r) ==
  /\ requests[r].pc \in Saves
  /\ LET actor == [key |-> requests[r].actor.key, age |-> 0]
     IN Write(actor) /\ GotoWith(r, After[requests[r].pc], actor)
  /\ UNCHANGED current

Matches(r) == requests[r].actor.key.number = requests[r].signed.number

\* A verifier that takes the cache's word.
VerifyOnce(r) ==
  /\ requests[r].pc = "verify"
  /\ Goto(r, IF Matches(r) THEN "routeGet" ELSE "unverified")
  /\ UNCHANGED <<current, stored, known>>

\* do_verify with a cached actor; if that fails the actor is fetched.
Verify(r) ==
  /\ requests[r].pc = "verify"
  /\ Goto(r, IF Matches(r) THEN "routeGet" ELSE "refetch")
  /\ UNCHANGED <<current, stored, known>>

\* do_verify with an actor fetched for this request.
VerifyAgain(r) ==
  /\ requests[r].pc = "verifyAgain"
  /\ Goto(r, IF Matches(r) THEN "routeGet" ELSE "unverified")
  /\ UNCHANGED <<current, stored, known>>

-----------------------------------------------------------------------------
(* The inbox and the Follow job. *)

\* The inbox gets the actor once more.
RouteGet(r) ==
  /\ requests[r].pc = "routeGet"
  /\ IF Cached THEN GotoWith(r, "keyId", stored) ELSE Goto(r, "routeFetch")
  /\ UNCHANGED <<current, stored, known>>

\* The actor may have another key by now: its id is compared, not the key.
CheckKeyId(r) ==
  /\ requests[r].pc = "keyId"
  /\ IF requests[r].actor.key.id = requests[r].signed.id THEN Goto(r, "accepted") ELSE Over(r)
  /\ UNCHANGED <<current, stored, known>>

\* A Follow queues its job with the actor as it was; other activities end here,
\* as does what was refused.
Answer(r) ==
  /\ requests[r].pc \in {"accepted", "unverified"}
  /\ \/ requests[r].pc = "accepted" /\ Goto(r, "job")
     \/ Over(r)
  /\ UNCHANGED <<current, stored, known>>

\* ActorCache::add_connection saves that actor, saved_at and all.  If a later
\* step of the job fails, the job is run again with the same actor.
SaveActor(r) ==
  /\ requests[r].pc = "job"
  /\ Write(requests[r].actor)
  /\ Over(r) \/ UNCHANGED requests
  /\ UNCHANGED current

\* The client goes away, an await fails, or the process is restarted.
Abandon(r) ==
  /\ requests[r] # NoRequest
  /\ Over(r)
  /\ UNCHANGED <<current, stored, known>>

-----------------------------------------------------------------------------
\* The actor's server replaces the key, under the same id or another.
Rotate(id) ==
  /\ current.number < MaxKey
  /\ current' = [id |-> id, number |-> current.number + 1]
  /\ UNCHANGED <<stored, known, requests>>

Older(actor) ==
  IF actor # NoActor /\ actor.age < Refetch THEN [actor EXCEPT !.age = @ + 1] ELSE actor

\* Time passes, for the row and for what requests hold of it.
Tick ==
  /\ stored' = Older(stored)
  /\ requests' = [r \in Requests |->
       IF requests[r] = NoRequest THEN NoRequest
       ELSE [requests[r] EXCEPT !.actor = Older(requests[r].actor)]]
  /\ UNCHANGED <<current, known>>

Step(r) == \/ LookUp(r) \/ CheckAllowed(r) \/ FetchOwner(r) \/ GetActor(r)
           \/ Fetch(r) \/ SaveFetched(r) \/ Verify(r) \/ VerifyAgain(r)
           \/ RouteGet(r) \/ CheckKeyId(r) \/ Answer(r) \/ SaveActor(r)

Next == \/ \E r \in Requests, key \in Keys : Arrive(r, key)
        \/ \E r \in Requests : Step(r) \/ Abandon(r)
        \/ \E id \in KeyIds : Rotate(id)
        \/ Tick

Spec == Init /\ [][Next]_vars

\* Time passes, and requests and jobs are polled to their end.
FairSpec == Spec /\ WF_vars(Tick) /\ \A r \in Requests : WF_vars(Step(r))

-----------------------------------------------------------------------------
(* Properties *)

\* Though a cached key may be old, and another request may save an older actor at
\* any time, no signature by the actor's present key is ever found wrong.
CurrentKeyVerifies ==
  \A r \in Requests : requests[r].pc = "unverified" => requests[r].signed # current

\* A key that has been replaced for good stops being accepted in the end, however
\* often requests use it and jobs save it again: what they save keeps its date.
OldKeysExpire ==
  <>[](\A r \in Requests : requests[r].pc = "accepted" => requests[r].signed = current)
=============================================================================
