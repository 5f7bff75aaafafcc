----------------------------- MODULE KeysProofs -----------------------------
(***************************************************************************)
(* Proofs about Keys, for every set of requests and key ids, any time to   *)
(* refetch and any number of rotations.                                    *)
(***************************************************************************)
EXTENDS Keys, TLAPS

\* Actors grow older without changing their type or their key.
LEMMA OlderActor ==
  ASSUME NEW a \in Actors \cup {NoActor}
  PROVE  /\ Older(a) \in Actors \cup {NoActor}
         /\ a \in Actors => Older(a) \in Actors /\ Older(a).key = a.key
BY KeysAssumption DEF Older, Actors, NoActor

\* A request in use is a Request.
LEMMA RequestInUse ==
  ASSUME TypeOK, NEW r \in Requests, requests[r].pc # "idle"
  PROVE  requests[r] \in Request /\ requests[r] # NoRequest
BY DEF TypeOK, NoRequest

\* No step of a request is the idle one.
LEMMA StepInUse ==
  ASSUME NEW r \in Requests, Step(r)
  PROVE  requests[r].pc # "idle"
BY DEF Step, LookUp, CheckAllowed, FetchOwner, GetActor, Fetch, SaveFetched, Verify,
       VerifyAgain, RouteGet, CheckKeyId, Answer, SaveActor, Fetches, Saves

-----------------------------------------------------------------------------
(* The invariant. *)

\* The requests that hold an actor fetched for them.
Fetched == Saves \cup {"verifyAgain"}

\* No request is signed with a key to come, and one signed with the present key
\* that holds an actor fetched for it holds that key: the fetch came after the
\* request, and the key has not been replaced since or the request is not signed
\* with the present one.
KeyInv ==
  \A r \in Requests : requests[r] # NoRequest =>
    /\ requests[r].signed.number <= current.number
    /\ requests[r].pc \in Fetched => requests[r].actor \in Actors
    /\ requests[r].pc \in Fetched /\ requests[r].signed = current =>
         requests[r].actor.key = current
    /\ requests[r].pc \in {"keyId", "accepted", "job", "verify"} => requests[r].actor \in Actors

SignedInv == TypeOK /\ KeyInv /\ CurrentKeyVerifies

\* What the steps of one request keep, whichever it is: the invariant for the
\* request's new state is the invariant for all.
LEMMA OneRequest ==
  ASSUME SignedInv, NEW r \in Requests, UNCHANGED current,
         stored' \in Actors \cup {NoActor}, known' \subseteq KeyIds,
         NEW new \in Request \cup {NoRequest},
         requests' = [requests EXCEPT ![r] = new],
         new # NoRequest =>
           /\ new.signed.number <= current.number
           /\ new.pc \in Fetched \cup {"keyId", "accepted", "job", "verify"} =>
                new.actor \in Actors
           /\ new.pc \in Fetched /\ new.signed = current => new.actor.key = current
           /\ new.pc = "unverified" => new.signed # current
  PROVE  SignedInv'
<1> USE DEF SignedInv, TypeOK
<1>1. requests'[r] = new /\ \A q \in Requests \ {r} : requests'[q] = requests[q]
  OBVIOUS
<1>2. TypeOK'
  OBVIOUS
<1>3. KeyInv'
  BY <1>1 DEF KeyInv
<1>4. CurrentKeyVerifies'
  BY <1>1 DEF CurrentKeyVerifies, NoRequest
<1> QED BY <1>2, <1>3, <1>4

\* Every step of a request keeps the invariant.
LEMMA StepsKeepInv ==
  ASSUME SignedInv, NEW r \in Requests, Step(r) \/ Abandon(r)
  PROVE  SignedInv'
<1> DEFINE q == requests[r]
<1> DEFINE at(pc) == [q EXCEPT !.pc = pc]
<1> DEFINE with(pc, actor) == [q EXCEPT !.pc = pc, !.actor = actor]
<1>1. TypeOK /\ q \in Request \cup {NoRequest}
  BY DEF SignedInv, TypeOK
<1>2. CASE UNCHANGED <<current, stored, known>> /\ Over(r)
  <2>1. stored' \in Actors \cup {NoActor} /\ known' \subseteq KeyIds
    BY <1>1, <1>2 DEF TypeOK
  <2> QED BY <1>2, <2>1, OneRequest DEF Over
<1>3. CASE Abandon(r)
  BY <1>2, <1>3 DEF Abandon
<1>4. ASSUME Step(r) PROVE SignedInv'
  <2>1. q \in Request /\ q # NoRequest
    BY <1>1, <1>4, StepInUse, RequestInUse
  <2>2. /\ q.signed.number <= current.number
        /\ q.pc \in Fetched => q.actor \in Actors
        /\ q.pc \in Fetched /\ q.signed = current => q.actor.key = current
        /\ q.pc \in {"keyId", "accepted", "job", "verify"} => q.actor \in Actors
    BY <2>1 DEF SignedInv, KeyInv
  \* A step that moves on, holding what it held.
  <2>3. ASSUME UNCHANGED <<current, stored, known>>,
               NEW pc \in Steps, Goto(r, pc),
               pc \notin Saves \cup {"verify", "verifyAgain", "keyId", "accepted"},
               pc = "job" => q.pc = "accepted",
               pc = "unverified" => q.signed # current
        PROVE  SignedInv'
    <3>1. at(pc) \in Request /\ at(pc).pc = pc /\ at(pc).signed = q.signed
            /\ at(pc).actor = q.actor
      BY <2>1 DEF Request
    <3>2. requests' = [requests EXCEPT ![r] = at(pc)]
      BY <2>3 DEF Goto
    <3>3. stored' \in Actors \cup {NoActor} /\ known' \subseteq KeyIds
      BY <1>1, <2>3 DEF TypeOK
    <3> QED BY <2>2, <2>3, <3>1, <3>2, <3>3, OneRequest DEF Fetched
  <2>4. ASSUME NEW pc \in {"verify", "keyId"}, UNCHANGED <<current, stored, known>>,
               Cached, GotoWith(r, pc, stored)
        PROVE  SignedInv'
    <3>1. stored \in Actors
      BY <1>1, <2>4 DEF TypeOK, Cached
    <3>2. with(pc, stored) \in Request /\ with(pc, stored).pc = pc
            /\ with(pc, stored).signed = q.signed /\ with(pc, stored).actor = stored
      BY <2>1, <3>1 DEF Request, Steps
    <3>3. requests' = [requests EXCEPT ![r] = with(pc, stored)]
      BY <2>4 DEF GotoWith
    <3>4. stored' \in Actors \cup {NoActor} /\ known' \subseteq KeyIds
      BY <1>1, <2>4 DEF TypeOK
    <3> QED BY <2>2, <2>4, <3>1, <3>2, <3>3, <3>4, OneRequest DEF Fetched, Saves
  <2>5. CASE LookUp(r) \/ CheckAllowed(r) \/ FetchOwner(r)
    BY <1>2, <2>3, <2>5 DEF LookUp, CheckAllowed, FetchOwner, Steps, Fetches, Saves
  <2>6. CASE GetActor(r) \/ RouteGet(r)
    BY <2>3, <2>4, <2>6 DEF GetActor, RouteGet, Steps, Fetches, Saves
  <2>7. CASE Fetch(r)
    <3> DEFINE answer == [key |-> current, age |-> 0]
    <3> DEFINE pc == After[q.pc]
    <3>1. pc \in Saves
      BY <2>7 DEF Fetch, Fetches, Saves, After
    <3>2. CASE GotoWith(r, pc, answer)
      <4>1. answer \in Actors
        BY <1>1, KeysAssumption DEF TypeOK, Actors
      <4>2. answer.key = current
        OBVIOUS
      <4> HIDE DEF answer, pc
      <4>3. with(pc, answer) \in Request /\ with(pc, answer).pc = pc
              /\ with(pc, answer).signed = q.signed /\ with(pc, answer).actor = answer
        BY <2>1, <3>1, <4>1 DEF Request, Steps
      <4>4. requests' = [requests EXCEPT ![r] = with(pc, answer)]
        BY <3>2 DEF GotoWith
      <4>5. UNCHANGED current /\ stored' \in Actors \cup {NoActor} /\ known' \subseteq KeyIds
        BY <1>1, <2>7 DEF Fetch, TypeOK
      <4>6. pc # "unverified"
        BY <3>1 DEF Saves
      <4> QED BY <2>2, <4>1, <4>2, <4>3, <4>4, <4>5, <4>6, OneRequest
    <3> QED BY <1>2, <2>7, <3>2 DEF Fetch
  <2>8. CASE SaveFetched(r)
    <3> DEFINE dated == [key |-> q.actor.key, age |-> 0]
    <3> DEFINE pc == After[q.pc]
    <3>1. q.pc \in Fetched /\ pc \in {"verifyAgain", "keyId"}
      BY <2>8 DEF SaveFetched, Fetched, Saves, After
    <3>2. dated \in Actors /\ dated.key = q.actor.key
      BY <2>2, <3>1, KeysAssumption DEF Actors
    <3>3. stored' = dated /\ known' = known \cup {dated.key.id} /\ UNCHANGED current
            /\ GotoWith(r, pc, dated)
      BY <2>8 DEF SaveFetched, Write
    <3> HIDE DEF dated, pc
    <3>4. with(pc, dated) \in Request /\ with(pc, dated).pc = pc
            /\ with(pc, dated).signed = q.signed /\ with(pc, dated).actor = dated
      BY <2>1, <3>1, <3>2 DEF Request, Steps
    <3>5. requests' = [requests EXCEPT ![r] = with(pc, dated)]
      BY <3>3 DEF GotoWith
    <3>6. stored' \in Actors \cup {NoActor} /\ known' \subseteq KeyIds
      BY <1>1, <3>2, <3>3 DEF TypeOK, Actors, Keys
    <3> QED BY <2>2, <3>1, <3>2, <3>3, <3>4, <3>5, <3>6, OneRequest
  <2>9. CASE Verify(r)
    BY <2>3, <2>9 DEF Verify, Steps, Fetches, Saves
  <2>10. CASE VerifyAgain(r)
    <3>1. q.pc \in Fetched /\ (q.signed = current => Matches(r))
      BY <2>2, <2>10 DEF VerifyAgain, Fetched, Matches
    <3> QED BY <2>3, <2>10, <3>1 DEF VerifyAgain, Steps, Fetches, Saves
  <2>11. CASE CheckKeyId(r)
    <3>1. CASE Goto(r, "accepted")
      <4>1. at("accepted") \in Request /\ at("accepted").pc = "accepted"
              /\ at("accepted").signed = q.signed /\ at("accepted").actor = q.actor
        BY <2>1 DEF Request, Steps
      <4>2. requests' = [requests EXCEPT ![r] = at("accepted")]
        BY <3>1 DEF Goto
      <4>3. UNCHANGED current /\ stored' \in Actors \cup {NoActor} /\ known' \subseteq KeyIds
        BY <1>1, <2>11 DEF CheckKeyId, TypeOK
      <4>4. q.actor \in Actors
        BY <2>2, <2>11 DEF CheckKeyId
      <4> QED BY <2>2, <4>1, <4>2, <4>3, <4>4, OneRequest DEF Fetched, Saves
    <3> QED BY <1>2, <2>11, <3>1 DEF CheckKeyId
  <2>12. CASE Answer(r)
    BY <1>2, <2>3, <2>12 DEF Answer, Steps, Fetches, Saves
  <2>13. CASE SaveActor(r)
    <3>1. q.actor \in Actors
      BY <2>2, <2>13 DEF SaveActor
    <3>2. stored' \in Actors \cup {NoActor} /\ known' \subseteq KeyIds /\ UNCHANGED current
      BY <1>1, <2>13, <3>1 DEF SaveActor, Write, TypeOK, Actors, Keys
    <3>3. CASE requests' = [requests EXCEPT ![r] = NoRequest]
      BY <3>2, <3>3, OneRequest
    <3>4. CASE requests' = requests
      BY <3>2, <3>4 DEF SignedInv, TypeOK, KeyInv, CurrentKeyVerifies
    <3> QED BY <2>13, <3>3, <3>4 DEF SaveActor, Over
  <2> QED BY <1>4, <2>5, <2>6, <2>7, <2>8, <2>9, <2>10, <2>11, <2>12, <2>13 DEF Step
<1> QED BY <1>3, <1>4

\* Arrivals, rotations and time keep it too.
LEMMA OthersKeepInv ==
  ASSUME SignedInv,
         \/ \E r \in Requests, key \in Keys : Arrive(r, key)
         \/ \E id \in KeyIds : Rotate(id)
         \/ Tick
         \/ UNCHANGED vars
  PROVE  SignedInv'
<1> USE KeysAssumption
<1>1. TypeOK
  BY DEF SignedInv
<1>2. ASSUME NEW r \in Requests, NEW key \in Keys, Arrive(r, key)
      PROVE  SignedInv'
  <2> DEFINE new == [pc |-> "lookUp", signed |-> key, actor |-> NoActor]
  <2>1. new \in Request /\ new.pc = "lookUp" /\ new.signed = key
    BY DEF Request, Steps
  <2>2. requests' = [requests EXCEPT ![r] = new] /\ key.number <= current.number
          /\ UNCHANGED <<current, stored, known>>
    BY <1>2 DEF Arrive
  <2> HIDE DEF new
  <2>3. stored' \in Actors \cup {NoActor} /\ known' \subseteq KeyIds
    BY <1>1, <2>2 DEF TypeOK
  <2> QED BY <2>1, <2>2, <2>3, OneRequest DEF Fetched, Saves
<1>3. ASSUME NEW id \in KeyIds, Rotate(id)
      PROVE  SignedInv'
  <2>1. current'.number = current.number + 1 /\ current' \in Keys
    BY <1>1, <1>3 DEF Rotate, TypeOK, Keys
  <2>2. UNCHANGED <<stored, known, requests>>
    BY <1>3 DEF Rotate
  <2>3. current.number \in Nat
    BY <1>1 DEF TypeOK, Keys
  <2>4. ASSUME NEW r \in Requests, requests[r] # NoRequest
        PROVE  /\ requests[r].signed.number <= current.number
               /\ requests[r].signed.number \in Nat
               /\ requests[r].signed # current'
    <3>1. requests[r].signed.number <= current.number
      BY <2>4 DEF SignedInv, KeyInv
    <3>2. requests[r].signed.number \in Nat
      BY <1>1, <2>4 DEF TypeOK, Request, Keys
    <3> QED BY <2>1, <2>3, <3>1, <3>2
  <2>5. TypeOK'
    BY <1>1, <2>1, <2>2 DEF TypeOK
  <2>6. KeyInv'
    BY <2>1, <2>2, <2>3, <2>4 DEF SignedInv, KeyInv
  <2>7. CurrentKeyVerifies'
    BY <2>2, <2>4 DEF CurrentKeyVerifies, NoRequest
  <2> QED BY <2>5, <2>6, <2>7 DEF SignedInv
<1>4. CASE Tick
  <2>1. stored' \in Actors \cup {NoActor} /\ UNCHANGED <<current, known>>
    BY <1>1, <1>4, OlderActor DEF Tick, TypeOK
  <2>2. ASSUME NEW r \in Requests
        PROVE  /\ requests[r] = NoRequest => requests'[r] = NoRequest
               /\ requests[r] # NoRequest =>
                    /\ requests'[r] \in Request /\ requests'[r] # NoRequest
                    /\ requests'[r].pc = requests[r].pc
                    /\ requests'[r].signed = requests[r].signed
                    /\ requests[r].actor \in Actors =>
                         /\ requests'[r].actor \in Actors
                         /\ requests'[r].actor.key = requests[r].actor.key
    <3> DEFINE older == [requests[r] EXCEPT !.actor = Older(requests[r].actor)]
    <3>1. CASE requests[r] = NoRequest
      BY <1>4, <3>1 DEF Tick
    <3>2. CASE requests[r] # NoRequest
      <4>1. requests[r] \in Request /\ requests'[r] = older
        BY <1>1, <1>4, <3>2 DEF Tick, TypeOK
      <4>2. requests[r].actor \in Actors \cup {NoActor}
        BY <4>1 DEF Request
      <4>3. /\ Older(requests[r].actor) \in Actors \cup {NoActor}
            /\ requests[r].actor \in Actors =>
                 /\ Older(requests[r].actor) \in Actors
                 /\ Older(requests[r].actor).key = requests[r].actor.key
        BY <4>2, OlderActor
      <4>4. /\ older \in Request
            /\ older.pc = requests[r].pc /\ older.signed = requests[r].signed
            /\ older.actor = Older(requests[r].actor)
        BY <4>1, <4>3 DEF Request
      <4>5. older.pc # "idle"
        BY <4>4 DEF Request, Steps, Fetches, Saves
      <4> QED BY <3>2, <4>1, <4>3, <4>4, <4>5 DEF NoRequest
    <3> QED BY <3>1, <3>2
  <2>3. \A r \in Requests : requests'[r] # NoRequest <=> requests[r] # NoRequest
    BY <2>2
  <2>4. TypeOK'
    <3>1. requests' \in [Requests -> Request \cup {NoRequest}]
      BY <1>4, <2>2 DEF Tick
    <3> QED BY <1>1, <2>1, <3>1 DEF TypeOK
  <2>5. KeyInv'
    BY <2>1, <2>2, <2>3 DEF SignedInv, KeyInv
  <2>6. CurrentKeyVerifies'
    <3> SUFFICES ASSUME NEW r \in Requests, requests'[r].pc = "unverified"
                 PROVE  requests'[r].signed # current'
      BY DEF CurrentKeyVerifies
    <3>1. requests[r] # NoRequest
      BY <2>2 DEF NoRequest
    <3> QED BY <2>1, <2>2, <3>1 DEF SignedInv, CurrentKeyVerifies
  <2> QED BY <2>4, <2>5, <2>6 DEF SignedInv
<1>5. CASE UNCHANGED vars
  BY <1>5 DEF vars, SignedInv, TypeOK, KeyInv, CurrentKeyVerifies
<1> QED BY <1>2, <1>3, <1>4, <1>5

\* At the start nothing is stored and nothing under way.
LEMMA InitSigned == Init => SignedInv
BY KeysAssumption DEF Init, SignedInv, TypeOK, KeyInv, CurrentKeyVerifies, Keys, NoRequest

\* Requests, rotations and time keep the invariant.
LEMMA SignedInvStable == SignedInv /\ [Next]_vars => SignedInv'
BY StepsKeepInv, OthersKeepInv DEF Next

\* The row, the documents that requests hold and the keys they are signed with stay
\* what MyVerify, get_no_cache and add_connection can make of them: SaveFetched
\* only ever writes a document that was fetched, and a row's age stops at Refetch.
THEOREM TypeCorrect == Spec => []TypeOK
<1>1. SignedInv => TypeOK
  BY DEF SignedInv
<1> QED BY <1>1, InitSigned, SignedInvStable, PTL DEF Spec

\* MyVerify fetches the actor before it refuses a signature, and what it fetched
\* travels with the request: whatever other requests write meanwhile, a signature
\* by the actor's present key is not found wrong.
THEOREM CurrentKeyAlwaysVerifies == Spec => []CurrentKeyVerifies
<1>1. SignedInv => CurrentKeyVerifies
  BY DEF SignedInv
<1> QED BY <1>1, InitSigned, SignedInvStable, PTL DEF Spec
=============================================================================
