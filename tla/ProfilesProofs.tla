--------------------------- MODULE ProfilesProofs ---------------------------
(***************************************************************************)
(* Proofs about Profiles, for any actors, pictures, number of workers, ids *)
(* and faults: the races for a picture's id that one worker cannot show.   *)
(***************************************************************************)
EXTENDS Profiles, TLAPS

\* The avatar leads to its picture, as Resolves says, by the given tree of ids.
Leads(urls, avatar) ==
  avatar.id # 0 => avatar.id <= Len(urls) /\ urls[avatar.id] = avatar.picture

\* What TypeOK says of the trees, the queue and the world.
StoreOK ==
  /\ connected \subseteq Actors
  /\ serves \in [Actors -> Services]
  /\ info \in [Actors -> 0..Outdated]
  /\ instance \in [Actors -> 0..Outdated]
  /\ contact \in [Actors -> [age : 0..Outdated, avatar : Avatar \cup {NoAvatar}]]
  /\ mediaUrl \in Seq(Pictures) /\ Len(mediaUrl) <= MaxIds
  /\ mediaId \in [Pictures -> 0..MaxIds]
  /\ queued \subseteq Query
  /\ faults \in 0..MaxFaults

\* What it says of the jobs, and that the id a job holds leads to its picture too:
\* a job shows the id in a contact, and stores it under its picture, later than it
\* got it.
JobsOK ==
  /\ running \in [Workers -> Job \cup {Idle}]
  /\ \A w \in Workers : running[w] # Idle =>
       Fits(running[w]) /\ Leads(mediaUrl, running[w].avatar)

MediaInv == StoreOK /\ JobsOK /\ AvatarsResolve

\* The tree of ids is left alone or gets one more.
Grows ==
  \/ mediaUrl' = mediaUrl
  \/ Len(mediaUrl) < MaxIds /\ \E u \in Pictures : mediaUrl' = Append(mediaUrl, u)

-----------------------------------------------------------------------------
(* Lemmas *)

\* A worker at a step of a job runs one.
LEMMA JobInUse ==
  ASSUME JobsOK, NEW w \in Workers, running[w].pc # "idle"
  PROVE  /\ running[w] \in Job /\ running[w] # Idle
         /\ Fits(running[w]) /\ Leads(mediaUrl, running[w].avatar)
BY DEF JobsOK, Idle

\* An avatar that leads to its picture goes on doing so: no id is given away twice.
LEMMA LeadsOn ==
  ASSUME StoreOK, Grows, NEW avatar \in Avatar \cup {NoAvatar}, Leads(mediaUrl, avatar)
  PROVE  Leads(mediaUrl', avatar)
<1>1. avatar.id \in Nat /\ mediaUrl \in Seq(Pictures)
  BY ProfilesAssumption DEF Avatar, NoAvatar, StoreOK
<1>2. CASE mediaUrl' = mediaUrl
  BY <1>2
<1>3. ASSUME NEW u \in Pictures, mediaUrl' = Append(mediaUrl, u) PROVE Leads(mediaUrl', avatar)
  <2>1. Len(mediaUrl') = Len(mediaUrl) + 1
    BY <1>1, <1>3
  <2>2. \A i \in 1..Len(mediaUrl) : mediaUrl'[i] = mediaUrl[i]
    BY <1>1, <1>3
  <2> QED BY <1>1, <2>1, <2>2 DEF Leads
<1> QED BY <1>2, <1>3 DEF Grows

\* The step of one worker keeps what is said of the jobs if it is so of that
\* worker's new one.
LEMMA OneJob ==
  ASSUME StoreOK, JobsOK, Grows, NEW w \in Workers, NEW new,
         running' = [running EXCEPT ![w] = new],
         new = Idle \/ (new \in Job /\ Fits(new) /\ Leads(mediaUrl', new.avatar))
  PROVE  JobsOK'
<1>1. running'[w] = new /\ \A v \in Workers \ {w} : running'[v] = running[v]
  BY DEF JobsOK
<1>2. running' \in [Workers -> Job \cup {Idle}]
  BY DEF JobsOK
<1>3. ASSUME NEW v \in Workers, running'[v] # Idle
      PROVE  Fits(running'[v]) /\ Leads(mediaUrl', running'[v].avatar)
  <2>1. CASE v = w
    BY <1>1, <1>3, <2>1
  <2>2. CASE v # w
    <3>1. running[v] \in Job /\ Fits(running[v]) /\ Leads(mediaUrl, running[v].avatar)
      BY <1>1, <1>3, <2>2 DEF JobsOK
    <3>2. running[v].avatar \in Avatar \cup {NoAvatar}
      BY <3>1 DEF Job
    <3> QED BY <1>1, <2>2, <3>1, <3>2, LeadsOn
  <2> QED BY <2>1, <2>2
<1> QED BY <1>2, <1>3 DEF JobsOK, Fits, StepsOf

\* The job of worker w goes on with step pc, or is done, and no tree changes.
LEMMA GoesOn ==
  ASSUME MediaInv, NEW w \in Workers, running[w].pc # "idle",
         UNCHANGED <<world, rows, media>>, queued' \subseteq Query, faults' \in 0..MaxFaults,
         NEW new,
         running' = [running EXCEPT ![w] = new],
         new = Idle \/ (new \in Job /\ Fits(new) /\ Leads(mediaUrl, new.avatar))
  PROVE  MediaInv'
<1>1. StoreOK' /\ mediaUrl' = mediaUrl
  BY DEF MediaInv, StoreOK, world, rows, media
<1>2. JobsOK'
  BY <1>1, OneJob DEF MediaInv, Grows
<1>3. AvatarsResolve'
  BY DEF MediaInv, AvatarsResolve, Resolves, rows, media
<1> QED BY <1>1, <1>2, <1>3 DEF MediaInv

\* A job that only goes to another of its steps.
LEMMA GoesTo ==
  ASSUME MediaInv, NEW w \in Workers, running[w].pc # "idle", NEW pc \in StepsOf(Kind(w)),
         Kind(w) = "instance" /\ pc \in AvatarSteps => running[w].avatar \in Avatar,
         Goto(w, pc), UNCHANGED <<world, rows, media, queued, faults>>
  PROVE  MediaInv'
<1> DEFINE q == running[w]
<1> DEFINE new == [q EXCEPT !.pc = pc]
<1>1. q \in Job /\ Fits(q) /\ Leads(mediaUrl, q.avatar)
  BY JobInUse DEF MediaInv
<1>2. pc \in Steps
  BY <1>1 DEF Kind, Job, Query, Kinds, StepsOf, Steps, AvatarSteps
<1>3. new \in Job /\ new.pc = pc /\ new.query = q.query /\ new.avatar = q.avatar
  BY <1>1, <1>2 DEF Job
<1>4. Fits(new) /\ Leads(mediaUrl, new.avatar)
  BY <1>1, <1>3 DEF Fits, Kind
<1>5. running' = [running EXCEPT ![w] = new]
  BY DEF Goto
<1>6. queued' \subseteq Query /\ faults' \in 0..MaxFaults
  BY DEF MediaInv, StoreOK
<1> HIDE DEF new
<1> QED BY <1>3, <1>4, <1>5, <1>6, GoesOn

\* A job that ends, well or not, and may be queued again.
LEMMA Ends ==
  ASSUME MediaInv, NEW w \in Workers, running[w].pc # "idle", Done(w),
         UNCHANGED <<world, rows, media>>, queued' \subseteq Query, faults' \in 0..MaxFaults
  PROVE  MediaInv'
BY GoesOn DEF Done

\* A job that fails or ends holds no id any more.
LEMMA FailsOrEnds ==
  ASSUME MediaInv, NEW w \in Workers, running[w].pc # "idle",
         (Done(w) /\ UNCHANGED queued) \/ Failed(w),
         UNCHANGED <<world, rows, media>>, faults' \in 0..MaxFaults
  PROVE  MediaInv'
<1>1. Done(w) /\ running[w].query \in Query
  BY JobInUse DEF Failed, MediaInv, Job
<1>2. queued' \subseteq Query
  BY <1>1 DEF Failed, MediaInv, StoreOK
<1> QED BY <1>1, <1>2, Ends

-----------------------------------------------------------------------------
(* The steps. *)

\* The checks of freshness touch no id.
LEMMA ChecksKeepInv ==
  ASSUME MediaInv, NEW w \in Workers,
         CheckContact(w) \/ CheckInstance(w) \/ CheckInfo(w) \/ CheckOwnContact(w)
  PROVE  MediaInv'
<1> DEFINE q == running[w]
<1>1. faults' \in 0..MaxFaults /\ queued' \subseteq Query /\ q.pc # "idle"
  BY DEF MediaInv, StoreOK, CheckContact, CheckInstance, CheckInfo, CheckOwnContact, At
<1>2. q \in Job /\ Fits(q) /\ Leads(mediaUrl, q.avatar)
  BY <1>1, JobInUse DEF MediaInv
<1>3. CASE CheckContact(w)
  <2>1. /\ "fetch" \in StepsOf(Kind(w)) /\ "checkInstance" \in StepsOf(Kind(w))
        /\ "fetch" \notin AvatarSteps /\ "checkInstance" \notin AvatarSteps
    BY <1>3 DEF CheckContact, StepsOf, AvatarSteps
  <2>2. Goto(w, "fetch") \/ Goto(w, "checkInstance")
    BY <1>3 DEF CheckContact
  <2> QED BY <1>1, <1>3, <2>1, <2>2, GoesTo DEF CheckContact
<1>4. CASE CheckInstance(w)
  <2>1. "fetch" \in StepsOf(Kind(w)) /\ "fetch" \notin AvatarSteps
    BY <1>2 DEF Kind, Job, Query, Kinds, StepsOf, AvatarSteps
  <2>2. Goto(w, "fetch") \/ Done(w)
    BY <1>4 DEF CheckInstance
  <2> QED BY <1>1, <1>4, <2>1, <2>2, GoesTo, Ends DEF CheckInstance
<1>5. CASE CheckInfo(w) \/ CheckOwnContact(w)
  <2>1. "fetch" \in StepsOf(Kind(w)) /\ "fetch" \notin AvatarSteps
    BY <1>2 DEF Kind, Job, Query, Kinds, StepsOf, AvatarSteps
  <2>2. Goto(w, "fetch") \/ Done(w)
    BY <1>5 DEF CheckInfo, CheckOwnContact
  <2> QED BY <1>1, <1>5, <2>1, <2>2, GoesTo, Ends DEF CheckInfo, CheckOwnContact
<1> QED BY <1>3, <1>4, <1>5

\* Nor does the answer of the server.
LEMMA FetchesKeepInv ==
  ASSUME MediaInv, NEW w \in Workers, FetchInstance(w) \/ FetchInfo(w) \/ FetchContact(w)
  PROVE  MediaInv'
<1> DEFINE q == running[w]
<1>1. q.pc = "fetch" /\ UNCHANGED <<world, rows, media, faults>> /\ faults' \in 0..MaxFaults
  BY DEF MediaInv, StoreOK, FetchInstance, FetchInfo, FetchContact, Fetch, At
<1>2. q \in Job /\ Fits(q) /\ Leads(mediaUrl, q.avatar)
  BY <1>1, JobInUse DEF MediaInv
<1>3. CASE (Done(w) /\ UNCHANGED queued) \/ Failed(w)
  BY <1>1, <1>3, FailsOrEnds
<1>4. ASSUME UNCHANGED queued, Goto(w, "setInstance"), Kind(w) = "instance" PROVE MediaInv'
  BY <1>1, <1>4, GoesTo DEF StepsOf, AvatarSteps
<1>5. ASSUME UNCHANGED queued, Goto(w, "setContact"), Kind(w) = "contact" PROVE MediaInv'
  BY <1>1, <1>5, GoesTo DEF StepsOf, AvatarSteps
<1>6. ASSUME UNCHANGED queued, Kind(w) = "instance", NEW u \in Pictures,
             running' = [running EXCEPT ![w].pc = "avatar",
                                        ![w].avatar = [id |-> 0, picture |-> u]]
      PROVE  MediaInv'
  <2> DEFINE new == [q EXCEPT !.pc = "avatar", !.avatar = [id |-> 0, picture |-> u]]
  <2>1. [id |-> 0, picture |-> u] \in Avatar
    BY ProfilesAssumption DEF Avatar
  <2>2. /\ new \in Job /\ new.pc = "avatar" /\ new.query = q.query
        /\ new.avatar = [id |-> 0, picture |-> u]
    BY <1>2, <2>1 DEF Job, Steps, AvatarSteps
  <2>3. Fits(new) /\ Leads(mediaUrl, new.avatar)
    BY <1>6, <2>1, <2>2 DEF Fits, Leads, StepsOf, AvatarSteps, Kind
  <2>4. running' = [running EXCEPT ![w] = new]
    BY <1>6
  <2>5. queued' \subseteq Query
    BY <1>6 DEF MediaInv, StoreOK
  <2> HIDE DEF new
  <2> QED BY <1>1, <2>2, <2>3, <2>4, <2>5, GoesOn
<1>7. ASSUME UNCHANGED queued, Kind(w) = "nodeinfo", NEW named \in BOOLEAN,
             running' = [running EXCEPT ![w].pc = "setInfo", ![w].named = named]
      PROVE  MediaInv'
  <2> DEFINE new == [q EXCEPT !.pc = "setInfo", !.named = named]
  <2>1. new \in Job /\ new.pc = "setInfo" /\ new.query = q.query /\ new.avatar = q.avatar
    BY <1>2 DEF Job, Steps
  <2>2. Fits(new) /\ Leads(mediaUrl, new.avatar)
    BY <1>2, <1>7, <2>1 DEF Fits, StepsOf, AvatarSteps, Kind
  <2>3. running' = [running EXCEPT ![w] = new]
    BY <1>7
  <2>4. queued' \subseteq Query
    BY <1>7 DEF MediaInv, StoreOK
  <2> HIDE DEF new
  <2> QED BY <1>1, <2>1, <2>2, <2>3, <2>4, GoesOn
<1>8. CASE FetchInstance(w)
  BY <1>3, <1>4, <1>6, <1>8 DEF FetchInstance, Fetch
<1>9. CASE FetchInfo(w)
  BY <1>3, <1>7, <1>9 DEF FetchInfo, Fetch
<1>10. CASE FetchContact(w)
  BY <1>3, <1>5, <1>10 DEF FetchContact, Fetch
<1> QED BY <1>8, <1>9, <1>10

\* The rows of contacts and the tree of pictures, in the terms of the invariant.
LEMMA ResolvesIsLeads ==
  AvatarsResolve <=>
    /\ \A a \in Actors : Leads(mediaUrl, contact[a].avatar)
    /\ \A u \in Pictures : Leads(mediaUrl, [id |-> mediaId[u], picture |-> u])
BY DEF AvatarsResolve, Resolves, Leads

\* A job with a picture to store is a QueryInstance, and knows the picture.
LEMMA Storing ==
  ASSUME JobsOK, NEW w \in Workers, running[w].pc \in {"avatar", "saveUrl", "saveId"}
  PROVE  /\ running[w] \in Job /\ running[w].query.kind = "instance"
         /\ running[w].avatar \in Avatar /\ Leads(mediaUrl, running[w].avatar)
BY JobInUse DEF Fits, StepsOf, AvatarSteps, Job, Query, Kinds

\* get_uuid finds an id that leads to its picture, or a new one is drawn.
LEMMA GetIdKeepsInv ==
  ASSUME MediaInv, NEW w \in Workers, GetId(w)
  PROVE  MediaInv'
<1> DEFINE q == running[w]
<1> DEFINE u == q.avatar.picture
<1> DEFINE found == [q.avatar EXCEPT !.id = mediaId[u]]
<1> DEFINE new == [q EXCEPT !.pc = "setContact", !.avatar = found]
<1>1. q.pc = "avatar" /\ UNCHANGED <<world, rows, media, queued, faults>>
  BY DEF GetId, At
<1>2. /\ q \in Job /\ q.query.kind = "instance" /\ q.avatar \in Avatar
      /\ Leads(mediaUrl, q.avatar)
  BY <1>1, Storing DEF MediaInv
<1>3. CASE Goto(w, "saveUrl")
  BY <1>1, <1>2, <1>3, GoesTo DEF StepsOf, AvatarSteps, Kind
<1>4. CASE running' = [running EXCEPT ![w].pc = "setContact", ![w].avatar.id = mediaId[u]]
  <2>1. u \in Pictures /\ mediaId[u] \in 0..MaxIds
    BY <1>2 DEF Avatar, MediaInv, StoreOK
  <2>2. found \in Avatar /\ found = [id |-> mediaId[u], picture |-> u]
    BY <1>2, <2>1 DEF Avatar
  <2>3. Leads(mediaUrl, found)
    BY <2>1, <2>2, ResolvesIsLeads DEF MediaInv
  <2>4. running' = [running EXCEPT ![w] = new]
    BY <1>4
  <2> HIDE DEF found
  <2>5. new \in Job /\ new.pc = "setContact" /\ new.query = q.query /\ new.avatar = found
    BY <1>2, <2>2 DEF Job, Steps, AvatarSteps
  <2>6. Fits(new)
    BY <1>2, <2>2, <2>5 DEF Fits, StepsOf, AvatarSteps
  <2>7. queued' \subseteq Query /\ faults' \in 0..MaxFaults
    BY <1>1 DEF MediaInv, StoreOK
  <2> HIDE DEF new
  <2> QED BY <1>1, <2>3, <2>4, <2>5, <2>6, <2>7, GoesOn
<1> QED BY <1>3, <1>4 DEF GetId

\* The first tree of save_url leads the id to its picture.
LEMMA SaveUrlKeepsInv ==
  ASSUME MediaInv, NEW w \in Workers, SaveUrl(w)
  PROVE  MediaInv'
<1> DEFINE q == running[w]
<1> DEFINE u == q.avatar.picture
<1> DEFINE made == [q.avatar EXCEPT !.id = Len(mediaUrl) + 1]
<1> DEFINE new == [q EXCEPT !.pc = "saveId", !.avatar = made]
<1>1. /\ q.pc = "saveUrl" /\ Len(mediaUrl) < MaxIds /\ mediaUrl' = Append(mediaUrl, u)
      /\ UNCHANGED <<world, rows, mediaId, queued, faults>>
  BY DEF SaveUrl, At
<1>2. q \in Job /\ q.query.kind = "instance" /\ q.avatar \in Avatar
  BY <1>1, Storing DEF MediaInv
<1>3. u \in Pictures /\ mediaUrl \in Seq(Pictures) /\ MaxIds \in Nat
  BY <1>2, ProfilesAssumption DEF Avatar, MediaInv, StoreOK
<1>4. Grows
  BY <1>1, <1>3 DEF Grows
<1>5. made \in Avatar /\ made = [id |-> Len(mediaUrl) + 1, picture |-> u]
  BY <1>1, <1>2, <1>3 DEF Avatar
<1>6. Leads(mediaUrl', made)
  BY <1>1, <1>3, <1>5 DEF Leads
<1>7. StoreOK'
  BY <1>1, <1>3 DEF MediaInv, StoreOK, world, rows
<1>8. JobsOK'
  <2>1. running' = [running EXCEPT ![w] = new]
    BY DEF SaveUrl
  <2> HIDE DEF made
  <2>2. new \in Job /\ new.pc = "saveId" /\ new.query = q.query /\ new.avatar = made
    BY <1>2, <1>5 DEF Job, Steps, AvatarSteps
  <2>3. Fits(new)
    BY <1>2, <1>5, <2>2 DEF Fits, StepsOf, AvatarSteps
  <2> HIDE DEF new
  <2> QED BY <1>4, <1>6, <2>1, <2>2, <2>3, OneJob DEF MediaInv
<1>9. AvatarsResolve'
  <2>1. contact' = contact /\ mediaId' = mediaId
    BY <1>1 DEF rows
  <2>2. ASSUME NEW a \in Actors PROVE Leads(mediaUrl', contact[a].avatar)
    <3>1. contact[a].avatar \in Avatar \cup {NoAvatar} /\ Leads(mediaUrl, contact[a].avatar)
      BY ResolvesIsLeads DEF MediaInv, StoreOK
    <3> QED BY <1>4, <3>1, LeadsOn DEF MediaInv
  <2>3. ASSUME NEW v \in Pictures PROVE Leads(mediaUrl', [id |-> mediaId[v], picture |-> v])
    <3>1. [id |-> mediaId[v], picture |-> v] \in Avatar
      BY DEF Avatar, MediaInv, StoreOK
    <3>2. Leads(mediaUrl, [id |-> mediaId[v], picture |-> v])
      BY ResolvesIsLeads DEF MediaInv
    <3> QED BY <1>4, <3>1, <3>2, LeadsOn DEF MediaInv
  <2> QED BY <2>1, <2>2, <2>3 DEF AvatarsResolve, Resolves, Leads
<1> QED BY <1>7, <1>8, <1>9 DEF MediaInv

\* The second tree makes a resolvable id the one in use.
LEMMA SaveIdKeepsInv ==
  ASSUME MediaInv, NEW w \in Workers, SaveId(w)
  PROVE  MediaInv'
<1> DEFINE q == running[w]
<1> DEFINE new == [q EXCEPT !.pc = "setContact"]
<1>1. /\ q.pc = "saveId" /\ mediaId' = [mediaId EXCEPT ![q.avatar.picture] = q.avatar.id]
      /\ UNCHANGED <<world, rows, mediaUrl, queued, faults>>
  BY DEF SaveId, At
<1>2. /\ q \in Job /\ q.query.kind = "instance" /\ q.avatar \in Avatar
      /\ Leads(mediaUrl, q.avatar)
  BY <1>1, Storing DEF MediaInv
<1>3. q.avatar.picture \in Pictures /\ q.avatar.id \in 0..MaxIds
  BY <1>2 DEF Avatar
<1>4. StoreOK'
  BY <1>1, <1>3 DEF MediaInv, StoreOK, world, rows
<1>5. JobsOK'
  <2>1. running' = [running EXCEPT ![w] = new]
    BY DEF SaveId, Goto
  <2>2. new \in Job /\ new.pc = "setContact" /\ new.query = q.query /\ new.avatar = q.avatar
    BY <1>2 DEF Job, Steps, AvatarSteps
  <2>3. Fits(new)
    BY <1>2, <2>2 DEF Fits, StepsOf, AvatarSteps
  <2> HIDE DEF new
  <2> QED BY <1>1, <1>2, <2>1, <2>2, <2>3, OneJob DEF MediaInv, Grows
<1>6. AvatarsResolve'
  <2>1. contact' = contact /\ mediaUrl' = mediaUrl
    BY <1>1 DEF rows
  <2>2. ASSUME NEW v \in Pictures PROVE Leads(mediaUrl, [id |-> mediaId'[v], picture |-> v])
    <3>1. CASE v = q.avatar.picture
      BY <1>1, <1>2, <3>1 DEF Leads, MediaInv, StoreOK
    <3>2. CASE v # q.avatar.picture
      BY <1>1, <3>2, ResolvesIsLeads DEF MediaInv, StoreOK
    <3> QED BY <3>1, <3>2
  <2>3. \A a \in Actors : Leads(mediaUrl, contact[a].avatar)
    BY ResolvesIsLeads DEF MediaInv
  <2> QED BY <2>1, <2>2, <2>3 DEF AvatarsResolve, Resolves, Leads
<1> QED BY <1>4, <1>5, <1>6 DEF MediaInv

\* The contact takes its id from the job that holds it.
LEMMA SetContactKeepsInv ==
  ASSUME MediaInv, NEW w \in Workers, SetContact(w)
  PROVE  MediaInv'
<1> DEFINE q == running[w]
<1> DEFINE new == [q EXCEPT !.pc = "setInstance", !.avatar = NoAvatar]
<1> DEFINE row == [age |-> 0, avatar |-> q.avatar]
<1>1. /\ q.pc = "setContact" /\ contact' = [contact EXCEPT ![Of(w)] = row]
      /\ UNCHANGED <<world, info, instance, media, queued, faults>>
  BY DEF SetContact, At
<1>2. q \in Job /\ Fits(q) /\ Leads(mediaUrl, q.avatar) /\ Of(w) \in Actors
  BY <1>1, JobInUse DEF MediaInv, Job, Query, Of
<1>3. row \in [age : 0..Outdated, avatar : Avatar \cup {NoAvatar}]
  BY <1>2, ProfilesAssumption DEF Job
<1>4. StoreOK'
  BY <1>1, <1>2, <1>3 DEF MediaInv, StoreOK, world, media
<1>5. JobsOK'
  <2>1. Grows
    BY <1>1 DEF Grows, media
  <2>2. CASE Done(w)
    BY <2>1, <2>2, OneJob DEF MediaInv, Done
  <2>3. CASE Kind(w) = "instance" /\ running' = [running EXCEPT ![w] = new]
    <3>1. new \in Job /\ new.pc = "setInstance" /\ new.query = q.query /\ new.avatar = NoAvatar
      BY <1>2 DEF Job, Steps
    <3>2. Fits(new) /\ Leads(mediaUrl', new.avatar)
      BY <2>3, <3>1 DEF Fits, StepsOf, AvatarSteps, Kind, Leads, NoAvatar
    <3> HIDE DEF new
    <3> QED BY <2>1, <2>3, <3>1, <3>2, OneJob DEF MediaInv
  <2> QED BY <2>2, <2>3 DEF SetContact
<1>6. AvatarsResolve'
  <2>1. mediaUrl' = mediaUrl /\ mediaId' = mediaId
    BY <1>1 DEF media
  <2>2. ASSUME NEW a \in Actors PROVE Leads(mediaUrl, contact'[a].avatar)
    <3>1. CASE a = Of(w)
      <4>1. contact'[a] = row
        BY <1>1, <3>1 DEF MediaInv, StoreOK
      <4> QED BY <1>2, <4>1
    <3>2. CASE a # Of(w)
      <4>1. contact'[a] = contact[a]
        BY <1>1, <3>2 DEF MediaInv, StoreOK
      <4> QED BY <4>1, ResolvesIsLeads DEF MediaInv
    <3> QED BY <3>1, <3>2
  <2>3. \A u \in Pictures : Leads(mediaUrl, [id |-> mediaId[u], picture |-> u])
    BY ResolvesIsLeads DEF MediaInv
  <2> QED BY <2>1, <2>2, <2>3 DEF AvatarsResolve, Resolves, Leads
<1> QED BY <1>4, <1>5, <1>6 DEF MediaInv

\* The rows of infos and instances, and the query for the contact.
LEMMA SetsKeepInv ==
  ASSUME MediaInv, NEW w \in Workers, SetInstance(w) \/ SetInfo(w) \/ QueueContact(w)
  PROVE  MediaInv'
<1> DEFINE q == running[w]
<1>1. q.pc # "idle" /\ UNCHANGED <<world, contact, media, faults>>
  BY DEF SetInstance, SetInfo, QueueContact, At, rows
<1>2. q \in Job /\ Fits(q) /\ Leads(mediaUrl, q.avatar) /\ Of(w) \in Actors
  BY <1>1, JobInUse DEF MediaInv, Job, Query, Of
<1>3. StoreOK'
  <2>1. info' \in [Actors -> 0..Outdated] /\ instance' \in [Actors -> 0..Outdated]
    <3>1. /\ info' = info \/ info' = [info EXCEPT ![Of(w)] = 0]
          /\ instance' = instance \/ instance' = [instance EXCEPT ![Of(w)] = 0]
      BY DEF SetInstance, SetInfo, QueueContact, rows
    <3>2. 0 \in 0..Outdated
      BY ProfilesAssumption
    <3> QED BY <1>2, <3>1, <3>2 DEF MediaInv, StoreOK
  <2>2. queued' \subseteq Query
    BY <1>2 DEF MediaInv, StoreOK, SetInstance, SetInfo, QueueContact, NewQuery, Query, Kinds
  <2> QED BY <1>1, <2>1, <2>2 DEF MediaInv, StoreOK, world, media
<1>4. JobsOK'
  <2>1. Grows /\ mediaUrl' = mediaUrl
    BY <1>1 DEF Grows, media
  <2>2. CASE Done(w)
    BY <2>1, <2>2, OneJob DEF MediaInv, Done
  <2>3. CASE SetInfo(w) /\ Goto(w, "queueContact")
    <3> DEFINE new == [q EXCEPT !.pc = "queueContact"]
    <3>1. new \in Job /\ new.pc = "queueContact" /\ new.query = q.query /\ new.avatar = q.avatar
      BY <1>2 DEF Job, Steps
    <3>2. q.query.kind = "nodeinfo"
      BY <1>2, <2>3 DEF SetInfo, At, Fits, StepsOf, AvatarSteps, Job, Query, Kinds
    <3>3. Fits(new) /\ Leads(mediaUrl', new.avatar)
      BY <1>2, <2>1, <3>1, <3>2 DEF Fits, StepsOf, AvatarSteps
    <3>4. running' = [running EXCEPT ![w] = new]
      BY <2>3 DEF Goto
    <3> HIDE DEF new
    <3> QED BY <2>1, <3>1, <3>3, <3>4, OneJob DEF MediaInv
  <2> QED BY <2>2, <2>3 DEF SetInstance, SetInfo, QueueContact
<1>5. AvatarsResolve'
  BY <1>1 DEF MediaInv, AvatarsResolve, Resolves, media
<1> QED BY <1>3, <1>4, <1>5 DEF MediaInv

\* A job that begins holds no id.
LEMMA TakeKeepsInv ==
  ASSUME MediaInv, NEW w \in Workers, NEW query \in queued, Take(w, query)
  PROVE  MediaInv'
<1> DEFINE new == [pc |-> "check", query |-> query, named |-> FALSE,
                   avatar |-> NoAvatar]
<1>1. query \in Query
  BY DEF MediaInv, StoreOK
<1>2. new \in Job /\ Leads(mediaUrl', new.avatar)
  BY <1>1 DEF Job, Steps, Leads, NoAvatar
<1>3. Fits(new)
  BY <1>1 DEF Fits, StepsOf, AvatarSteps, Query, Kinds
<1>4. StoreOK' /\ UNCHANGED <<rows, media>>
  BY DEF Take, MediaInv, StoreOK, world, rows, media
<1>5. running' = [running EXCEPT ![w] = new]
  BY DEF Take
<1> HIDE DEF new
<1>6. JobsOK'
  BY <1>2, <1>3, <1>4, <1>5, OneJob DEF MediaInv, Grows, media
<1>7. AvatarsResolve'
  BY <1>4 DEF MediaInv, AvatarsResolve, Resolves, rows, media
<1> QED BY <1>4, <1>6, <1>7 DEF MediaInv

\* What is not done by a job, but for the restart, which ends them all.
LEMMA WorldKeepsInv ==
  ASSUME MediaInv,
         \/ Listeners \/ ListenersError \/ Tick \/ Restart
         \/ \E a \in Actors : Join(a) \/ Leave(a)
         \/ \E a \in Actors, service \in Services : Serve(a, service)
  PROVE  MediaInv'
<1>1. \A actors \in SUBSET Actors : Queries(actors) \subseteq Query
  BY DEF Queries, NewQuery, Query, Kinds
<1>2. connected' \subseteq Actors /\ serves' \in [Actors -> Services] /\ UNCHANGED media
  BY DEF MediaInv, StoreOK, Listeners, ListenersError, Tick, Restart, Join, Leave, Serve, world
<1>3. queued' \subseteq Query
  <2>1. queued \subseteq Query /\ connected \subseteq Actors
    BY DEF MediaInv, StoreOK
  <2>2. CASE Listeners \/ ListenersError
    BY <1>1, <2>1, <2>2 DEF Listeners, ListenersError
  <2>3. CASE \E a \in Actors : Join(a)
    BY <1>1, <2>1, <2>3 DEF Join
  <2>4. CASE queued' = queued \/ queued' = {}
    BY <2>1, <2>4
  <2> QED BY <2>2, <2>3, <2>4 DEF Tick, Restart, Leave, Serve
<1>4. faults' \in 0..MaxFaults
  <2>1. faults' = faults \/ (faults < MaxFaults /\ faults' = faults + 1)
    BY DEF Listeners, ListenersError, Tick, Restart, Join, Leave, Serve
  <2> QED BY <2>1, ProfilesAssumption DEF MediaInv, StoreOK
<1>5. /\ info' \in [Actors -> 0..Outdated] /\ instance' \in [Actors -> 0..Outdated]
      /\ contact' \in [Actors -> [age : 0..Outdated, avatar : Avatar \cup {NoAvatar}]]
      /\ \A a \in Actors : contact'[a].avatar = contact[a].avatar
  <2>1. CASE Tick
    <3>1. \A age \in 0..Outdated : Older(age) \in 0..Outdated
      BY ProfilesAssumption DEF Older
    <3>2. ASSUME NEW a \in Actors
          PROVE  LET new == [contact[a] EXCEPT !.age = Older(contact[a].age)] IN
                   /\ new \in [age : 0..Outdated, avatar : Avatar \cup {NoAvatar}]
                   /\ new.avatar = contact[a].avatar
      BY <3>1 DEF MediaInv, StoreOK
    <3> QED BY <2>1, <3>1, <3>2 DEF Tick, MediaInv, StoreOK
  <2>2. CASE UNCHANGED rows
    BY <2>2 DEF MediaInv, StoreOK, rows
  <2> QED BY <2>1, <2>2 DEF Listeners, ListenersError, Restart, Join, Leave, Serve
<1>6. StoreOK'
  BY <1>2, <1>3, <1>4, <1>5 DEF MediaInv, StoreOK, media
<1>7. JobsOK'
  <2>1. running' = running \/ running' = [w \in Workers |-> Idle]
    BY DEF Listeners, ListenersError, Tick, Restart, Join, Leave, Serve
  <2>2. \A w \in Workers : running'[w] = running[w] \/ running'[w] = Idle
    BY <2>1
  <2>3. running' \in [Workers -> Job \cup {Idle}]
    BY <2>1 DEF MediaInv, JobsOK
  <2> QED BY <1>2, <2>2, <2>3 DEF MediaInv, JobsOK, media
<1>8. AvatarsResolve'
  BY <1>2, <1>5 DEF MediaInv, AvatarsResolve, Resolves, media
<1> QED BY <1>6, <1>7, <1>8 DEF MediaInv

-----------------------------------------------------------------------------
\* Every step keeps the ids in use resolvable.
LEMMA MediaInvInductive ==
  /\ Init => MediaInv
  /\ MediaInv /\ [Next]_vars => MediaInv'
<1>1. Init => MediaInv
  <2> SUFFICES ASSUME Init PROVE MediaInv
    OBVIOUS
  <2>1. NoAvatar.id = 0 /\ 0 \in 0..Outdated /\ Outdated \in 0..Outdated /\ 0 \in 0..MaxIds
          /\ 0 \in 0..MaxFaults
    BY ProfilesAssumption DEF NoAvatar
  <2>2. mediaUrl \in Seq(Pictures) /\ Len(mediaUrl) = 0
    BY DEF Init
  <2>3. StoreOK
    BY <2>1, <2>2, ProfilesAssumption DEF Init, StoreOK
  <2>4. JobsOK
    BY DEF Init, JobsOK
  <2>5. AvatarsResolve
    BY <2>1 DEF Init, AvatarsResolve, Resolves
  <2> QED BY <2>3, <2>4, <2>5 DEF MediaInv
<1>2. MediaInv /\ [Next]_vars => MediaInv'
  <2> SUFFICES ASSUME MediaInv, [Next]_vars PROVE MediaInv'
    OBVIOUS
  <2>1. ASSUME NEW w \in Workers, JobStep(w) PROVE MediaInv'
    BY <2>1, ChecksKeepInv, FetchesKeepInv, GetIdKeepsInv, SaveUrlKeepsInv, SaveIdKeepsInv,
       SetContactKeepsInv, SetsKeepInv DEF JobStep
  <2>2. ASSUME NEW w \in Workers, JobError(w) PROVE MediaInv'
    <3>1. running[w] \in Job
      BY <2>2 DEF JobError, MediaInv, JobsOK
    <3>2. running[w].pc # "idle"
      BY <3>1 DEF Job, Steps, AvatarSteps
    <3>3. faults' \in 0..MaxFaults
      BY <2>2, ProfilesAssumption DEF JobError, MediaInv, StoreOK
    <3> QED BY <2>2, <3>2, <3>3, FailsOrEnds DEF JobError
  <2>3. ASSUME NEW w \in Workers, NEW query \in queued, Take(w, query) PROVE MediaInv'
    BY <2>3, TakeKeepsInv
  <2>4. CASE \/ Listeners \/ ListenersError \/ Tick \/ Restart
             \/ \E a \in Actors : Join(a) \/ Leave(a)
             \/ \E a \in Actors, service \in Services : Serve(a, service)
    BY <2>4, WorldKeepsInv
  <2>5. CASE UNCHANGED vars
    BY <2>5 DEF vars, MediaInv, StoreOK, JobsOK, AvatarsResolve, Resolves, world, rows, media,
                Fits, StepsOf, Leads
  <2> QED BY <2>1, <2>2, <2>3, <2>4, <2>5 DEF Next
<1> QED BY <1>1, <1>2

\* Type correctness of Profiles: the trees, the queue and the jobs, each at a step of
\* its own kind, for any number of workers.
THEOREM TypeCorrect == Spec => []TypeOK
<1>1. MediaInv => TypeOK
  BY DEF MediaInv, StoreOK, JobsOK, TypeOK
<1> QED BY <1>1, MediaInvInductive, PTL DEF Spec

\* However many workers race for the ids of however many pictures, save_url half
\* done, failed or cut off, every id in use leads to the picture it was made for.
THEOREM AvatarsAlwaysResolve == Spec => []AvatarsResolve
<1>1. MediaInv => AvatarsResolve
  BY DEF MediaInv
<1> QED BY <1>1, MediaInvInductive, PTL DEF Spec
=============================================================================
