---------------------------- MODULE FanoutProofs ----------------------------
(***************************************************************************)
(* Proofs about Fanout, for every set of servers, objects, slots and       *)
(* configurations and any number of activities, failures and restarts.     *)
(***************************************************************************)
EXTENDS Fanout, FiniteSetTheorems, SequenceTheorems, TLAPS

\* The types of what relaying is decided by.
Typed ==
  /\ listening \subseteq Servers
  /\ requests \in [RequestSlots -> Request \cup {NoRequest}]
  /\ jobs \in [JobSlots -> Job \cup {NoJob}]
  /\ many \in [ManySlots -> Many \cup {NoMany}]
  /\ copies \in [Objects \X Servers -> Nat]

\* The inboxes a job or a DeliverMany carries never include the object's home:
\* the list is read once and travels with them.
JobsLeaveOutHome ==
  \A j \in JobSlots : jobs[j].pc = "queue" => HomeOf[jobs[j].object] \notin jobs[j].to

ManyLeaveOutHome ==
  \A k \in ManySlots : many[k] # NoMany =>
    /\ HomeOf[many[k].object] \notin many[k].to
    /\ many[k].left \subseteq many[k].to

HomeInv == Typed /\ JobsLeaveOutHome /\ ManyLeaveOutHome /\ NeverSentHome


\* A request in use is a Request.
LEMMA RequestInUse ==
  ASSUME Typed, NEW r \in RequestSlots, requests[r] # NoRequest
  PROVE  requests[r] \in Request
BY DEF Typed

\* A job in use is a Job.
LEMMA JobInUse ==
  ASSUME Typed, NEW j \in JobSlots, jobs[j].pc # "none"
  PROVE  jobs[j] \in Job
BY DEF Typed, NoJob

\* A DeliverMany in use is a Many.
LEMMA ManyInUse ==
  ASSUME Typed, NEW k \in ManySlots, many[k].pc # "none"
  PROVE  many[k] \in Many
BY DEF Typed, NoMany

-----------------------------------------------------------------------------
(* What each step of the inbox and of the Announce and Forward jobs keeps. *)

\* The home of an object stays out while requests are accepted and queued.
LEMMA RequestsKeepHome ==
  ASSUME HomeInv, NEW r \in RequestSlots,
         \/ \E kind \in Arrivals, s \in Servers, o \in Objects : Accept(r, kind, s, o)
         \/ \E j \in JobSlots : QueueJob(r, j)
  PROVE  HomeInv'
<1> USE FanoutAssumption DEF HomeInv
<1>1. ASSUME NEW kind \in Arrivals, NEW s \in Servers, NEW o \in Objects,
             Accept(r, kind, s, o)
      PROVE  HomeInv'
  <2>1. [pc |-> "queue", kind |-> kind, origin |-> s, object |-> o] \in Request
    BY DEF Request
  <2>2. Typed'
    BY <1>1, <2>1 DEF Accept, Typed
  <2>3. JobsLeaveOutHome' /\ ManyLeaveOutHome' /\ NeverSentHome'
    BY <1>1 DEF Accept, JobsLeaveOutHome, ManyLeaveOutHome, NeverSentHome
  <2> QED BY <2>2, <2>3
<1>2. ASSUME NEW j \in JobSlots, QueueJob(r, j)
      PROVE  HomeInv'
  <2> DEFINE new == [pc |-> FirstStep(requests[r].kind), kind |-> requests[r].kind,
                     origin |-> requests[r].origin, object |-> requests[r].object,
                     to |-> {}, tries |-> 0]
  <2>1. requests[r] \in Request
    BY <1>2, RequestInUse DEF QueueJob
  <2>2. new \in Job /\ new.pc # "queue"
    BY <2>1 DEF Request, Job, FirstStep, Kinds
  <2>3. jobs' = [jobs EXCEPT ![j] = new]
    BY <1>2 DEF QueueJob
  <2> HIDE DEF new
  <2>4. Typed'
    <3>1. jobs' \in [JobSlots -> Job \cup {NoJob}]
      BY <2>2, <2>3 DEF Typed
    <3>2. requests' \in [RequestSlots -> Request \cup {NoRequest}]
      BY <1>2 DEF QueueJob, Typed
    <3> QED BY <1>2, <3>1, <3>2 DEF QueueJob, Typed
  <2>5. JobsLeaveOutHome'
    BY <2>2, <2>3 DEF Typed, JobsLeaveOutHome
  <2>6. ManyLeaveOutHome' /\ NeverSentHome'
    BY <1>2 DEF QueueJob, ManyLeaveOutHome, NeverSentHome
  <2> QED BY <2>4, <2>5, <2>6
<1> QED BY <1>1, <1>2

\* The home of an object stays out of what a job reads and queues.
LEMMA JobsKeepHome ==
  ASSUME HomeInv, NEW j \in JobSlots, JobStep(j) \/ JobError(j)
  PROVE  HomeInv'
<1> USE FanoutAssumption DEF HomeInv
<1>1. jobs[j] \in Job
  BY JobInUse DEF JobStep, JobError, CheckReceiveOnly, ReadInboxes, QueueMany, CacheObject
<1>2. CASE CheckReceiveOnly(j)
  <2>1. jobs'[j] = NoJob \/ jobs'[j] = [jobs[j] EXCEPT !.pc = "inboxes"]
    BY <1>2 DEF CheckReceiveOnly, Typed
  <2>2. jobs'[j] \in Job \cup {NoJob} /\ jobs'[j].pc # "queue"
    BY <1>1, <2>1 DEF Job, NoJob
  <2>3. Typed' /\ JobsLeaveOutHome'
    BY <1>2, <2>2 DEF CheckReceiveOnly, Typed, JobsLeaveOutHome
  <2> QED BY <1>2, <2>3 DEF CheckReceiveOnly, ManyLeaveOutHome, NeverSentHome
<1>3. CASE ReadInboxes(j)
  <2> DEFINE inboxes == InboxesWithout(jobs[j].origin, jobs[j].object)
  <2>1. inboxes \subseteq Servers /\ HomeOf[jobs[j].object] \notin inboxes
    BY DEF Typed, InboxesWithout
  <2>2. jobs'[j] = [jobs[j] EXCEPT !.pc = "queue", !.to = inboxes]
    BY <1>3 DEF ReadInboxes, Typed
  <2> HIDE DEF inboxes
  <2>3. /\ jobs'[j] \in Job
        /\ HomeOf[jobs'[j].object] \notin jobs'[j].to
    BY <1>1, <2>1, <2>2 DEF Job
  <2>4. Typed' /\ JobsLeaveOutHome'
    BY <1>3, <2>3 DEF ReadInboxes, Typed, JobsLeaveOutHome
  <2> QED BY <1>3, <2>4 DEF ReadInboxes, ManyLeaveOutHome, NeverSentHome
<1>4. ASSUME NEW k \in ManySlots, QueueMany(j, k)
      PROVE  HomeInv'
  <2> DEFINE new == [pc |-> "start", to |-> jobs[j].to, left |-> {}, dice |-> 0,
                     filterable |-> jobs[j].kind = "Announce", origin |-> jobs[j].origin,
                     object |-> jobs[j].object, tries |-> 0]
  <2>1. new \in Many
    <3>1. /\ jobs[j].to \in SUBSET Servers /\ jobs[j].origin \in Servers
          /\ jobs[j].object \in Objects /\ jobs[j].tries \in 0..MaxTries
      BY <1>1 DEF Job
    <3>2. 0 \in 0..(Faces - 1) /\ 0 \in 0..MaxTries
      BY FanoutAssumption
    <3> QED BY <3>1, <3>2 DEF Many
  <2>2. /\ HomeOf[new.object] \notin new.to
        /\ new.left \subseteq new.to
    BY <1>4 DEF QueueMany, JobsLeaveOutHome
  <2>3. many' = [many EXCEPT ![k] = new]
    BY <1>4 DEF QueueMany
  <2> HIDE DEF new
  <2>4. jobs'[j] = NoJob \/ jobs'[j] = [jobs[j] EXCEPT !.pc = "cache"]
    BY <1>4 DEF QueueMany, Typed
  <2>5. jobs'[j] \in Job \cup {NoJob} /\ jobs'[j].pc # "queue"
    BY <1>1, <2>4 DEF Job, NoJob
  <2>6. Typed'
    <3>1. jobs' = [jobs EXCEPT ![j] = jobs'[j]]
      BY <1>4 DEF QueueMany, Typed
    <3>2. jobs' \in [JobSlots -> Job \cup {NoJob}]
      BY <2>5, <3>1 DEF Typed
    <3>3. many' \in [ManySlots -> Many \cup {NoMany}]
      BY <2>1, <2>3 DEF Typed
    <3> QED BY <1>4, <3>2, <3>3 DEF QueueMany, Typed
  <2>7. JobsLeaveOutHome'
    BY <1>4, <2>5 DEF QueueMany, Typed, JobsLeaveOutHome
  <2>8. ManyLeaveOutHome'
    BY <2>2, <2>3 DEF Typed, ManyLeaveOutHome
  <2> QED BY <1>4, <2>6, <2>7, <2>8 DEF QueueMany, NeverSentHome
<1>5. CASE CacheObject(j)
  <2>1. jobs' = [jobs EXCEPT ![j] = NoJob] /\ UNCHANGED <<listening, requests, many, copies>>
    BY <1>5 DEF CacheObject
  <2> QED BY <2>1 DEF Typed, NoJob, JobsLeaveOutHome, ManyLeaveOutHome, NeverSentHome
<1>6. CASE JobError(j)
  <2>1. \/ jobs'[j] = NoJob
        \/ /\ jobs[j].tries # MaxTries
           /\ jobs'[j] = [jobs[j] EXCEPT !.pc = FirstStep(jobs[j].kind), !.to = {},
                                         !.tries = jobs[j].tries + 1]
    BY <1>6 DEF JobError, Typed
  <2>2. jobs[j].tries # MaxTries => jobs[j].tries + 1 \in 0..MaxTries
    BY <1>1 DEF Job
  <2>3. FirstStep(jobs[j].kind) \in {"start", "inboxes"}
    BY DEF FirstStep
  <2>4. jobs'[j] \in Job \cup {NoJob} /\ jobs'[j].pc # "queue"
    <3> DEFINE again == [jobs[j] EXCEPT !.pc = FirstStep(jobs[j].kind), !.to = {},
                                        !.tries = jobs[j].tries + 1]
    <3>1. CASE jobs'[j] = NoJob
      BY <3>1 DEF NoJob
    <3>2. CASE jobs[j].tries # MaxTries /\ jobs'[j] = again
      <4>1. again.pc = FirstStep(jobs[j].kind)
        BY <1>1 DEF Job
      <4>2. again \in Job
        BY <1>1, <2>2, <2>3, <3>2 DEF Job
      <4> QED BY <2>3, <3>2, <4>1, <4>2
    <3> QED BY <2>1, <3>1, <3>2
  <2>5. Typed' /\ JobsLeaveOutHome'
    BY <1>6, <2>4 DEF JobError, Typed, JobsLeaveOutHome
  <2> QED BY <1>6, <2>5 DEF JobError, ManyLeaveOutHome, NeverSentHome
<1> QED BY <1>2, <1>3, <1>4, <1>5, <1>6 DEF JobStep

-----------------------------------------------------------------------------
(* What each step of DeliverMany keeps, and the theorem. *)

\* The home of an object stays out of what DeliverMany works through, so that
\* no copy is queued for it, tried again or not.
LEMMA ManyKeepHome ==
  ASSUME HomeInv, NEW k \in ManySlots, ManyStep(k) \/ ManyError(k)
  PROVE  HomeInv'
<1> USE FanoutAssumption DEF HomeInv
<1>1. many[k] \in Many /\ many[k] # NoMany
  <2>1. many[k].pc \in {"start", "deliver"}
    BY DEF ManyStep, ManyError, ThrowDice, DeliverNext, FinishMany
  <2>2. many[k].pc # "none"
    BY <2>1
  <2> QED BY <2>2, ManyInUse DEF NoMany
<1>2. /\ HomeOf[many[k].object] \notin many[k].to
      /\ many[k].left \subseteq many[k].to
  BY <1>1 DEF ManyLeaveOutHome
<1>3. ASSUME NEW dice \in 0..(Faces - 1), ThrowDice(k, dice)
      PROVE  HomeInv'
  <2>1. many'[k] = [many[k] EXCEPT !.pc = "deliver", !.left = many[k].to, !.dice = dice]
    BY <1>3 DEF ThrowDice, Typed
  <2>2. /\ many'[k] \in Many
        /\ many'[k].object = many[k].object
        /\ many'[k].to = many[k].to
        /\ many'[k].left = many[k].to
    BY <1>1, <2>1 DEF Many
  <2>3. Typed' /\ ManyLeaveOutHome'
    BY <1>2, <1>3, <2>2 DEF ThrowDice, Typed, ManyLeaveOutHome
  <2> QED BY <1>3, <2>3 DEF ThrowDice, JobsLeaveOutHome, NeverSentHome
<1>4. ASSUME NEW t \in Servers, DeliverNext(k, t)
      PROVE  HomeInv'
  <2>1. many'[k] = [many[k] EXCEPT !.left = many[k].left \ {t}]
    BY <1>4 DEF DeliverNext, Typed
  <2>2. /\ many'[k] \in Many
        /\ many'[k].object = many[k].object
        /\ many'[k].to = many[k].to
        /\ many'[k].left \subseteq many[k].left
    BY <1>1, <2>1 DEF Many
  <2>3. t # HomeOf[many[k].object]
    BY <1>2, <1>4 DEF DeliverNext
  <2>4. many[k].object \in Objects
    BY <1>1 DEF Many
  <2>5. /\ copies' \in [Objects \X Servers -> Nat]
        /\ \A p \in Objects \X Servers :
             p # <<many[k].object, t>> => copies'[p] = copies[p]
    BY <1>4, <2>4 DEF DeliverNext, Typed
  <2>6. NeverSentHome'
    BY <2>3, <2>5 DEF NeverSentHome
  <2>7. Typed' /\ ManyLeaveOutHome'
    BY <1>2, <1>4, <2>2, <2>5 DEF DeliverNext, Typed, ManyLeaveOutHome
  <2> QED BY <1>4, <2>6, <2>7 DEF DeliverNext, JobsLeaveOutHome
<1>5. CASE FinishMany(k)
  BY <1>5 DEF FinishMany, Typed, JobsLeaveOutHome, ManyLeaveOutHome, NeverSentHome
<1>6. CASE ManyError(k)
  <2>1. \/ many'[k] = NoMany
        \/ /\ many[k].tries # MaxTries
           /\ many'[k] = [many[k] EXCEPT !.pc = "start", !.left = {}, !.dice = 0,
                                         !.tries = many[k].tries + 1]
    BY <1>6 DEF ManyError, Typed
  <2>2. /\ 0 \in 0..(Faces - 1)
        /\ many[k].tries # MaxTries => many[k].tries + 1 \in 0..MaxTries
    BY <1>1 DEF Many
  <2>3. \/ many'[k] = NoMany
        \/ /\ many'[k] \in Many
           /\ many'[k].object = many[k].object
           /\ many'[k].to = many[k].to
           /\ many'[k].left = {}
    <3> DEFINE new == [many[k] EXCEPT !.pc = "start", !.left = {}, !.dice = 0,
                                     !.tries = many[k].tries + 1]
    <3>1. new.object = many[k].object /\ new.to = many[k].to /\ new.left = {}
      BY <1>1 DEF Many
    <3>2. many[k].tries # MaxTries => new \in Many
      BY <1>1, <2>2 DEF Many
    <3> QED BY <2>1, <3>1, <3>2
  <2>4. Typed' /\ ManyLeaveOutHome'
    BY <1>2, <1>6, <2>3 DEF ManyError, Typed, ManyLeaveOutHome
  <2> QED BY <1>6, <2>4 DEF ManyError, JobsLeaveOutHome, NeverSentHome
<1> QED BY <1>3, <1>4, <1>5, <1>6 DEF ManyStep

\* At the start nothing is on its way anywhere.
LEMMA InitHome == Init => HomeInv
BY FanoutAssumption DEF Init, HomeInv, Typed, JobsLeaveOutHome, ManyLeaveOutHome,
   NeverSentHome, NoJob, NoMany

\* Every step keeps the home out: listeners and configurations may change
\* freely, and a restart empties the queue.
LEMMA HomeInvStable == HomeInv /\ [Next]_vars => HomeInv'
<1> SUFFICES ASSUME HomeInv, [Next]_vars
             PROVE  HomeInv'
  OBVIOUS
<1> USE DEF HomeInv
<1>1. CASE \E r \in RequestSlots, kind \in Arrivals, s \in Servers, o \in Objects :
             Accept(r, kind, s, o)
  BY <1>1, RequestsKeepHome
<1>2. CASE \E r \in RequestSlots, j \in JobSlots : QueueJob(r, j)
  BY <1>2, RequestsKeepHome
<1>3. CASE \E j \in JobSlots : JobStep(j) \/ JobError(j)
  BY <1>3, JobsKeepHome
<1>4. CASE \E k \in ManySlots : ManyStep(k) \/ ManyError(k)
  BY <1>4, ManyKeepHome
<1>5. CASE \E s \in Servers : Churn(s)
  BY <1>5 DEF Churn, Typed, JobsLeaveOutHome, ManyLeaveOutHome, NeverSentHome
<1>6. CASE \E s \in Servers, cfg \in Configs \cup {NoConfig} : Configure(s, cfg)
  BY <1>6 DEF Configure, Typed, JobsLeaveOutHome, ManyLeaveOutHome, NeverSentHome
<1>7. CASE Restart
  BY <1>7 DEF Restart, Typed, JobsLeaveOutHome, ManyLeaveOutHome, NeverSentHome, NoJob
<1>8. CASE UNCHANGED vars
  BY <1>8 DEF vars, Typed, JobsLeaveOutHome, ManyLeaveOutHome, NeverSentHome
<1> QED BY <1>1, <1>2, <1>3, <1>4, <1>5, <1>6, <1>7, <1>8 DEF Next

\* inboxes_without is asked once per job and its answer travels with DeliverMany:
\* however the listeners change and whatever fails, no object is delivered to the
\* server it lives on.
THEOREM NothingSentHome == Spec => []NeverSentHome
<1>1. Init => HomeInv
  BY InitHome
<1>2. HomeInv /\ [Next]_vars => HomeInv'
  BY HomeInvStable
<1>3. HomeInv => NeverSentHome
  BY DEF HomeInv
<1> QED BY <1>1, <1>2, <1>3, PTL DEF Spec

-----------------------------------------------------------------------------
(* The object cache. *)

\* No Announce of o is past the cache's check.
NoneUnderWay(o) ==
  /\ \A r \in RequestSlots : requests[r] # NoRequest =>
       ~(requests[r].kind = "Announce" /\ requests[r].object = o)
  /\ \A j \in JobSlots : jobs[j] # NoJob =>
       ~(jobs[j].kind = "Announce" /\ jobs[j].object = o)

\* The only step that puts an Announce of o past the check is an Accept of it,
\* which finds o in the cache and stops; every other step passes on or ends what
\* is already past it.
LEMMA CacheKeepsOthersOut ==
  ASSUME Typed, Next, NEW o \in Objects, Cached(o), NoneUnderWay(o)
  PROVE  NoneUnderWay(o)'
<1> USE DEF NoneUnderWay
<1>1. ASSUME NEW r \in RequestSlots, NEW kind \in Arrivals, NEW s \in Servers,
             NEW x \in Objects, Accept(r, kind, s, x)
      PROVE  NoneUnderWay(o)'
  <2>1. ~(kind = "Announce" /\ x = o)
    BY <1>1 DEF Accept
  <2>2. requests'[r] = [pc |-> "queue", kind |-> kind, origin |-> s, object |-> x]
    BY <1>1 DEF Accept, Typed
  <2>3. /\ \A q \in RequestSlots \ {r} : requests'[q] = requests[q]
        /\ jobs' = jobs
    BY <1>1 DEF Accept, Typed
  <2> QED BY <2>1, <2>2, <2>3
<1>2. ASSUME NEW r \in RequestSlots, NEW j \in JobSlots, QueueJob(r, j)
      PROVE  NoneUnderWay(o)'
  <2>1. requests'[r] = NoRequest /\ \A q \in RequestSlots \ {r} : requests'[q] = requests[q]
    BY <1>2 DEF QueueJob, Typed
  <2>2. jobs'[j].kind = requests[r].kind /\ jobs'[j].object = requests[r].object
    BY <1>2 DEF QueueJob, Typed
  <2>3. \A i \in JobSlots \ {j} : jobs'[i] = jobs[i]
    BY <1>2 DEF QueueJob, Typed
  <2>4. requests[r] # NoRequest
    BY <1>2 DEF QueueJob
  <2> QED BY <2>1, <2>2, <2>3, <2>4
<1>3. ASSUME NEW j \in JobSlots, JobStep(j) \/ JobError(j)
      PROVE  NoneUnderWay(o)'
  <2>1. jobs[j] \in Job /\ jobs[j] # NoJob
    <3>1. jobs[j].pc \in {"start", "inboxes", "queue", "cache"}
      BY <1>3 DEF JobStep, JobError, CheckReceiveOnly, ReadInboxes, QueueMany, CacheObject
    <3>2. jobs[j].pc # "none"
      BY <3>1
    <3> QED BY <3>2, JobInUse DEF NoJob
  <2>2. requests' = requests /\ \A i \in JobSlots \ {j} : jobs'[i] = jobs[i]
    BY <1>3 DEF JobStep, JobError, CheckReceiveOnly, ReadInboxes, QueueMany, CacheObject,
       Typed
  <2>3. \/ jobs'[j] = NoJob
        \/ jobs'[j].kind = jobs[j].kind /\ jobs'[j].object = jobs[j].object
    <3>1. CASE CheckReceiveOnly(j)
      BY <2>1, <3>1 DEF CheckReceiveOnly, Typed, Job
    <3>2. CASE ReadInboxes(j)
      BY <2>1, <3>2 DEF ReadInboxes, Typed, Job
    <3>3. ASSUME NEW k \in ManySlots, QueueMany(j, k)
          PROVE  \/ jobs'[j] = NoJob
                 \/ jobs'[j].kind = jobs[j].kind /\ jobs'[j].object = jobs[j].object
      BY <2>1, <3>3 DEF QueueMany, Typed, Job
    <3>4. CASE CacheObject(j)
      BY <3>4 DEF CacheObject, Typed
    <3>5. CASE JobError(j)
      BY <2>1, <3>5 DEF JobError, Typed, Job
    <3> QED BY <1>3, <3>1, <3>2, <3>3, <3>4, <3>5 DEF JobStep
  <2> QED BY <2>1, <2>2, <2>3
<1>4. CASE \E k \in ManySlots : ManyStep(k) \/ ManyError(k)
  BY <1>4 DEF ManyStep, ManyError, ThrowDice, DeliverNext, FinishMany
<1>5. CASE \/ \E s \in Servers : Churn(s)
           \/ \E s \in Servers, cfg \in Configs \cup {NoConfig} : Configure(s, cfg)
  BY <1>5 DEF Churn, Configure
<1>6. CASE Restart
  BY <1>6 DEF Restart
<1> QED BY <1>1, <1>2, <1>3, <1>4, <1>5, <1>6 DEF Next

\* is_cached is read when an Announce is accepted and the cache is written at the
\* end of its job, so Announces of one object may overlap; but once those are done
\* no other is accepted while the object stays cached.
THEOREM SettledAlwaysStaysSettled == Spec => SettledStaysSettled
<1>1. Init => HomeInv
  BY InitHome
<1>2. HomeInv /\ [Next]_vars => HomeInv'
  BY HomeInvStable
<1>3. HomeInv /\ [Next]_vars =>
        [\A o \in Objects : Settled(o) /\ Cached(o)' => Settled(o)']_vars
  <2> SUFFICES ASSUME HomeInv, Next, NEW o \in Objects, Settled(o), Cached(o)'
               PROVE  Settled(o)'
    BY DEF Settled
  <2>1. Cached(o) /\ NoneUnderWay(o)
    BY DEF Settled, NoneUnderWay
  <2>2. NoneUnderWay(o)'
    BY <2>1, CacheKeepsOthersOut DEF HomeInv
  <2> QED BY <2>2 DEF Settled, NoneUnderWay
<1> QED BY <1>1, <1>2, <1>3, PTL DEF Spec, SettledStaysSettled

\* What RemoveAt leaves: all but the element at p, in order.
LEMMA RemovesOne ==
  ASSUME NEW S, NEW s \in Seq(S), NEW p \in 1..Len(s)
  PROVE  /\ RemoveAt(s, p) \in Seq(S) /\ Len(RemoveAt(s, p)) = Len(s) - 1
         /\ \A i \in 1..(Len(s) - 1) : RemoveAt(s, p)[i] = IF i < p THEN s[i] ELSE s[i + 1]
<1> DEFINE before == SubSeq(s, 1, p - 1)
           after == SubSeq(s, p + 1, Len(s))
<1>0. Len(s) \in Nat /\ p \in Nat /\ 1 <= p /\ p <= Len(s)
  OBVIOUS
<1>1. /\ before \in Seq(S) /\ Len(before) = p - 1
      /\ \A i \in 1..(p - 1) : before[i] = s[i]
  BY <1>0
<1>2. /\ after \in Seq(S) /\ Len(after) = Len(s) - p
      /\ \A i \in 1..(Len(s) - p) : after[i] = s[p + i]
  <2>1. \A i \in (p + 1)..Len(s) : s[i] \in S
    BY <1>0
  <2>2. /\ after \in Seq(S)
        /\ Len(after) = IF p + 1 <= Len(s) THEN Len(s) - (p + 1) + 1 ELSE 0
        /\ \A i \in 1..(Len(s) - (p + 1) + 1) : after[i] = s[(p + 1) + i - 1]
    BY <1>0, <2>1, SubSeqProperties
  <2> HIDE DEF after
  <2> QED BY <1>0, <2>2
<1>3. RemoveAt(s, p) = before \o after
  BY DEF RemoveAt
<1> HIDE DEF before, after
<1>4. /\ before \o after \in Seq(S) /\ Len(before \o after) = Len(before) + Len(after)
      /\ \A i \in 1..(Len(before) + Len(after)) : (before \o after)[i] =
           IF i <= Len(before) THEN before[i] ELSE after[i - Len(before)]
  BY <1>1, <1>2, ConcatProperties
<1>5. RemoveAt(s, p) \in Seq(S) /\ Len(RemoveAt(s, p)) = Len(s) - 1
  BY <1>0, <1>1, <1>2, <1>3, <1>4
<1>6. ASSUME NEW i \in 1..(Len(s) - 1)
      PROVE  RemoveAt(s, p)[i] = IF i < p THEN s[i] ELSE s[i + 1]
  <2>1. RemoveAt(s, p)[i] = IF i <= p - 1 THEN before[i] ELSE after[i - (p - 1)]
    BY <1>0, <1>1, <1>2, <1>3, <1>4
  <2>2. CASE i < p
    <3>1. i \in 1..(p - 1)
      BY <1>0, <2>2
    <3> QED BY <1>0, <1>1, <2>1, <2>2, <3>1
  <2>3. CASE ~(i < p)
    <3>1. i - (p - 1) \in 1..(Len(s) - p) /\ p + (i - (p - 1)) = i + 1 /\ ~(i <= p - 1)
      BY <1>0, <2>3
    <3>2. after[i - (p - 1)] = s[p + (i - (p - 1))]
      BY <1>2, <3>1
    <3> QED BY <2>1, <2>3, <3>1, <3>2
  <2> QED BY <2>2, <2>3
<1> QED BY <1>5, <1>6

\* What is put is the last entry and the only one of its object, the others keep
\* their order, and there is room for it.
LEMMA PutKeepsCache ==
  ASSUME NEW o \in Objects, cache \in Seq(Objects), Len(cache) <= Capacity, IsInjective(cache)
  PROVE  Put(o) \in Seq(Objects) /\ Len(Put(o)) <= Capacity /\ IsInjective(Put(o))
<1> DEFINE others == Others(o)
<1>0. Capacity \in Nat \ {0} /\ Len(cache) \in Nat /\ DOMAIN cache = 1..Len(cache)
  BY FanoutAssumption
<1>1. /\ others \in Seq(Objects) /\ Len(others) <= Capacity
      /\ \A i \in 1..Len(others) : others[i] # o
      /\ \A i, j \in 1..Len(others) : others[i] = others[j] => i = j
  <2>1. CASE Cached(o)
    <3> DEFINE p == CHOOSE i \in DOMAIN cache : cache[i] = o
    <3>1. p \in 1..Len(cache) /\ cache[p] = o
      BY <1>0, <2>1 DEF Cached
    <3>2. others = RemoveAt(cache, p)
      BY <2>1 DEF Others
    <3> HIDE DEF p, others
    <3>3. /\ others \in Seq(Objects) /\ Len(others) = Len(cache) - 1
          /\ \A i \in 1..(Len(cache) - 1) :
               others[i] = IF i < p THEN cache[i] ELSE cache[i + 1]
      BY <3>1, <3>2, RemovesOne
    <3>4. \A i, j \in 1..Len(cache) : cache[i] = cache[j] => i = j
      BY <1>0 DEF IsInjective
    <3>5. \A i \in 1..Len(others) : others[i] # o
      BY <1>0, <3>1, <3>3, <3>4
    <3>6. \A i, j \in 1..Len(others) : others[i] = others[j] => i = j
      BY <1>0, <3>1, <3>3, <3>4, SMTT(30)
    <3>7. Len(others) <= Capacity
      BY <1>0, <3>3
    <3> QED BY <3>3, <3>5, <3>6, <3>7
  <2>2. CASE ~Cached(o)
    BY <1>0, <2>2 DEF Others, Cached, IsInjective
  <2> QED BY <2>1, <2>2
<1> DEFINE kept == IF Len(others) >= Capacity THEN Tail(others) ELSE others
<1>2. Put(o) = Append(kept, o)
  BY DEF Put
<1> HIDE DEF others
<1>3. /\ kept \in Seq(Objects) /\ Len(kept) < Capacity
      /\ \A i \in 1..Len(kept) : kept[i] # o
      /\ \A i, j \in 1..Len(kept) : kept[i] = kept[j] => i = j
  <2>1. CASE Len(others) >= Capacity
    <3>1. /\ kept \in Seq(Objects) /\ Len(kept) = Len(others) - 1
          /\ \A i \in 1..Len(kept) : kept[i] = others[i + 1]
      BY <1>0, <1>1, <2>1
    <3> HIDE DEF kept
    <3> QED BY <1>0, <1>1, <3>1, SMTT(30)
  <2>2. CASE ~(Len(others) >= Capacity)
    BY <1>0, <1>1, <2>2
  <2> QED BY <2>1, <2>2
<1> HIDE DEF kept
<1>4. /\ Put(o) \in Seq(Objects) /\ Len(Put(o)) = Len(kept) + 1
      /\ Put(o)[Len(kept) + 1] = o /\ \A i \in 1..Len(kept) : Put(o)[i] = kept[i]
      /\ DOMAIN Put(o) = 1..(Len(kept) + 1)
  BY <1>2, <1>3
<1> QED BY <1>0, <1>3, <1>4 DEF IsInjective

\* The types of what Typed leaves out, but for the numbers of copies.
Rest ==
  /\ config \in [Servers -> Configs \cup {NoConfig}]
  /\ cache \in Seq(Objects) /\ Len(cache) <= Capacity /\ IsInjective(cache)
  /\ accepted \in [Objects -> Nat]
  /\ errors \in 0..MaxErrors

\* Only a job that ends with the cache writes it, and only failures are counted.
LEMMA RestStable == Typed /\ Rest /\ [Next]_vars => Rest'
<1> SUFFICES ASSUME Typed, Rest, [Next]_vars PROVE Rest'
  OBVIOUS
<1> USE DEF Rest
<1>1. CASE \E r \in RequestSlots, kind \in Arrivals, s \in Servers, o \in Objects :
             Accept(r, kind, s, o)
  BY <1>1 DEF Accept
<1>2. CASE \E r \in RequestSlots, j \in JobSlots : QueueJob(r, j)
  BY <1>2 DEF QueueJob
<1>3. ASSUME NEW j \in JobSlots, CacheObject(j)
      PROVE  Rest'
  <2>1. jobs[j] \in Job
    BY <1>3, JobInUse DEF CacheObject
  <2>2. jobs[j].object \in Objects
    BY <2>1 DEF Job
  <2> QED BY <1>3, <2>2, PutKeepsCache DEF CacheObject
<1>4. ASSUME NEW j \in JobSlots,
             CheckReceiveOnly(j) \/ ReadInboxes(j) \/ \E k \in ManySlots : QueueMany(j, k)
      PROVE  Rest'
  BY <1>4 DEF CheckReceiveOnly, ReadInboxes, QueueMany
<1>5. CASE \E k \in ManySlots : ManyStep(k)
  BY <1>5 DEF ManyStep, ThrowDice, DeliverNext, FinishMany
<1>6. CASE (\E j \in JobSlots : JobError(j)) \/ \E k \in ManySlots : ManyError(k)
  <2>1. errors < MaxErrors /\ errors' = errors + 1 /\ UNCHANGED <<config, cache, accepted>>
    BY <1>6 DEF JobError, ManyError
  <2> QED BY <2>1, FanoutAssumption
<1>7. CASE \E s \in Servers : Churn(s)
  BY <1>7 DEF Churn
<1>8. CASE \E s \in Servers, cfg \in Configs \cup {NoConfig} : Configure(s, cfg)
  BY <1>8 DEF Configure
<1>9. CASE Restart
  <2>1. /\ config' = [s \in Servers |-> NoConfig] /\ cache' = <<>>
        /\ UNCHANGED <<accepted, errors>>
    BY <1>9 DEF Restart
  <2> QED BY <2>1, FanoutAssumption DEF IsInjective
<1>10. CASE UNCHANGED vars
  BY <1>10 DEF vars
<1> QED BY <1>1, <1>2, <1>3, <1>4, <1>5, <1>6, <1>7, <1>8, <1>9, <1>10 DEF Next, JobStep

\* The types always hold: in particular the object cache holds no more than its
\* capacity and an object at most once, and no job is tried more than MaxTries
\* times again.
THEOREM TypeCorrect == Spec => []TypeOK
<1>1. Init => HomeInv
  BY InitHome
<1>2. Init => Rest
  BY FanoutAssumption DEF Init, Rest, IsInjective
<1>3. HomeInv /\ Rest /\ [Next]_vars => HomeInv' /\ Rest'
  BY HomeInvStable, RestStable DEF HomeInv
<1>4. HomeInv /\ Rest => TypeOK
  BY DEF HomeInv, Typed, Rest, TypeOK
<1> QED BY <1>1, <1>2, <1>3, <1>4, PTL DEF Spec

-----------------------------------------------------------------------------
(* What a receive-only server sends. *)

\* The Announces of s have yet to come to the check, and none has passed it.
Unheard(s) ==
  /\ \A j \in JobSlots : jobs[j] # NoJob =>
       ~(jobs[j].origin = s /\ jobs[j].kind = "Announce" /\ jobs[j].pc # "start")
  /\ Undelivered(s, "Announce")

\* No Announce of s passes the check while s is receive-only, and those that had
\* passed it before are over.
LEMMA UnheardStable ==
  ASSUME NEW s \in Servers, Typed, Unheard(s), ReceiveOnly(s), [Next]_vars
  PROVE  Unheard(s)'
<1> USE DEF Unheard, Undelivered
<1>1. ASSUME NEW r \in RequestSlots, NEW j \in JobSlots, QueueJob(r, j)
      PROVE  Unheard(s)'
  <2>1. /\ jobs'[j].pc = FirstStep(requests[r].kind) /\ jobs'[j].kind = requests[r].kind
        /\ many' = many /\ \A i \in JobSlots \ {j} : jobs'[i] = jobs[i]
    BY <1>1 DEF QueueJob, Typed
  <2> QED BY <2>1 DEF FirstStep
<1>2. ASSUME NEW j \in JobSlots, JobStep(j) \/ JobError(j)
      PROVE  Unheard(s)'
  <2>1. jobs[j] \in Job /\ jobs[j] # NoJob
    <3>1. jobs[j].pc \in {"start", "inboxes", "queue", "cache"}
      BY <1>2 DEF JobStep, JobError, CheckReceiveOnly, ReadInboxes, QueueMany, CacheObject
    <3>2. jobs[j].pc # "none"
      BY <3>1
    <3> QED BY <3>2, JobInUse DEF NoJob
  <2>2. \A i \in JobSlots \ {j} : jobs'[i] = jobs[i]
    BY <1>2 DEF JobStep, JobError, CheckReceiveOnly, ReadInboxes, QueueMany, CacheObject, Typed
  <2>3. CASE CheckReceiveOnly(j)
    BY <2>1, <2>2, <2>3 DEF CheckReceiveOnly, Typed, Job
  <2>4. CASE ReadInboxes(j)
    BY <2>1, <2>2, <2>4 DEF ReadInboxes, Typed, Job
  <2>5. ASSUME NEW k \in ManySlots, QueueMany(j, k)
        PROVE  Unheard(s)'
    <3>1. /\ jobs[j].pc = "queue" /\ many'[k].origin = jobs[j].origin
          /\ many'[k].filterable = (jobs[j].kind = "Announce")
          /\ \A l \in ManySlots \ {k} : many'[l] = many[l]
      BY <2>5 DEF QueueMany, Typed
    <3>2. \/ jobs'[j] = NoJob
          \/ jobs'[j].origin = jobs[j].origin /\ jobs'[j].kind = jobs[j].kind
      BY <2>1, <2>5 DEF QueueMany, Typed, Job
    <3> QED BY <2>1, <2>2, <3>1, <3>2
  <2>6. CASE CacheObject(j)
    BY <2>2, <2>6 DEF CacheObject, Typed
  <2>7. CASE JobError(j)
    <3>1. \/ jobs'[j] = NoJob
          \/ /\ jobs'[j].origin = jobs[j].origin /\ jobs'[j].kind = jobs[j].kind
             /\ jobs[j].pc # "start"
      BY <2>1, <2>7 DEF JobError, Typed, Job
    <3>2. many' = many
      BY <2>7 DEF JobError
    <3> QED BY <2>1, <2>2, <3>1, <3>2
  <2> QED BY <1>2, <2>3, <2>4, <2>5, <2>6, <2>7 DEF JobStep
<1>3. ASSUME NEW k \in ManySlots, ManyStep(k) \/ ManyError(k)
      PROVE  Unheard(s)'
  <2>1. many[k] \in Many /\ many[k] # NoMany
    <3>1. many[k].pc \in {"start", "deliver"}
      BY <1>3 DEF ManyStep, ManyError, ThrowDice, DeliverNext, FinishMany
    <3>2. many[k].pc # "none"
      BY <3>1
    <3> QED BY <3>2, ManyInUse DEF NoMany
  <2>2. jobs' = jobs /\ \A l \in ManySlots \ {k} : many'[l] = many[l]
    BY <1>3 DEF ManyStep, ManyError, ThrowDice, DeliverNext, FinishMany, Typed
  <2>3. \/ many'[k] = NoMany
        \/ many'[k].origin = many[k].origin /\ many'[k].filterable = many[k].filterable
    <3>1. ASSUME NEW dice \in 0..(Faces - 1), ThrowDice(k, dice)
          PROVE  many'[k].origin = many[k].origin /\ many'[k].filterable = many[k].filterable
      BY <2>1, <3>1 DEF ThrowDice, Typed, Many
    <3>2. ASSUME NEW t \in Servers, DeliverNext(k, t)
          PROVE  many'[k].origin = many[k].origin /\ many'[k].filterable = many[k].filterable
      BY <2>1, <3>2 DEF DeliverNext, Typed, Many
    <3>3. CASE FinishMany(k)
      BY <3>3 DEF FinishMany, Typed
    <3>4. CASE ManyError(k)
      BY <2>1, <3>4 DEF ManyError, Typed, Many
    <3> QED BY <1>3, <3>1, <3>2, <3>3, <3>4 DEF ManyStep
  <2> QED BY <2>1, <2>2, <2>3
<1>4. ASSUME UNCHANGED <<jobs, many>>
      PROVE  Unheard(s)'
  BY <1>4
<1>5. CASE Restart
  BY <1>5 DEF Restart
<1> QED BY <1>1, <1>2, <1>3, <1>4, <1>5 DEF Next, vars, Accept, Churn, Configure

\* receive_only is read at the start of the Announce job, which is after the
\* request was accepted and before anything is queued: from a moment when nothing
\* of a server is under way, its Announces and Creates are delivered to nobody for
\* as long as it is receive-only, without any fairness.
THEOREM ReceiveOnlyAlwaysSilencesAnnounces == Spec => ReceiveOnlySilencesAnnounces
<1> SUFFICES ASSUME NEW s \in Servers
             PROVE  Spec => [](Silent(s, "Announce") /\ []ReceiveOnly(s)
                                 => []Undelivered(s, "Announce"))
  BY DEF ReceiveOnlySilencesAnnounces
<1>1. Init => HomeInv
  BY InitHome
<1>2. HomeInv /\ [Next]_vars => HomeInv'
  BY HomeInvStable
<1>3. HomeInv /\ Unheard(s) /\ ReceiveOnly(s) /\ [Next]_vars => Unheard(s)'
  BY UnheardStable DEF HomeInv
<1>4. Silent(s, "Announce") => Unheard(s)
  BY DEF Silent, Unheard, Undelivered
<1>5. Unheard(s) => Undelivered(s, "Announce")
  BY DEF Unheard
<1> QED BY <1>1, <1>2, <1>3, <1>4, <1>5, PTL DEF Spec

-----------------------------------------------------------------------------
(* How many copies there may be. *)

\* What may still make a copy of o for t: each may make one.
RequestsFor(o) == {r \in RequestSlots : requests[r] # NoRequest /\ requests[r].object = o}
JobsFor(o) == {j \in JobSlots : jobs[j] # NoJob /\ jobs[j].pc # "cache" /\ jobs[j].object = o}
ManyFor(o, t) ==
  {k \in ManySlots : /\ many[k] # NoMany /\ many[k].object = o
                     /\ many[k].pc = "start" \/ t \in many[k].left}

Due(o, t) ==
  Cardinality(RequestsFor(o)) + Cardinality(JobsFor(o)) + Cardinality(ManyFor(o, t))

Counters ==
  /\ copies \in [Objects \X Servers -> Nat]
  /\ accepted \in [Objects -> Nat]
  /\ errors \in Nat

\* Every accepted activity and every failure pays for one copy for each server:
\* one that was made or one that is still due.
Paid ==
  \A o \in Objects, t \in Servers : copies[<<o, t>>] + Due(o, t) <= accepted[o] + errors

CopiesInv == HomeInv /\ Counters /\ Paid

\* The three sets are finite.
LEMMA DueIsFinite ==
  ASSUME NEW o, NEW t
  PROVE  /\ IsFiniteSet(RequestsFor(o)) /\ Cardinality(RequestsFor(o)) \in Nat
         /\ IsFiniteSet(JobsFor(o)) /\ Cardinality(JobsFor(o)) \in Nat
         /\ IsFiniteSet(ManyFor(o, t)) /\ Cardinality(ManyFor(o, t)) \in Nat
<1>1. /\ RequestsFor(o) \in SUBSET RequestSlots
      /\ JobsFor(o) \in SUBSET JobSlots
      /\ ManyFor(o, t) \in SUBSET ManySlots
  BY DEF RequestsFor, JobsFor, ManyFor
<1>2. IsFiniteSet(RequestsFor(o)) /\ IsFiniteSet(JobsFor(o)) /\ IsFiniteSet(ManyFor(o, t))
  BY <1>1, FanoutAssumption, FS_Subset
<1> QED BY <1>2, FS_CardinalityType

\* A set that gains at most x.
LEMMA Gains ==
  ASSUME NEW S, NEW T, NEW x, IsFiniteSet(S), T \subseteq S \cup {x}
  PROVE  Cardinality(T) \in Nat /\ Cardinality(S) \in Nat /\ Cardinality(T) <= Cardinality(S) + 1
<1>0. Cardinality(S) \in Nat
  BY FS_CardinalityType
<1>1. IsFiniteSet(S \cup {x}) /\ Cardinality(S \cup {x}) <= Cardinality(S) + 1
  <2>1. /\ IsFiniteSet(S \cup {x})
        /\ Cardinality(S \cup {x}) = IF x \in S THEN Cardinality(S) ELSE Cardinality(S) + 1
    BY FS_AddElement
  <2> QED BY <1>0, <2>1
<1>2. IsFiniteSet(T) /\ Cardinality(T) <= Cardinality(S \cup {x})
  BY <1>1, FS_Subset
<1>3. Cardinality(T) \in Nat /\ Cardinality(S) \in Nat /\ Cardinality(S \cup {x}) \in Nat
  BY <1>1, <1>2, FS_CardinalityType
<1> QED BY <1>1, <1>2, <1>3

\* A set that loses x.
LEMMA Loses ==
  ASSUME NEW S, NEW T, NEW x \in S, IsFiniteSet(S), T \subseteq S \ {x}
  PROVE  Cardinality(T) \in Nat /\ Cardinality(S) \in Nat /\ Cardinality(T) + 1 <= Cardinality(S)
<1>1. IsFiniteSet(S \ {x}) /\ Cardinality(S \ {x}) = Cardinality(S) - 1
  BY FS_RemoveElement
<1>2. IsFiniteSet(T) /\ Cardinality(T) <= Cardinality(S \ {x})
  BY <1>1, FS_Subset
<1>3. Cardinality(T) \in Nat /\ Cardinality(S) \in Nat /\ Cardinality(S \ {x}) \in Nat
  BY <1>1, <1>2, FS_CardinalityType
<1> QED BY <1>1, <1>2, <1>3

\* A set that gains nothing.
LEMMA Shrinks ==
  ASSUME NEW S, NEW T, IsFiniteSet(S), T \subseteq S
  PROVE  Cardinality(T) \in Nat /\ Cardinality(S) \in Nat /\ Cardinality(T) <= Cardinality(S)
<1>1. IsFiniteSet(T) /\ Cardinality(T) <= Cardinality(S)
  BY FS_Subset
<1> QED BY <1>1, FS_CardinalityType

\* An accepted activity brings the right to a copy, which then passes to its job.
LEMMA RequestsPay ==
  ASSUME CopiesInv, NEW r \in RequestSlots,
         \/ \E kind \in Arrivals, s \in Servers, o \in Objects : Accept(r, kind, s, o)
         \/ \E j \in JobSlots : QueueJob(r, j)
  PROVE  Counters' /\ Paid'
<1> USE DEF CopiesInv, HomeInv
<1>1. ASSUME NEW kind \in Arrivals, NEW s \in Servers, NEW x \in Objects,
             Accept(r, kind, s, x)
      PROVE  Counters' /\ Paid'
  <2>1. Counters' /\ accepted'[x] = accepted[x] + 1
        /\ \A o \in Objects \ {x} : accepted'[o] = accepted[o]
    BY <1>1 DEF Accept, Counters
  <2>2. ASSUME NEW o \in Objects, NEW t \in Servers
        PROVE  copies'[<<o, t>>] + Due(o, t)' <= accepted'[o] + errors'
    <3>1. JobsFor(o)' = JobsFor(o) /\ ManyFor(o, t)' = ManyFor(o, t)
      BY <1>1 DEF Accept, JobsFor, ManyFor
    <3>2. requests'[r].object = x /\ \A q \in RequestSlots \ {r} : requests'[q] = requests[q]
      BY <1>1 DEF Accept, Typed
    <3>3. RequestsFor(o)' \subseteq RequestsFor(o) \cup {r}
      BY <3>2 DEF RequestsFor
    <3>4. o # x => RequestsFor(o)' \subseteq RequestsFor(o)
      BY <3>2 DEF RequestsFor
    <3>5. /\ Cardinality(RequestsFor(o)') \in Nat
          /\ Cardinality(RequestsFor(o)') <= Cardinality(RequestsFor(o)) + 1
          /\ o # x => Cardinality(RequestsFor(o)') <= Cardinality(RequestsFor(o))
      BY <3>3, <3>4, DueIsFinite, Gains, Shrinks
    <3>6. copies' = copies /\ errors' = errors
      BY <1>1 DEF Accept
    <3>7. copies[<<o, t>>] + Due(o, t) <= accepted[o] + errors
      BY DEF Paid
    <3>8. /\ copies[<<o, t>>] \in Nat /\ accepted[o] \in Nat /\ errors \in Nat
          /\ accepted'[o] = IF o = x THEN accepted[o] + 1 ELSE accepted[o]
      BY <2>1 DEF Counters
    <3> QED BY <3>1, <3>5, <3>6, <3>7, <3>8, DueIsFinite DEF Due
  <2> QED BY <2>1, <2>2 DEF Paid
<1>2. ASSUME NEW j \in JobSlots, QueueJob(r, j)
      PROVE  Counters' /\ Paid'
  <2>1. UNCHANGED <<copies, accepted, errors>>
    BY <1>2 DEF QueueJob
  <2>2. ASSUME NEW o \in Objects, NEW t \in Servers
        PROVE  Due(o, t)' <= Due(o, t) /\ Due(o, t)' \in Int
    <3>1. ManyFor(o, t)' = ManyFor(o, t)
      BY <1>2 DEF QueueJob, ManyFor
    <3>2. /\ requests[r] # NoRequest
          /\ requests'[r] = NoRequest
          /\ \A q \in RequestSlots \ {r} : requests'[q] = requests[q]
          /\ jobs'[j].object = requests[r].object
          /\ \A i \in JobSlots \ {j} : jobs'[i] = jobs[i]
      BY <1>2 DEF QueueJob, Typed
    <3>3. CASE requests[r].object = o
      <4>1. r \in RequestsFor(o) /\ RequestsFor(o)' \subseteq RequestsFor(o) \ {r}
        BY <3>2, <3>3 DEF RequestsFor
      <4>2. JobsFor(o)' \subseteq JobsFor(o) \cup {j}
        BY <3>2 DEF JobsFor
      <4>3. /\ Cardinality(RequestsFor(o)') \in Nat
            /\ Cardinality(RequestsFor(o)') + 1 <= Cardinality(RequestsFor(o))
        BY <4>1, DueIsFinite, Loses
      <4>4. /\ Cardinality(JobsFor(o)') \in Nat
            /\ Cardinality(JobsFor(o)') <= Cardinality(JobsFor(o)) + 1
        BY <4>2, DueIsFinite, Gains
      <4> QED BY <3>1, <4>3, <4>4, DueIsFinite DEF Due
    <3>4. CASE requests[r].object # o
      <4>1. RequestsFor(o)' \subseteq RequestsFor(o) /\ JobsFor(o)' \subseteq JobsFor(o)
        BY <3>2, <3>4 DEF RequestsFor, JobsFor
      <4>2. /\ Cardinality(RequestsFor(o)') \in Nat
            /\ Cardinality(RequestsFor(o)') <= Cardinality(RequestsFor(o))
            /\ Cardinality(JobsFor(o)') \in Nat
            /\ Cardinality(JobsFor(o)') <= Cardinality(JobsFor(o))
        BY <4>1, DueIsFinite, Shrinks
      <4> QED BY <3>1, <4>2, DueIsFinite DEF Due
    <3> QED BY <3>3, <3>4
  <2>3. Counters'
    BY <2>1 DEF Counters
  <2>4. ASSUME NEW o \in Objects, NEW t \in Servers
        PROVE  copies'[<<o, t>>] + Due(o, t)' <= accepted'[o] + errors'
    <3>1. /\ copies[<<o, t>>] \in Nat /\ accepted[o] \in Nat /\ errors \in Nat
          /\ Due(o, t) \in Int
      BY DueIsFinite DEF Counters, Due
    <3>2. copies[<<o, t>>] + Due(o, t) <= accepted[o] + errors
      BY DEF Paid
    <3> QED BY <2>1, <2>2, <3>1, <3>2
  <2> QED BY <2>3, <2>4 DEF Paid
<1> QED BY <1>1, <1>2

\* A job hands its right to a copy to its DeliverMany; one that fails may keep it.
LEMMA JobsPay ==
  ASSUME CopiesInv, NEW j \in JobSlots, JobStep(j) \/ JobError(j)
  PROVE  Counters' /\ Paid'
<1> USE DEF CopiesInv, HomeInv
<1>1. jobs[j] \in Job /\ jobs[j] # NoJob
  <2>1. jobs[j].pc \in {"start", "inboxes", "queue", "cache"}
    BY DEF JobStep, JobError, CheckReceiveOnly, ReadInboxes, QueueMany, CacheObject
  <2>2. jobs[j].pc # "none"
    BY <2>1
  <2> QED BY <2>2, JobInUse DEF NoJob
<1>2. /\ UNCHANGED <<requests, copies, accepted>>
      /\ \A i \in JobSlots \ {j} : jobs'[i] = jobs[i]
      /\ errors' = errors \/ errors' = errors + 1
  BY DEF JobStep, JobError, CheckReceiveOnly, ReadInboxes, QueueMany, CacheObject, Typed
<1>3. Counters'
  BY <1>2 DEF Counters
<1>4. ASSUME NEW o \in Objects, NEW t \in Servers
      PROVE  copies'[<<o, t>>] + Due(o, t)' <= accepted'[o] + errors'
  <2>1. RequestsFor(o)' = RequestsFor(o)
    BY <1>2 DEF RequestsFor
  <2>2. Due(o, t)' \in Int /\ Due(o, t)' <= Due(o, t)
    <3>1. CASE many' = many
      <4>1. jobs'[j] # NoJob => jobs'[j].object = jobs[j].object
        <5>1. CASE CheckReceiveOnly(j)
          BY <1>1, <5>1 DEF CheckReceiveOnly, Typed, Job
        <5>2. CASE ReadInboxes(j)
          BY <1>1, <5>2 DEF ReadInboxes, Typed, Job
        <5>3. ASSUME NEW k \in ManySlots, QueueMany(j, k)
              PROVE  jobs'[j] # NoJob => jobs'[j].object = jobs[j].object
          BY <1>1, <5>3 DEF QueueMany, Typed, Job
        <5>4. CASE CacheObject(j)
          BY <5>4 DEF CacheObject, Typed
        <5>5. CASE JobError(j)
          BY <1>1, <5>5 DEF JobError, Typed, Job
        <5> QED BY <5>1, <5>2, <5>3, <5>4, <5>5 DEF JobStep
      <4>2. jobs[j].pc = "cache" => jobs'[j] = NoJob
        BY DEF JobStep, JobError, CheckReceiveOnly, ReadInboxes, QueueMany, CacheObject, Typed
      <4>3. JobsFor(o)' \subseteq JobsFor(o)
        BY <1>1, <1>2, <4>1, <4>2 DEF JobsFor
      <4>4. ManyFor(o, t)' = ManyFor(o, t)
        BY <3>1 DEF ManyFor
      <4>5. /\ Cardinality(JobsFor(o)') \in Nat
            /\ Cardinality(JobsFor(o)') <= Cardinality(JobsFor(o))
        BY <4>3, DueIsFinite, Shrinks
      <4> QED BY <2>1, <4>4, <4>5, DueIsFinite DEF Due
    <3>2. ASSUME NEW k \in ManySlots, QueueMany(j, k)
          PROVE  Due(o, t)' \in Int /\ Due(o, t)' <= Due(o, t)
      <4>1. /\ jobs[j].pc = "queue"
            /\ many'[k].object = jobs[j].object
            /\ \A l \in ManySlots \ {k} : many'[l] = many[l]
        BY <3>2 DEF QueueMany, Typed
      <4>2. jobs'[j] = NoJob \/ jobs'[j].pc = "cache"
        BY <1>1, <3>2 DEF QueueMany, Typed, Job
      <4>3. CASE jobs[j].object = o
        <5>1. j \in JobsFor(o) /\ JobsFor(o)' \subseteq JobsFor(o) \ {j}
          BY <1>1, <1>2, <4>1, <4>2, <4>3 DEF JobsFor
        <5>2. ManyFor(o, t)' \subseteq ManyFor(o, t) \cup {k}
          BY <4>1 DEF ManyFor
        <5>3. /\ Cardinality(JobsFor(o)') \in Nat
              /\ Cardinality(JobsFor(o)') + 1 <= Cardinality(JobsFor(o))
          BY <5>1, DueIsFinite, Loses
        <5>4. /\ Cardinality(ManyFor(o, t)') \in Nat
              /\ Cardinality(ManyFor(o, t)') <= Cardinality(ManyFor(o, t)) + 1
          BY <5>2, DueIsFinite, Gains
        <5> QED BY <2>1, <5>3, <5>4, DueIsFinite DEF Due
      <4>4. CASE jobs[j].object # o
        <5>1. JobsFor(o)' \subseteq JobsFor(o) /\ ManyFor(o, t)' \subseteq ManyFor(o, t)
          BY <1>2, <4>1, <4>2, <4>4 DEF JobsFor, ManyFor
        <5>2. /\ Cardinality(JobsFor(o)') \in Nat
              /\ Cardinality(JobsFor(o)') <= Cardinality(JobsFor(o))
              /\ Cardinality(ManyFor(o, t)') \in Nat
              /\ Cardinality(ManyFor(o, t)') <= Cardinality(ManyFor(o, t))
          BY <5>1, DueIsFinite, Shrinks
        <5> QED BY <2>1, <5>2, DueIsFinite DEF Due
      <4> QED BY <4>3, <4>4
    <3>3. many' = many \/ \E k \in ManySlots : QueueMany(j, k)
      BY DEF JobStep, JobError, CheckReceiveOnly, ReadInboxes, CacheObject
    <3> QED BY <3>1, <3>2, <3>3
  <2>3. /\ copies[<<o, t>>] \in Nat /\ accepted[o] \in Nat /\ errors \in Nat
        /\ Due(o, t) \in Int
    BY DueIsFinite DEF Counters, Due
  <2>4. copies[<<o, t>>] + Due(o, t) <= accepted[o] + errors
    BY DEF Paid
  <2> QED BY <1>2, <2>2, <2>3, <2>4
<1> QED BY <1>3, <1>4 DEF Paid

\* A DeliverMany that has queued a copy has none for that server due any more; a
\* failure pays for those that are due again.
LEMMA ManyPay ==
  ASSUME CopiesInv, NEW k \in ManySlots, ManyStep(k) \/ ManyError(k)
  PROVE  Counters' /\ Paid'
<1> USE DEF CopiesInv, HomeInv
<1>1. many[k] \in Many /\ many[k] # NoMany
  <2>1. many[k].pc \in {"start", "deliver"}
    BY DEF ManyStep, ManyError, ThrowDice, DeliverNext, FinishMany
  <2>2. many[k].pc # "none"
    BY <2>1
  <2> QED BY <2>2, ManyInUse DEF NoMany
<1>2. /\ UNCHANGED <<requests, jobs, accepted>>
      /\ \A l \in ManySlots \ {k} : many'[l] = many[l]
  BY DEF ManyStep, ManyError, ThrowDice, DeliverNext, FinishMany, Typed
<1>3. many'[k] # NoMany => many'[k].object = many[k].object
  <2>1. ASSUME NEW dice \in 0..(Faces - 1), ThrowDice(k, dice)
        PROVE  many'[k].object = many[k].object
    BY <1>1, <2>1 DEF ThrowDice, Typed, Many
  <2>2. ASSUME NEW t \in Servers, DeliverNext(k, t)
        PROVE  many'[k].object = many[k].object
    BY <1>1, <2>2 DEF DeliverNext, Typed, Many
  <2>3. CASE FinishMany(k)
    BY <2>3 DEF FinishMany, Typed
  <2>4. CASE ManyError(k)
    BY <1>1, <2>4 DEF ManyError, Typed, Many
  <2> QED BY <2>1, <2>2, <2>3, <2>4 DEF ManyStep
<1>4. ASSUME NEW o \in Objects, NEW t \in Servers
      PROVE  /\ RequestsFor(o)' = RequestsFor(o)
             /\ JobsFor(o)' = JobsFor(o)
             /\ copies[<<o, t>>] \in Nat /\ accepted[o] \in Nat /\ errors \in Nat
             /\ copies[<<o, t>>] + Due(o, t) <= accepted[o] + errors
  BY <1>2 DEF RequestsFor, JobsFor, Counters, Paid
<1>5. ASSUME NEW s \in Servers, DeliverNext(k, s)
      PROVE  Counters' /\ Paid'
  <2>1. /\ many[k].pc = "deliver" /\ s \in many[k].left
        /\ errors' = errors
        /\ many[k].object \in Objects
    BY <1>1, <1>5 DEF DeliverNext, Many
  <2>2. /\ copies' \in [Objects \X Servers -> Nat]
        /\ \A p \in Objects \X Servers :
             copies'[p] <= IF p = <<many[k].object, s>> THEN copies[p] + 1 ELSE copies[p]
    BY <1>5, <2>1 DEF DeliverNext, Counters
  <2>3. many'[k].pc = "deliver" /\ many'[k].left = many[k].left \ {s}
    BY <1>1, <1>5 DEF DeliverNext, Typed, Many
  <2>4. ASSUME NEW o \in Objects, NEW t \in Servers
        PROVE  copies'[<<o, t>>] + Due(o, t)' <= accepted'[o] + errors'
    <3>1. CASE o = many[k].object /\ t = s
      <4>1. k \in ManyFor(o, t) /\ ManyFor(o, t)' \subseteq ManyFor(o, t) \ {k}
        BY <1>1, <1>2, <2>1, <2>3, <3>1 DEF ManyFor
      <4>2. /\ Cardinality(ManyFor(o, t)') \in Nat
            /\ Cardinality(ManyFor(o, t)') + 1 <= Cardinality(ManyFor(o, t))
        BY <4>1, DueIsFinite, Loses
      <4>3. copies'[<<o, t>>] \in Nat /\ copies'[<<o, t>>] <= copies[<<o, t>>] + 1
        BY <2>2, <3>1
      <4> QED BY <1>2, <1>4, <2>1, <4>2, <4>3, DueIsFinite DEF Due
    <3>2. CASE ~(o = many[k].object /\ t = s)
      <4>1. ManyFor(o, t)' \subseteq ManyFor(o, t)
        BY <1>1, <1>2, <1>3, <2>1, <2>3 DEF ManyFor
      <4>2. /\ Cardinality(ManyFor(o, t)') \in Nat
            /\ Cardinality(ManyFor(o, t)') <= Cardinality(ManyFor(o, t))
        BY <4>1, DueIsFinite, Shrinks
      <4>3. copies'[<<o, t>>] \in Nat /\ copies'[<<o, t>>] <= copies[<<o, t>>]
        BY <2>2, <3>2
      <4> QED BY <1>2, <1>4, <2>1, <4>2, <4>3, DueIsFinite DEF Due
    <3> QED BY <3>1, <3>2
  <2>5. Counters'
    BY <1>2, <2>1, <2>2 DEF Counters
  <2> QED BY <2>4, <2>5 DEF Paid
<1>6. CASE FinishMany(k) \/ \E dice \in 0..(Faces - 1) : ThrowDice(k, dice)
  <2>1. copies' = copies /\ errors' = errors
    BY <1>6 DEF FinishMany, ThrowDice
  <2>2. many[k].pc = "start" \/ many'[k] = NoMany
    BY <1>6 DEF FinishMany, ThrowDice, Typed
  <2>3. ASSUME NEW o \in Objects, NEW t \in Servers
        PROVE  copies'[<<o, t>>] + Due(o, t)' <= accepted'[o] + errors'
    <3>1. ManyFor(o, t)' \subseteq ManyFor(o, t)
      BY <1>1, <1>2, <1>3, <2>2 DEF ManyFor
    <3>2. /\ Cardinality(ManyFor(o, t)') \in Nat
          /\ Cardinality(ManyFor(o, t)') <= Cardinality(ManyFor(o, t))
      BY <3>1, DueIsFinite, Shrinks
    <3> QED BY <1>2, <1>4, <2>1, <3>2, DueIsFinite DEF Due
  <2> QED BY <1>2, <2>1, <2>3 DEF Counters, Paid
<1>7. CASE ManyError(k)
  <2>1. copies' = copies /\ errors' = errors + 1
    BY <1>7 DEF ManyError
  <2>2. ASSUME NEW o \in Objects, NEW t \in Servers
        PROVE  copies'[<<o, t>>] + Due(o, t)' <= accepted'[o] + errors'
    <3>1. ManyFor(o, t)' \subseteq ManyFor(o, t) \cup {k}
      BY <1>2 DEF ManyFor
    <3>2. /\ Cardinality(ManyFor(o, t)') \in Nat
          /\ Cardinality(ManyFor(o, t)') <= Cardinality(ManyFor(o, t)) + 1
      BY <3>1, DueIsFinite, Gains
    <3> QED BY <1>2, <1>4, <2>1, <3>2, DueIsFinite DEF Due
  <2> QED BY <1>2, <2>1, <2>2 DEF Counters, Paid
<1> QED BY <1>5, <1>6, <1>7 DEF ManyStep

\* Churn and configurations pay nothing and cost nothing; a restart forgives.
LEMMA CopiesInvStable == CopiesInv /\ [Next]_vars => CopiesInv'
<1> SUFFICES ASSUME CopiesInv, [Next]_vars
             PROVE  Counters' /\ Paid'
  BY HomeInvStable DEF CopiesInv
<1>1. CASE \E r \in RequestSlots, kind \in Arrivals, s \in Servers, o \in Objects :
             Accept(r, kind, s, o)
  BY <1>1, RequestsPay
<1>2. CASE \E r \in RequestSlots, j \in JobSlots : QueueJob(r, j)
  BY <1>2, RequestsPay
<1>3. CASE \E j \in JobSlots : JobStep(j) \/ JobError(j)
  BY <1>3, JobsPay
<1>4. CASE \E k \in ManySlots : ManyStep(k) \/ ManyError(k)
  BY <1>4, ManyPay
<1>5. CASE \/ \E s \in Servers : Churn(s)
           \/ \E s \in Servers, cfg \in Configs \cup {NoConfig} : Configure(s, cfg)
           \/ UNCHANGED vars
  <2>1. UNCHANGED <<requests, jobs, many, copies, accepted, errors>>
    BY <1>5 DEF Churn, Configure, vars
  <2> QED BY <2>1 DEF CopiesInv, Counters, Paid, Due, RequestsFor, JobsFor, ManyFor
<1>6. CASE Restart
  <2>1. UNCHANGED <<copies, accepted, errors>>
    BY <1>6 DEF Restart
  <2>2. ASSUME NEW o \in Objects, NEW t \in Servers
        PROVE  Due(o, t)' = 0
    <3>1. RequestsFor(o)' = {} /\ JobsFor(o)' = {} /\ ManyFor(o, t)' = {}
      BY <1>6 DEF Restart, RequestsFor, JobsFor, ManyFor
    <3> QED BY <3>1, FS_EmptySet DEF Due
  <2>3. ASSUME NEW o \in Objects, NEW t \in Servers
        PROVE  copies'[<<o, t>>] + Due(o, t)' <= accepted'[o] + errors'
    <3>1. copies[<<o, t>>] + Due(o, t) <= accepted[o] + errors
      BY DEF CopiesInv, Paid
    <3>2. /\ copies[<<o, t>>] \in Nat /\ accepted[o] \in Nat /\ errors \in Nat
          /\ Due(o, t) \in Nat
      BY DueIsFinite DEF CopiesInv, Counters, Due
    <3> QED BY <2>1, <2>2, <3>1, <3>2
  <2> QED BY <2>1, <2>3 DEF CopiesInv, Counters, Paid
<1> QED BY <1>1, <1>2, <1>3, <1>4, <1>5, <1>6 DEF Next

\* Retries repeat what was already delivered, DeliverMany over all its inboxes; yet
\* no server ever gets more copies of an object than activities about it were
\* accepted and job steps failed.
THEOREM CopiesAlwaysAccountedFor == Spec => []CopiesAccountedFor
<1>1. Init => CopiesInv
  <2> SUFFICES ASSUME Init PROVE CopiesInv
    OBVIOUS
  <2>1. HomeInv
    BY InitHome
  <2>2. Counters
    BY DEF Init, Counters
  <2>3. ASSUME NEW o \in Objects, NEW t \in Servers
        PROVE  copies[<<o, t>>] + Due(o, t) <= accepted[o] + errors
    <3>1. RequestsFor(o) = {} /\ JobsFor(o) = {} /\ ManyFor(o, t) = {}
      BY DEF Init, RequestsFor, JobsFor, ManyFor
    <3>2. Due(o, t) = 0
      BY <3>1, FS_EmptySet DEF Due
    <3> QED BY <3>2 DEF Init
  <2> QED BY <2>1, <2>2, <2>3 DEF CopiesInv, Paid
<1>2. CopiesInv /\ [Next]_vars => CopiesInv'
  BY CopiesInvStable
<1>3. CopiesInv => CopiesAccountedFor
  <2> SUFFICES ASSUME CopiesInv, NEW o \in Objects, NEW t \in Servers
               PROVE  copies[<<o, t>>] <= accepted[o] + errors
    BY DEF CopiesAccountedFor
  <2>1. /\ copies[<<o, t>>] \in Nat /\ accepted[o] \in Nat /\ errors \in Nat
        /\ Due(o, t) \in Nat
    BY DueIsFinite DEF CopiesInv, Counters, Due
  <2> QED BY <2>1 DEF CopiesInv, Paid
<1> QED BY <1>1, <1>2, <1>3, PTL DEF Spec

-----------------------------------------------------------------------------
(* The ledger. *)

One(b) == IF b THEN 1 ELSE 0

\* Two sets that differ in no more than x.
LEMMA CountsDiffer ==
  ASSUME NEW S, NEW T, NEW x, IsFiniteSet(S), T \ {x} = S \ {x}
  PROVE  /\ Cardinality(S) \in Nat /\ Cardinality(T) \in Nat
         /\ Cardinality(T) = Cardinality(S) + One(x \in T) - One(x \in S)
<1> DEFINE R == S \ {x}
<1>1. IsFiniteSet(R) /\ x \notin R
  BY FS_Subset
<1>2. /\ IsFiniteSet(R \cup {x}) /\ Cardinality(R \cup {x}) = Cardinality(R) + 1
      /\ Cardinality(R) \in Nat
  BY <1>1, FS_AddElement, FS_CardinalityType
<1>3. S = (IF x \in S THEN R \cup {x} ELSE R) /\ T = (IF x \in T THEN R \cup {x} ELSE R)
  OBVIOUS
<1> HIDE DEF R
<1>4. Cardinality(S) = Cardinality(R) + One(x \in S)
  <2>1. CASE x \in S
    BY <1>2, <1>3, <2>1 DEF One
  <2>2. CASE x \notin S
    BY <1>2, <1>3, <2>2 DEF One
  <2> QED BY <2>1, <2>2
<1>5. Cardinality(T) = Cardinality(R) + One(x \in T)
  <2>1. CASE x \in T
    BY <1>2, <1>3, <2>1 DEF One
  <2>2. CASE x \notin T
    BY <1>2, <1>3, <2>2 DEF One
  <2> QED BY <2>1, <2>2
<1>6. One(x \in S) \in {0, 1} /\ One(x \in T) \in {0, 1}
  BY DEF One
<1> QED BY <1>2, <1>4, <1>5, <1>6

\* What each kind of record counts for.
Asks(q, s, o) == q # NoRequest /\ About(q, s, o)
IsUnread(q, s, o) == Unread(q) /\ About(q, s, o)
IsRead(q, s, o, t) == q.pc = "queue" /\ About(q, s, o) /\ t \in q.to
Owes(q, s, o, t) == t \in Unsent(q) /\ About(q, s, o)
HasServed(q, s, o, t) == t \in Sent(q) /\ About(q, s, o)

Asking(s, o) == {r \in RequestSlots : Asks(requests[r], s, o)}
Unreading(s, o) == {j \in JobSlots : IsUnread(jobs[j], s, o)}
Reading(s, o, t) == {j \in JobSlots : IsRead(jobs[j], s, o, t)}
Owing(s, o, t) == {k \in ManySlots : Owes(many[k], s, o, t)}
Serving(s, o, t) == {k \in ManySlots : HasServed(many[k], s, o, t)}

\* The counts of the ledger are these.
LEMMA LedgerCounts ==
  ASSUME NEW s, NEW o, NEW t
  PROVE  /\ Open(s, o) = Cardinality(Asking(s, o)) + Cardinality(Unreading(s, o))
         /\ Owed(s, o, t) = Cardinality(Reading(s, o, t)) + Cardinality(Owing(s, o, t))
         /\ Served(s, o, t) = Cardinality(Serving(s, o, t))
         /\ IsFiniteSet(Asking(s, o)) /\ Cardinality(Asking(s, o)) \in Nat
         /\ IsFiniteSet(Unreading(s, o)) /\ Cardinality(Unreading(s, o)) \in Nat
         /\ IsFiniteSet(Reading(s, o, t)) /\ Cardinality(Reading(s, o, t)) \in Nat
         /\ IsFiniteSet(Owing(s, o, t)) /\ Cardinality(Owing(s, o, t)) \in Nat
         /\ IsFiniteSet(Serving(s, o, t)) /\ Cardinality(Serving(s, o, t)) \in Nat
         /\ Open(s, o) \in Nat /\ Owed(s, o, t) \in Nat /\ Served(s, o, t) \in Nat
<1>1. /\ IsFiniteSet(Asking(s, o)) /\ IsFiniteSet(Unreading(s, o))
      /\ IsFiniteSet(Reading(s, o, t)) /\ IsFiniteSet(Owing(s, o, t))
      /\ IsFiniteSet(Serving(s, o, t))
  <2>1. /\ Asking(s, o) \subseteq RequestSlots /\ Unreading(s, o) \subseteq JobSlots
        /\ Reading(s, o, t) \subseteq JobSlots /\ Owing(s, o, t) \subseteq ManySlots
        /\ Serving(s, o, t) \subseteq ManySlots
    BY DEF Asking, Unreading, Reading, Owing, Serving
  <2> QED BY <2>1, FanoutAssumption, FS_Subset
<1>2. /\ Cardinality(Asking(s, o)) \in Nat /\ Cardinality(Unreading(s, o)) \in Nat
      /\ Cardinality(Reading(s, o, t)) \in Nat /\ Cardinality(Owing(s, o, t)) \in Nat
      /\ Cardinality(Serving(s, o, t)) \in Nat
  BY <1>1, FS_CardinalityType
<1>3. Open(s, o) = Cardinality(Asking(s, o)) + Cardinality(Unreading(s, o))
  BY DEF Open, Asking, Asks, Unreading, IsUnread
<1>4. Owed(s, o, t) = Cardinality(Reading(s, o, t)) + Cardinality(Owing(s, o, t))
  BY DEF Owed, Reading, IsRead, Owing, Owes
<1>5. Served(s, o, t) = Cardinality(Serving(s, o, t))
  BY DEF Served, Serving, HasServed
<1> QED BY <1>1, <1>2, <1>3, <1>4, <1>5

\* How the counts change with one request,
LEMMA RequestCounts ==
  ASSUME NEW r \in RequestSlots, \A q \in RequestSlots \ {r} : requests'[q] = requests[q],
         NEW s, NEW o
  PROVE  Cardinality(Asking(s, o)') =
           Cardinality(Asking(s, o)) + One(Asks(requests'[r], s, o)) - One(Asks(requests[r], s, o))
<1>1. Asking(s, o)' \ {r} = Asking(s, o) \ {r}
  BY DEF Asking
<1>2. /\ r \in Asking(s, o)' <=> Asks(requests'[r], s, o)
      /\ r \in Asking(s, o) <=> Asks(requests[r], s, o)
  BY DEF Asking
<1>3. Cardinality(Asking(s, o)') =
        Cardinality(Asking(s, o)) + One(r \in Asking(s, o)') - One(r \in Asking(s, o))
  BY <1>1, LedgerCounts, CountsDiffer
<1> QED BY <1>2, <1>3 DEF One

\* with one job,
LEMMA JobCounts ==
  ASSUME NEW j \in JobSlots, \A i \in JobSlots \ {j} : jobs'[i] = jobs[i],
         NEW s, NEW o, NEW t
  PROVE  /\ Cardinality(Unreading(s, o)') = Cardinality(Unreading(s, o))
              + One(IsUnread(jobs'[j], s, o)) - One(IsUnread(jobs[j], s, o))
         /\ Cardinality(Reading(s, o, t)') = Cardinality(Reading(s, o, t))
              + One(IsRead(jobs'[j], s, o, t)) - One(IsRead(jobs[j], s, o, t))
<1>1. /\ Unreading(s, o)' \ {j} = Unreading(s, o) \ {j}
      /\ Reading(s, o, t)' \ {j} = Reading(s, o, t) \ {j}
  BY DEF Unreading, Reading
<1>2. /\ j \in Unreading(s, o)' <=> IsUnread(jobs'[j], s, o)
      /\ j \in Unreading(s, o) <=> IsUnread(jobs[j], s, o)
      /\ j \in Reading(s, o, t)' <=> IsRead(jobs'[j], s, o, t)
      /\ j \in Reading(s, o, t) <=> IsRead(jobs[j], s, o, t)
  BY DEF Unreading, Reading
<1>3. /\ Cardinality(Unreading(s, o)') = Cardinality(Unreading(s, o))
           + One(j \in Unreading(s, o)') - One(j \in Unreading(s, o))
      /\ Cardinality(Reading(s, o, t)') = Cardinality(Reading(s, o, t))
           + One(j \in Reading(s, o, t)') - One(j \in Reading(s, o, t))
  BY <1>1, LedgerCounts, CountsDiffer
<1> QED BY <1>2, <1>3 DEF One

\* and with one DeliverMany.
LEMMA ManyCounts ==
  ASSUME NEW k \in ManySlots, \A l \in ManySlots \ {k} : many'[l] = many[l],
         NEW s, NEW o, NEW t
  PROVE  /\ Cardinality(Owing(s, o, t)') = Cardinality(Owing(s, o, t))
              + One(Owes(many'[k], s, o, t)) - One(Owes(many[k], s, o, t))
         /\ Cardinality(Serving(s, o, t)') = Cardinality(Serving(s, o, t))
              + One(HasServed(many'[k], s, o, t)) - One(HasServed(many[k], s, o, t))
<1>1. /\ Owing(s, o, t)' \ {k} = Owing(s, o, t) \ {k}
      /\ Serving(s, o, t)' \ {k} = Serving(s, o, t) \ {k}
  BY DEF Owing, Serving
<1>2. /\ k \in Owing(s, o, t)' <=> Owes(many'[k], s, o, t)
      /\ k \in Owing(s, o, t) <=> Owes(many[k], s, o, t)
      /\ k \in Serving(s, o, t)' <=> HasServed(many'[k], s, o, t)
      /\ k \in Serving(s, o, t) <=> HasServed(many[k], s, o, t)
  BY DEF Owing, Serving
<1>3. /\ Cardinality(Owing(s, o, t)') = Cardinality(Owing(s, o, t))
           + One(k \in Owing(s, o, t)') - One(k \in Owing(s, o, t))
      /\ Cardinality(Serving(s, o, t)') = Cardinality(Serving(s, o, t))
           + One(k \in Serving(s, o, t)') - One(k \in Serving(s, o, t))
  BY <1>1, LedgerCounts, CountsDiffer
<1> QED BY <1>2, <1>3 DEF One

\* The ledger that Fanout keeps, in its slots.
open == [p \in Servers \X Objects |-> Open(p[1], p[2])]
owed == [p \in Servers \X Objects \X Servers |-> Owed(p[1], p[2], p[3])]
served == [p \in Servers \X Objects \X Servers |-> Served(p[1], p[2], p[3])]

\* The ledger counts in natural numbers,
Counted ==
  \A x \in Servers, y \in Objects, z \in Servers :
    /\ Open(x, y) \in Nat /\ Owed(x, y, z) \in Nat /\ Served(x, y, z) \in Nat
    /\ Cardinality(Asking(x, y)) \in Nat /\ Cardinality(Unreading(x, y)) \in Nat
    /\ Cardinality(Reading(x, y, z)) \in Nat /\ Cardinality(Owing(x, y, z)) \in Nat
    /\ Cardinality(Serving(x, y, z)) \in Nat
    /\ Open(x, y) = Cardinality(Asking(x, y)) + Cardinality(Unreading(x, y))
    /\ Owed(x, y, z) = Cardinality(Reading(x, y, z)) + Cardinality(Owing(x, y, z))
    /\ Served(x, y, z) = Cardinality(Serving(x, y, z))

\* in every state,
LEMMA CountedNow == Counted
BY LedgerCounts DEF Counted

\* and so after every step.
LEMMA CountedNext == Counted'
BY CountedNow, PTL

\* How the open activities of one sender and object become more or less,
LEMMA OpenMoves ==
  ASSUME NEW s \in Servers, NEW o \in Objects, NEW n \in {1, -1},
         \A x \in Servers, y \in Objects :
           Open(x, y)' = Open(x, y) + IF x = s /\ y = o THEN n ELSE 0
  PROVE  /\ open' = Promise!More(open, {<<s, o>>}, n)
         /\ n = -1 => Promise!Has(open, {<<s, o>>})
<1>1. \A x \in Servers, y \in Objects : Open(x, y) \in Nat /\ Open(x, y)' \in Nat
  BY CountedNow, CountedNext DEF Counted
<1>2. \A p \in Servers \X Objects : p = <<p[1], p[2]>> /\ p[1] \in Servers /\ p[2] \in Objects
  OBVIOUS
<1>3. open' = Promise!More(open, {<<s, o>>}, n)
  BY <1>1, <1>2 DEF open, Promise!More
<1>4. n = -1 => Open(s, o) > 0
  BY <1>1
<1>5. Promise!Has(open, {<<s, o>>}) <=> Open(s, o) > 0
  BY DEF open, Promise!Has
<1> QED BY <1>3, <1>4, <1>5

\* the copies owed to some servers,
LEMMA OwedMoves ==
  ASSUME NEW s \in Servers, NEW o \in Objects, NEW T \in SUBSET Servers, NEW n \in {1, -1},
         \A x \in Servers, y \in Objects, z \in Servers :
           Owed(x, y, z)' = Owed(x, y, z) + IF x = s /\ y = o /\ z \in T THEN n ELSE 0
  PROVE  /\ owed' = Promise!More(owed, Promise!For(s, o, T), n)
         /\ n = -1 => Promise!Has(owed, Promise!For(s, o, T))
<1>1. \A x \in Servers, y \in Objects, z \in Servers :
        Owed(x, y, z) \in Nat /\ Owed(x, y, z)' \in Nat
  BY CountedNow, CountedNext DEF Counted
<1>2. \A p \in Servers \X Objects \X Servers :
        /\ p[1] \in Servers /\ p[2] \in Objects /\ p[3] \in Servers
        /\ p \in {s} \X {o} \X T <=> p[1] = s /\ p[2] = o /\ p[3] \in T
  OBVIOUS
<1>3. owed' = Promise!More(owed, Promise!For(s, o, T), n)
  BY <1>1, <1>2 DEF owed, Promise!More, Promise!For
<1>4. n = -1 => \A z \in T : Owed(s, o, z) > 0
  BY <1>1
<1>5. (\A z \in T : Owed(s, o, z) > 0) => Promise!Has(owed, Promise!For(s, o, T))
  BY DEF owed, Promise!Has, Promise!For
<1> QED BY <1>3, <1>4, <1>5

\* and what may have to be repeated.
LEMMA ServedMoves ==
  ASSUME NEW s \in Servers, NEW o \in Objects, NEW T \in SUBSET Servers, NEW n \in {1, -1},
         \A x \in Servers, y \in Objects, z \in Servers :
           Served(x, y, z)' = Served(x, y, z) + IF x = s /\ y = o /\ z \in T THEN n ELSE 0
  PROVE  /\ served' = Promise!More(served, Promise!For(s, o, T), n)
         /\ n = -1 => Promise!Has(served, Promise!For(s, o, T))
<1>1. \A x \in Servers, y \in Objects, z \in Servers :
        Served(x, y, z) \in Nat /\ Served(x, y, z)' \in Nat
  BY CountedNow, CountedNext DEF Counted
<1>2. \A p \in Servers \X Objects \X Servers :
        /\ p[1] \in Servers /\ p[2] \in Objects /\ p[3] \in Servers
        /\ p \in {s} \X {o} \X T <=> p[1] = s /\ p[2] = o /\ p[3] \in T
  OBVIOUS
<1>3. served' = Promise!More(served, Promise!For(s, o, T), n)
  BY <1>1, <1>2 DEF served, Promise!More, Promise!For
<1>4. n = -1 => \A z \in T : Served(s, o, z) > 0
  BY <1>1
<1>5. (\A z \in T : Served(s, o, z) > 0) => Promise!Has(served, Promise!For(s, o, T))
  BY DEF served, Promise!Has, Promise!For
<1> QED BY <1>3, <1>4, <1>5

\* And when they stay.
LEMMA LedgerStays ==
  /\ (\A x \in Servers, y \in Objects : Open(x, y)' = Open(x, y)) => open' = open
  /\ (\A x \in Servers, y \in Objects, z \in Servers : Owed(x, y, z)' = Owed(x, y, z))
       => owed' = owed
  /\ (\A x \in Servers, y \in Objects, z \in Servers : Served(x, y, z)' = Served(x, y, z))
       => served' = served
BY DEF open, owed, served

\* What requests and jobs and DeliverMany jobs do not touch.
LEMMA LedgerUntouched ==
  /\ UNCHANGED <<requests, jobs>> => open' = open
  /\ UNCHANGED <<jobs, many>> => owed' = owed
  /\ UNCHANGED many => served' = served
BY DEF open, owed, served, Open, Owed, Served

-----------------------------------------------------------------------------
(* The steps of the ledger. *)

\* What a job that moves on changes in the ledger,
LEMMA JobChanges ==
  ASSUME NEW j \in JobSlots, \A i \in JobSlots \ {j} : jobs'[i] = jobs[i],
         NEW x \in Servers, NEW y \in Objects, NEW z \in Servers
  PROVE  /\ requests' = requests => Open(x, y)' = Open(x, y)
              + One(IsUnread(jobs'[j], x, y)) - One(IsUnread(jobs[j], x, y))
         /\ many' = many => Owed(x, y, z)' = Owed(x, y, z)
              + One(IsRead(jobs'[j], x, y, z)) - One(IsRead(jobs[j], x, y, z))
<1>1. /\ Cardinality(Unreading(x, y)') = Cardinality(Unreading(x, y))
           + One(IsUnread(jobs'[j], x, y)) - One(IsUnread(jobs[j], x, y))
      /\ Cardinality(Reading(x, y, z)') = Cardinality(Reading(x, y, z))
           + One(IsRead(jobs'[j], x, y, z)) - One(IsRead(jobs[j], x, y, z))
  BY JobCounts
<1>2. /\ requests' = requests => Asking(x, y)' = Asking(x, y)
      /\ many' = many => Owing(x, y, z)' = Owing(x, y, z)
  BY DEF Asking, Owing
<1> QED BY <1>1, <1>2, CountedNow, CountedNext DEF Counted, One

\* and a DeliverMany.
LEMMA ManyChanges ==
  ASSUME NEW k \in ManySlots, \A l \in ManySlots \ {k} : many'[l] = many[l],
         NEW x \in Servers, NEW y \in Objects, NEW z \in Servers
  PROVE  /\ jobs' = jobs => Owed(x, y, z)' = Owed(x, y, z)
              + One(Owes(many'[k], x, y, z)) - One(Owes(many[k], x, y, z))
         /\ Served(x, y, z)' = Served(x, y, z)
              + One(HasServed(many'[k], x, y, z)) - One(HasServed(many[k], x, y, z))
<1>1. /\ Cardinality(Owing(x, y, z)') = Cardinality(Owing(x, y, z))
           + One(Owes(many'[k], x, y, z)) - One(Owes(many[k], x, y, z))
      /\ Cardinality(Serving(x, y, z)') = Cardinality(Serving(x, y, z))
           + One(HasServed(many'[k], x, y, z)) - One(HasServed(many[k], x, y, z))
  BY ManyCounts
<1>2. jobs' = jobs => Reading(x, y, z)' = Reading(x, y, z)
  BY DEF Reading
<1> QED BY <1>1, <1>2, CountedNow, CountedNext DEF Counted, One

\* An accepted activity is one more that is open,
LEMMA AcceptOpens ==
  ASSUME HomeInv, NEW r \in RequestSlots, NEW kind \in Arrivals, NEW s \in Servers,
         NEW o \in Objects, Accept(r, kind, s, o)
  PROVE  Promise!Accept(s, o)
<1>1. /\ requests[r] = NoRequest
      /\ requests'[r] = [pc |-> "queue", kind |-> kind, origin |-> s, object |-> o]
      /\ \A q \in RequestSlots \ {r} : requests'[q] = requests[q]
  BY DEF Accept, HomeInv, Typed
<1>2. UNCHANGED <<listening, jobs, many, copies, errors>>
  BY DEF Accept
<1>3. \A x \in Servers, y \in Objects :
        Open(x, y)' = Open(x, y) + IF x = s /\ y = o THEN 1 ELSE 0
  <2> TAKE x \in Servers, y \in Objects
  <2>1. Cardinality(Asking(x, y)') = Cardinality(Asking(x, y))
          + One(Asks(requests'[r], x, y)) - One(Asks(requests[r], x, y))
    BY <1>1, RequestCounts
  <2>2. ~Asks(requests[r], x, y) /\ (Asks(requests'[r], x, y) <=> x = s /\ y = o)
    BY <1>1 DEF Asks, About, NoRequest
  <2>3. Unreading(x, y)' = Unreading(x, y)
    BY <1>2 DEF Unreading
  <2> QED BY <2>1, <2>2, <2>3, CountedNow, CountedNext DEF Counted, One
<1>4. open' = Promise!More(open, {<<s, o>>}, 1)
  BY <1>3, OpenMoves
<1>5. owed' = owed /\ served' = served
  BY <1>2, LedgerUntouched
<1> QED BY <1>2, <1>4, <1>5 DEF Accept, Promise!Accept, open, owed, served

\* and stays so when its job is queued.
LEMMA QueueJobStays ==
  ASSUME HomeInv, NEW r \in RequestSlots, NEW j \in JobSlots, QueueJob(r, j)
  PROVE  UNCHANGED Promise!vars
<1>1. /\ requests[r] # NoRequest /\ requests'[r] = NoRequest
      /\ \A q \in RequestSlots \ {r} : requests'[q] = requests[q]
  BY DEF QueueJob, HomeInv, Typed
<1>2. /\ jobs[j] = NoJob /\ Unread(jobs'[j]) /\ jobs'[j].pc # "queue"
      /\ jobs'[j].origin = requests[r].origin /\ jobs'[j].object = requests[r].object
      /\ \A i \in JobSlots \ {j} : jobs'[i] = jobs[i]
  BY DEF QueueJob, HomeInv, Typed, Unread, FirstStep
<1>3. UNCHANGED <<listening, many, copies, accepted, errors>>
  BY DEF QueueJob
<1>4. open' = open
  <2> SUFFICES ASSUME NEW x \in Servers, NEW y \in Objects
               PROVE  Open(x, y)' = Open(x, y)
    BY LedgerStays
  <2>1. Cardinality(Asking(x, y)') = Cardinality(Asking(x, y))
          + One(Asks(requests'[r], x, y)) - One(Asks(requests[r], x, y))
    BY <1>1, RequestCounts
  <2>2. Cardinality(Unreading(x, y)') = Cardinality(Unreading(x, y))
          + One(IsUnread(jobs'[j], x, y)) - One(IsUnread(jobs[j], x, y))
    BY <1>2, JobCounts
  <2>3. /\ ~Asks(requests'[r], x, y) /\ ~IsUnread(jobs[j], x, y)
        /\ IsUnread(jobs'[j], x, y) <=> Asks(requests[r], x, y)
    BY <1>1, <1>2 DEF Asks, IsUnread, Unread, About, NoJob
  <2> QED BY <2>1, <2>2, <2>3, CountedNow, CountedNext DEF Counted, One
<1>5. owed' = owed
  <2> SUFFICES ASSUME NEW x \in Servers, NEW y \in Objects, NEW z \in Servers
               PROVE  Owed(x, y, z)' = Owed(x, y, z)
    BY LedgerStays
  <2>1. ~IsRead(jobs[j], x, y, z) /\ ~IsRead(jobs'[j], x, y, z)
    BY <1>2 DEF IsRead, NoJob
  <2> QED BY <1>2, <1>3, <2>1, JobChanges, CountedNow DEF Counted, One
<1>6. served' = served
  BY <1>3, LedgerUntouched
<1> QED BY <1>3, <1>4, <1>5, <1>6 DEF Promise!vars, open, owed, served

\* An activity that a receive-only server sent is dropped, any other stays open.
LEMMA CheckDropsOrStays ==
  ASSUME HomeInv, NEW j \in JobSlots, CheckReceiveOnly(j)
  PROVE  \/ UNCHANGED Promise!vars
         \/ \E s \in Servers, o \in Objects : Promise!Drop(s, o)
<1>1. jobs[j] \in Job /\ jobs[j].pc = "start"
  BY JobInUse DEF CheckReceiveOnly, HomeInv
<1>2. PICK s \in Servers, o \in Objects : s = jobs[j].origin /\ o = jobs[j].object
  BY <1>1 DEF Job
<1>3. /\ jobs'[j] = NoJob \/ jobs'[j] = [jobs[j] EXCEPT !.pc = "inboxes"]
      /\ \A i \in JobSlots \ {j} : jobs'[i] = jobs[i]
      /\ UNCHANGED <<listening, requests, many, copies, accepted, errors>>
  BY DEF CheckReceiveOnly, HomeInv, Typed
<1>4. owed' = owed
  <2> SUFFICES ASSUME NEW x \in Servers, NEW y \in Objects, NEW z \in Servers
               PROVE  Owed(x, y, z)' = Owed(x, y, z)
    BY LedgerStays
  <2>1. ~IsRead(jobs[j], x, y, z) /\ ~IsRead(jobs'[j], x, y, z)
    BY <1>1, <1>3 DEF IsRead, NoJob, Job
  <2> QED BY <1>3, <2>1, JobChanges, CountedNow DEF Counted, One
<1>5. served' = served
  BY <1>3, LedgerUntouched
<1>6. CASE jobs'[j] = NoJob
  <2>1. \A x \in Servers, y \in Objects :
          Open(x, y)' = Open(x, y) + IF x = s /\ y = o THEN -1 ELSE 0
    <3> TAKE x \in Servers, y \in Objects
    <3>1. ~IsUnread(jobs'[j], x, y) /\ (IsUnread(jobs[j], x, y) <=> x = s /\ y = o)
      BY <1>1, <1>2, <1>6 DEF IsUnread, Unread, About, NoJob
    <3> QED BY <1>3, <3>1, JobChanges, CountedNow DEF Counted, One
  <2>2. open' = Promise!More(open, {<<s, o>>}, -1) /\ Promise!Has(open, {<<s, o>>})
    BY <2>1, OpenMoves
  <2>3. Promise!Drop(s, o)
    BY <1>3, <1>4, <1>5, <2>2 DEF Promise!Drop, open, owed, served
  <2> QED BY <2>3
<1>7. CASE jobs'[j] = [jobs[j] EXCEPT !.pc = "inboxes"]
  <2>1. open' = open
    <3> SUFFICES ASSUME NEW x \in Servers, NEW y \in Objects
                 PROVE  Open(x, y)' = Open(x, y)
      BY LedgerStays
    <3>1. IsUnread(jobs'[j], x, y) <=> IsUnread(jobs[j], x, y)
      BY <1>1, <1>7 DEF IsUnread, Unread, About, Job
    <3> QED BY <1>3, <3>1, JobChanges, CountedNow DEF Counted, One
  <2> QED BY <1>3, <1>4, <1>5, <2>1 DEF Promise!vars, open, owed, served
<1> QED BY <1>3, <1>6, <1>7

\* The activity is owed to the inboxes that are read.
LEMMA ReadAddresses ==
  ASSUME HomeInv, NEW j \in JobSlots, ReadInboxes(j)
  PROVE  \E s \in Servers, o \in Objects : Promise!Address(s, o)
<1>1. jobs[j] \in Job /\ jobs[j].pc = "inboxes"
  BY JobInUse DEF ReadInboxes, HomeInv
<1>2. PICK s \in Servers, o \in Objects : s = jobs[j].origin /\ o = jobs[j].object
  BY <1>1 DEF Job
<1> DEFINE T == listening \ {s, HomeOf[o]}
<1>3. /\ jobs'[j] = [jobs[j] EXCEPT !.pc = "queue", !.to = T]
      /\ \A i \in JobSlots \ {j} : jobs'[i] = jobs[i]
      /\ UNCHANGED <<listening, requests, many, copies, accepted, errors>>
  BY <1>2 DEF ReadInboxes, InboxesWithout, HomeInv, Typed
<1>4. PICK U \in SUBSET Servers : U = T
  BY DEF HomeInv, Typed
<1> HIDE DEF T
<1>5. /\ jobs'[j].pc = "queue" /\ jobs'[j].to = U
      /\ jobs'[j].origin = s /\ jobs'[j].object = o
  BY <1>1, <1>2, <1>3, <1>4 DEF Job
<1>6. \A x \in Servers, y \in Objects :
        Open(x, y)' = Open(x, y) + IF x = s /\ y = o THEN -1 ELSE 0
  <2> TAKE x \in Servers, y \in Objects
  <2>1. ~IsUnread(jobs'[j], x, y) /\ (IsUnread(jobs[j], x, y) <=> x = s /\ y = o)
    BY <1>1, <1>2, <1>5 DEF IsUnread, Unread, About
  <2> QED BY <1>3, <2>1, JobChanges, CountedNow DEF Counted, One
<1>7. \A x \in Servers, y \in Objects, z \in Servers :
        Owed(x, y, z)' = Owed(x, y, z) + IF x = s /\ y = o /\ z \in U THEN 1 ELSE 0
  <2> TAKE x \in Servers, y \in Objects, z \in Servers
  <2>1. ~IsRead(jobs[j], x, y, z) /\ (IsRead(jobs'[j], x, y, z) <=> x = s /\ y = o /\ z \in U)
    BY <1>1, <1>5 DEF IsRead, About
  <2> QED BY <1>3, <2>1, JobChanges, CountedNow DEF Counted, One
<1>8. open' = Promise!More(open, {<<s, o>>}, -1) /\ Promise!Has(open, {<<s, o>>})
  BY <1>6, OpenMoves
<1>9. owed' = Promise!More(owed, Promise!For(s, o, U), 1)
  BY <1>7, OwedMoves
<1>10. served' = served
  BY <1>3, LedgerUntouched
<1>11. Promise!Address(s, o)
  BY <1>3, <1>4, <1>8, <1>9, <1>10 DEF T, Promise!Address, open, owed, served
<1> QED BY <1>11

\* What a job owes, the DeliverMany that it queues owes in its place.
LEMMA QueueManyStays ==
  ASSUME HomeInv, NEW j \in JobSlots, NEW k \in ManySlots, QueueMany(j, k)
  PROVE  UNCHANGED Promise!vars
<1>1. jobs[j] \in Job /\ jobs[j].pc = "queue"
  BY JobInUse DEF QueueMany, HomeInv
<1>2. /\ jobs'[j] = NoJob \/ jobs'[j] = [jobs[j] EXCEPT !.pc = "cache"]
      /\ \A i \in JobSlots \ {j} : jobs'[i] = jobs[i]
      /\ UNCHANGED <<listening, requests, copies, accepted, errors>>
  BY DEF QueueMany, HomeInv, Typed
<1>3. jobs'[j].pc \in {"none", "cache"}
  BY <1>1, <1>2 DEF Job, NoJob
<1>4. /\ many[k] = NoMany
      /\ many'[k].pc = "start" /\ many'[k].to = jobs[j].to
      /\ many'[k].origin = jobs[j].origin /\ many'[k].object = jobs[j].object
      /\ \A l \in ManySlots \ {k} : many'[l] = many[l]
  BY DEF QueueMany, HomeInv, Typed
<1>5. open' = open
  <2> SUFFICES ASSUME NEW x \in Servers, NEW y \in Objects
               PROVE  Open(x, y)' = Open(x, y)
    BY LedgerStays
  <2>1. ~IsUnread(jobs[j], x, y) /\ ~IsUnread(jobs'[j], x, y)
    BY <1>1, <1>3 DEF IsUnread, Unread
  <2> QED BY <1>2, <2>1, JobChanges, CountedNow DEF Counted, One
<1>6. owed' = owed
  <2> SUFFICES ASSUME NEW x \in Servers, NEW y \in Objects, NEW z \in Servers
               PROVE  Owed(x, y, z)' = Owed(x, y, z)
    BY LedgerStays
  <2>1. Cardinality(Reading(x, y, z)') = Cardinality(Reading(x, y, z))
          + One(IsRead(jobs'[j], x, y, z)) - One(IsRead(jobs[j], x, y, z))
    BY <1>2, JobCounts
  <2>2. Cardinality(Owing(x, y, z)') = Cardinality(Owing(x, y, z))
          + One(Owes(many'[k], x, y, z)) - One(Owes(many[k], x, y, z))
    BY <1>4, ManyCounts
  <2>3. /\ ~IsRead(jobs'[j], x, y, z) /\ ~Owes(many[k], x, y, z)
        /\ Owes(many'[k], x, y, z) <=> IsRead(jobs[j], x, y, z)
    BY <1>1, <1>3, <1>4 DEF IsRead, Owes, Unsent, About, NoMany
  <2> QED BY <2>1, <2>2, <2>3, CountedNow, CountedNext DEF Counted, One
<1>7. served' = served
  <2> SUFFICES ASSUME NEW x \in Servers, NEW y \in Objects, NEW z \in Servers
               PROVE  Served(x, y, z)' = Served(x, y, z)
    BY LedgerStays
  <2>1. ~HasServed(many[k], x, y, z) /\ ~HasServed(many'[k], x, y, z)
    BY <1>4 DEF HasServed, Sent, NoMany
  <2> QED BY <1>4, <2>1, ManyChanges, CountedNow DEF Counted, One
<1> QED BY <1>2, <1>5, <1>6, <1>7 DEF Promise!vars, open, owed, served

\* The cache is not in the ledger.
LEMMA CacheObjectStays ==
  ASSUME HomeInv, NEW j \in JobSlots, CacheObject(j)
  PROVE  UNCHANGED Promise!vars
<1>1. /\ jobs[j].pc = "cache" /\ jobs'[j] = NoJob
      /\ \A i \in JobSlots \ {j} : jobs'[i] = jobs[i]
      /\ UNCHANGED <<listening, requests, many, copies, accepted, errors>>
  BY DEF CacheObject, HomeInv, Typed
<1>2. open' = open
  <2> SUFFICES ASSUME NEW x \in Servers, NEW y \in Objects
               PROVE  Open(x, y)' = Open(x, y)
    BY LedgerStays
  <2>1. ~IsUnread(jobs[j], x, y) /\ ~IsUnread(jobs'[j], x, y)
    BY <1>1 DEF IsUnread, Unread, NoJob
  <2> QED BY <1>1, <2>1, JobChanges, CountedNow DEF Counted, One
<1>3. owed' = owed
  <2> SUFFICES ASSUME NEW x \in Servers, NEW y \in Objects, NEW z \in Servers
               PROVE  Owed(x, y, z)' = Owed(x, y, z)
    BY LedgerStays
  <2>1. ~IsRead(jobs[j], x, y, z) /\ ~IsRead(jobs'[j], x, y, z)
    BY <1>1 DEF IsRead, NoJob
  <2> QED BY <1>1, <2>1, JobChanges, CountedNow DEF Counted, One
<1>4. served' = served
  BY <1>1, LedgerUntouched
<1> QED BY <1>1, <1>2, <1>3, <1>4 DEF Promise!vars, open, owed, served

\* A job that fails starts anew, or is one too many and is dropped.
LEMMA JobErrorIsAllowed ==
  ASSUME HomeInv, NEW j \in JobSlots, JobError(j)
  PROVE  \/ Promise!Stumble
         \/ \E s \in Servers, o \in Objects :
              \/ Promise!Drop(s, o)
              \/ \E T \in SUBSET Servers :
                   Promise!Reopen(s, o, T) \/ Promise!GiveUp(s, o, T, {})
<1>1. jobs[j] \in Job /\ jobs[j].pc \in {"inboxes", "queue"}
  BY JobInUse DEF JobError, HomeInv
<1>2. PICK s \in Servers, o \in Objects, T \in SUBSET Servers :
        s = jobs[j].origin /\ o = jobs[j].object /\ T = jobs[j].to
  BY <1>1 DEF Job
<1>3. /\ \A i \in JobSlots \ {j} : jobs'[i] = jobs[i]
      /\ errors' = errors + 1
      /\ UNCHANGED <<listening, requests, many, copies, accepted>>
  BY DEF JobError, HomeInv, Typed
<1>4. \/ jobs'[j] = NoJob
      \/ jobs'[j].pc \in {"start", "inboxes"} /\ jobs'[j].origin = s /\ jobs'[j].object = o
  <2>1. \/ jobs'[j] = NoJob
        \/ jobs'[j] = [jobs[j] EXCEPT !.pc = FirstStep(jobs[j].kind), !.to = {},
                                      !.tries = jobs[j].tries + 1]
    BY DEF JobError, HomeInv, Typed
  <2> QED BY <1>1, <1>2, <2>1 DEF Job, FirstStep
<1>5. served' = served
  BY <1>3, LedgerUntouched
<1>6. \A x \in Servers, y \in Objects, z \in Servers : ~IsRead(jobs'[j], x, y, z)
  BY <1>4 DEF IsRead, NoJob
<1>7. CASE jobs[j].pc = "inboxes"
  <2>1. owed' = owed
    <3> SUFFICES ASSUME NEW x \in Servers, NEW y \in Objects, NEW z \in Servers
                 PROVE  Owed(x, y, z)' = Owed(x, y, z)
      BY LedgerStays
    <3>1. ~IsRead(jobs[j], x, y, z)
      BY <1>7 DEF IsRead
    <3> QED BY <1>3, <1>6, <3>1, JobChanges, CountedNow DEF Counted, One
  <2>2. \A x \in Servers, y \in Objects : IsUnread(jobs[j], x, y) <=> x = s /\ y = o
    BY <1>2, <1>7 DEF IsUnread, Unread, About
  <2>3. CASE jobs'[j] = NoJob
    <3>1. \A x \in Servers, y \in Objects :
            Open(x, y)' = Open(x, y) + IF x = s /\ y = o THEN -1 ELSE 0
      <4> TAKE x \in Servers, y \in Objects
      <4>1. ~IsUnread(jobs'[j], x, y)
        BY <2>3 DEF IsUnread, Unread, NoJob
      <4> QED BY <1>3, <2>2, <4>1, JobChanges, CountedNow DEF Counted, One
    <3>2. open' = Promise!More(open, {<<s, o>>}, -1) /\ Promise!Has(open, {<<s, o>>})
      BY <3>1, OpenMoves
    <3>3. Promise!Drop(s, o)
      BY <1>3, <1>5, <2>1, <3>2 DEF Promise!Drop, open, owed, served
    <3> QED BY <3>3
  <2>4. CASE jobs'[j].pc \in {"start", "inboxes"} /\ jobs'[j].origin = s /\ jobs'[j].object = o
    <3>1. open' = open
      <4> SUFFICES ASSUME NEW x \in Servers, NEW y \in Objects
                   PROVE  Open(x, y)' = Open(x, y)
        BY LedgerStays
      <4>1. IsUnread(jobs'[j], x, y) <=> x = s /\ y = o
        BY <2>4 DEF IsUnread, Unread, About
      <4> QED BY <1>3, <2>2, <4>1, JobChanges, CountedNow DEF Counted, One
    <3>2. Promise!Stumble
      BY <1>3, <1>5, <2>1, <3>1 DEF Promise!Stumble, open, owed, served
    <3> QED BY <3>2
  <2> QED BY <1>4, <2>3, <2>4
<1>8. CASE jobs[j].pc = "queue"
  <2>1. \A x \in Servers, y \in Objects, z \in Servers :
          Owed(x, y, z)' = Owed(x, y, z) + IF x = s /\ y = o /\ z \in T THEN -1 ELSE 0
    <3> TAKE x \in Servers, y \in Objects, z \in Servers
    <3>1. IsRead(jobs[j], x, y, z) <=> x = s /\ y = o /\ z \in T
      BY <1>2, <1>8 DEF IsRead, About
    <3> QED BY <1>3, <1>6, <3>1, JobChanges, CountedNow DEF Counted, One
  <2>2. /\ owed' = Promise!More(owed, Promise!For(s, o, T), -1)
        /\ Promise!Has(owed, Promise!For(s, o, T))
    BY <2>1, OwedMoves
  <2>3. \A x \in Servers, y \in Objects : ~IsUnread(jobs[j], x, y)
    BY <1>8 DEF IsUnread, Unread
  <2>4. CASE jobs'[j] = NoJob
    <3>1. open' = open
      <4> SUFFICES ASSUME NEW x \in Servers, NEW y \in Objects
                   PROVE  Open(x, y)' = Open(x, y)
        BY LedgerStays
      <4>1. ~IsUnread(jobs'[j], x, y)
        BY <2>4 DEF IsUnread, Unread, NoJob
      <4> QED BY <1>3, <2>3, <4>1, JobChanges, CountedNow DEF Counted, One
    <3>2. \A x \in Servers, y \in Objects, z \in Servers :
            Served(x, y, z)' = Served(x, y, z) + IF x = s /\ y = o /\ z \in {} THEN -1 ELSE 0
      BY <1>3, CountedNow DEF Counted, Served
    <3>3. /\ served' = Promise!More(served, Promise!For(s, o, {}), -1)
          /\ Promise!Has(served, Promise!For(s, o, {}))
      BY <3>2, ServedMoves
    <3>4. Promise!GiveUp(s, o, T, {})
      BY <1>3, <2>2, <3>1, <3>3 DEF Promise!GiveUp, open, owed, served
    <3> QED BY <3>4
  <2>5. CASE jobs'[j].pc \in {"start", "inboxes"} /\ jobs'[j].origin = s /\ jobs'[j].object = o
    <3>1. \A x \in Servers, y \in Objects :
            Open(x, y)' = Open(x, y) + IF x = s /\ y = o THEN 1 ELSE 0
      <4> TAKE x \in Servers, y \in Objects
      <4>1. IsUnread(jobs'[j], x, y) <=> x = s /\ y = o
        BY <2>5 DEF IsUnread, Unread, About
      <4> QED BY <1>3, <2>3, <4>1, JobChanges, CountedNow DEF Counted, One
    <3>2. open' = Promise!More(open, {<<s, o>>}, 1)
      BY <3>1, OpenMoves
    <3>3. Promise!Reopen(s, o, T)
      BY <1>3, <1>5, <2>2, <3>2 DEF Promise!Reopen, open, owed, served
    <3> QED BY <3>3
  <2> QED BY <1>4, <2>4, <2>5
<1> QED BY <1>1, <1>7, <1>8

\* To throw the dice is to begin with what was owed.
LEMMA ThrowStays ==
  ASSUME HomeInv, NEW k \in ManySlots, NEW dice \in 0..(Faces - 1), ThrowDice(k, dice)
  PROVE  UNCHANGED Promise!vars
<1>1. many[k] \in Many /\ many[k].pc = "start"
  BY ManyInUse DEF ThrowDice, HomeInv
<1>2. /\ many'[k] = [many[k] EXCEPT !.pc = "deliver", !.left = many[k].to, !.dice = dice]
      /\ \A l \in ManySlots \ {k} : many'[l] = many[l]
      /\ UNCHANGED <<listening, requests, jobs, copies, accepted, errors>>
  BY DEF ThrowDice, HomeInv, Typed
<1>3. /\ many'[k].pc = "deliver" /\ many'[k].to = many[k].to /\ many'[k].left = many[k].to
      /\ many'[k].origin = many[k].origin /\ many'[k].object = many[k].object
  BY <1>1, <1>2 DEF Many
<1>4. open' = open
  BY <1>2, LedgerUntouched
<1>5. owed' = owed
  <2> SUFFICES ASSUME NEW x \in Servers, NEW y \in Objects, NEW z \in Servers
               PROVE  Owed(x, y, z)' = Owed(x, y, z)
    BY LedgerStays
  <2>1. Owes(many'[k], x, y, z) <=> Owes(many[k], x, y, z)
    BY <1>1, <1>3 DEF Owes, Unsent, About
  <2> QED BY <1>2, <2>1, ManyChanges, CountedNow DEF Counted, One
<1>6. served' = served
  <2> SUFFICES ASSUME NEW x \in Servers, NEW y \in Objects, NEW z \in Servers
               PROVE  Served(x, y, z)' = Served(x, y, z)
    BY LedgerStays
  <2>1. ~HasServed(many[k], x, y, z) /\ ~HasServed(many'[k], x, y, z)
    BY <1>1, <1>3 DEF HasServed, Sent
  <2> QED BY <1>2, <2>1, ManyChanges, CountedNow DEF Counted, One
<1> QED BY <1>2, <1>4, <1>5, <1>6 DEF Promise!vars, open, owed, served

\* Each turn of the loop serves one server that is owed the activity.
LEMMA DeliverServes ==
  ASSUME HomeInv, NEW k \in ManySlots, NEW t \in Servers, DeliverNext(k, t)
  PROVE  \E s \in Servers, o \in Objects : Promise!Serve(s, o, t)
<1>1. many[k] \in Many /\ many[k].pc = "deliver" /\ t \in many[k].left
  BY ManyInUse DEF DeliverNext, HomeInv
<1>2. PICK s \in Servers, o \in Objects : s = many[k].origin /\ o = many[k].object
  BY <1>1 DEF Many
<1>3. t \in many[k].to
  BY <1>1 DEF HomeInv, ManyLeaveOutHome, NoMany
<1>4. /\ many'[k] = [many[k] EXCEPT !.left = many[k].left \ {t}]
      /\ \A l \in ManySlots \ {k} : many'[l] = many[l]
      /\ UNCHANGED <<listening, requests, jobs, accepted, errors>>
  BY DEF DeliverNext, HomeInv, Typed
<1>5. /\ many'[k].pc = "deliver" /\ many'[k].to = many[k].to
      /\ many'[k].left = many[k].left \ {t}
      /\ many'[k].origin = s /\ many'[k].object = o
  BY <1>1, <1>2, <1>4 DEF Many
<1>6. copies' \in {copies, Promise!More(copies, {<<o, t>>}, 1)}
  <2>1. copies' = copies \/ copies' = [copies EXCEPT ![<<o, t>>] = @ + 1]
    BY <1>2 DEF DeliverNext
  <2>2. [copies EXCEPT ![<<o, t>>] = @ + 1] = Promise!More(copies, {<<o, t>>}, 1)
    BY DEF HomeInv, Typed, Promise!More
  <2> QED BY <2>1, <2>2
<1>7. \A x \in Servers, y \in Objects, z \in Servers :
        Owed(x, y, z)' = Owed(x, y, z) + IF x = s /\ y = o /\ z \in {t} THEN -1 ELSE 0
  <2> TAKE x \in Servers, y \in Objects, z \in Servers
  <2>1. /\ Owes(many[k], x, y, z) <=> x = s /\ y = o /\ z \in many[k].left
        /\ Owes(many'[k], x, y, z) <=> x = s /\ y = o /\ z \in many[k].left /\ z # t
    BY <1>1, <1>2, <1>5 DEF Owes, Unsent, About
  <2>2. Owed(x, y, z)' = Owed(x, y, z)
          + One(Owes(many'[k], x, y, z)) - One(Owes(many[k], x, y, z))
    BY <1>4, ManyChanges
  <2>3. Owed(x, y, z) \in Nat
    BY CountedNow DEF Counted
  <2> QED BY <1>1, <2>1, <2>2, <2>3 DEF One
<1>8. \A x \in Servers, y \in Objects, z \in Servers :
        Served(x, y, z)' = Served(x, y, z) + IF x = s /\ y = o /\ z \in {t} THEN 1 ELSE 0
  <2> TAKE x \in Servers, y \in Objects, z \in Servers
  <2>1. /\ HasServed(many[k], x, y, z)
             <=> x = s /\ y = o /\ z \in many[k].to /\ z \notin many[k].left
        /\ HasServed(many'[k], x, y, z)
             <=> x = s /\ y = o /\ z \in many[k].to /\ (z \notin many[k].left \/ z = t)
    BY <1>1, <1>2, <1>5 DEF HasServed, Sent, About
  <2>2. Served(x, y, z)' = Served(x, y, z)
          + One(HasServed(many'[k], x, y, z)) - One(HasServed(many[k], x, y, z))
    BY <1>4, ManyChanges
  <2>3. Served(x, y, z) \in Nat
    BY CountedNow DEF Counted
  <2> QED BY <1>1, <1>3, <2>1, <2>2, <2>3 DEF One
<1>9. /\ owed' = Promise!More(owed, Promise!For(s, o, {t}), -1)
      /\ Promise!Has(owed, Promise!For(s, o, {t}))
  BY <1>7, OwedMoves
<1>10. served' = Promise!More(served, Promise!For(s, o, {t}), 1)
  BY <1>8, ServedMoves
<1>11. open' = open
  BY <1>4, LedgerUntouched
<1>12. Promise!Serve(s, o, t)
  BY <1>4, <1>6, <1>9, <1>10, <1>11 DEF Promise!Serve, open, owed, served
<1> QED BY <1>12

\* Once all are served nothing has to be repeated.
LEMMA FinishFinishes ==
  ASSUME HomeInv, NEW k \in ManySlots, FinishMany(k)
  PROVE  \E s \in Servers, o \in Objects, T \in SUBSET Servers : Promise!Finish(s, o, T)
<1>1. many[k] \in Many /\ many[k].pc = "deliver" /\ many[k].left = {}
  BY ManyInUse DEF FinishMany, HomeInv
<1>2. PICK s \in Servers, o \in Objects, T \in SUBSET Servers :
        s = many[k].origin /\ o = many[k].object /\ T = many[k].to
  BY <1>1 DEF Many
<1>3. /\ many'[k] = NoMany
      /\ \A l \in ManySlots \ {k} : many'[l] = many[l]
      /\ UNCHANGED <<listening, requests, jobs, copies, accepted, errors>>
  BY DEF FinishMany, HomeInv, Typed
<1>4. open' = open
  BY <1>3, LedgerUntouched
<1>5. owed' = owed
  <2> SUFFICES ASSUME NEW x \in Servers, NEW y \in Objects, NEW z \in Servers
               PROVE  Owed(x, y, z)' = Owed(x, y, z)
    BY LedgerStays
  <2>1. ~Owes(many[k], x, y, z) /\ ~Owes(many'[k], x, y, z)
    BY <1>1, <1>3 DEF Owes, Unsent, NoMany
  <2> QED BY <1>3, <2>1, ManyChanges, CountedNow DEF Counted, One
<1>6. \A x \in Servers, y \in Objects, z \in Servers :
        Served(x, y, z)' = Served(x, y, z) + IF x = s /\ y = o /\ z \in T THEN -1 ELSE 0
  <2> TAKE x \in Servers, y \in Objects, z \in Servers
  <2>1. /\ HasServed(many[k], x, y, z) <=> x = s /\ y = o /\ z \in T
        /\ ~HasServed(many'[k], x, y, z)
    BY <1>1, <1>2, <1>3 DEF HasServed, Sent, About, NoMany
  <2> QED BY <1>3, <2>1, ManyChanges, CountedNow DEF Counted, One
<1>7. /\ served' = Promise!More(served, Promise!For(s, o, T), -1)
      /\ Promise!Has(served, Promise!For(s, o, T))
  BY <1>6, ServedMoves
<1>8. Promise!Finish(s, o, T)
  BY <1>3, <1>4, <1>5, <1>7 DEF Promise!Finish, open, owed, served
<1> QED BY <1>8

\* A DeliverMany that fails owes those it has served the activity again, or is
\* one too many and owes nobody.
LEMMA ManyErrorIsAllowed ==
  ASSUME HomeInv, NEW k \in ManySlots, ManyError(k)
  PROVE  \E s \in Servers, o \in Objects, T, U \in SUBSET Servers :
           Promise!Repeat(s, o, U) \/ Promise!GiveUp(s, o, T, U)
<1>1. many[k] \in Many /\ many[k].pc = "deliver"
  BY ManyInUse DEF ManyError, HomeInv
<1>2. PICK s \in Servers, o \in Objects, T \in SUBSET Servers, U \in SUBSET Servers :
        /\ s = many[k].origin /\ o = many[k].object
        /\ T = many[k].left /\ U = many[k].to \ many[k].left
  BY <1>1 DEF Many
<1>3. many[k].left \subseteq many[k].to
  BY <1>1 DEF HomeInv, ManyLeaveOutHome, NoMany
<1>4. /\ \A l \in ManySlots \ {k} : many'[l] = many[l]
      /\ errors' = errors + 1
      /\ UNCHANGED <<listening, requests, jobs, copies, accepted>>
  BY DEF ManyError, HomeInv, Typed
<1>5. \/ many'[k] = NoMany
      \/ /\ many'[k].pc = "start" /\ many'[k].to = many[k].to
         /\ many'[k].origin = s /\ many'[k].object = o
  <2>1. \/ many'[k] = NoMany
        \/ many'[k] = [many[k] EXCEPT !.pc = "start", !.left = {}, !.dice = 0,
                                      !.tries = many[k].tries + 1]
    BY DEF ManyError, HomeInv, Typed
  <2> QED BY <1>1, <1>2, <2>1 DEF Many
<1>6. open' = open
  BY <1>4, LedgerUntouched
<1>7. \A x \in Servers, y \in Objects, z \in Servers :
        /\ Owes(many[k], x, y, z) <=> x = s /\ y = o /\ z \in T
        /\ HasServed(many[k], x, y, z) <=> x = s /\ y = o /\ z \in U
        /\ ~HasServed(many'[k], x, y, z)
  BY <1>1, <1>2, <1>5 DEF Owes, HasServed, Unsent, Sent, About, NoMany
<1>8. \A x \in Servers, y \in Objects, z \in Servers :
        Served(x, y, z)' = Served(x, y, z) + IF x = s /\ y = o /\ z \in U THEN -1 ELSE 0
  BY <1>4, <1>7, ManyChanges, CountedNow DEF Counted, One
<1>9. /\ served' = Promise!More(served, Promise!For(s, o, U), -1)
      /\ Promise!Has(served, Promise!For(s, o, U))
  BY <1>8, ServedMoves
<1>10. CASE many'[k] = NoMany
  <2>1. \A x \in Servers, y \in Objects, z \in Servers :
          Owed(x, y, z)' = Owed(x, y, z) + IF x = s /\ y = o /\ z \in T THEN -1 ELSE 0
    <3> TAKE x \in Servers, y \in Objects, z \in Servers
    <3>1. ~Owes(many'[k], x, y, z)
      BY <1>10 DEF Owes, Unsent, NoMany
    <3> QED BY <1>4, <1>7, <3>1, ManyChanges, CountedNow DEF Counted, One
  <2>2. /\ owed' = Promise!More(owed, Promise!For(s, o, T), -1)
        /\ Promise!Has(owed, Promise!For(s, o, T))
    BY <2>1, OwedMoves
  <2>3. Promise!GiveUp(s, o, T, U)
    BY <1>4, <1>6, <1>9, <2>2 DEF Promise!GiveUp, open, owed, served
  <2> QED BY <2>3
<1>11. CASE /\ many'[k].pc = "start" /\ many'[k].to = many[k].to
            /\ many'[k].origin = s /\ many'[k].object = o
  <2>1. \A x \in Servers, y \in Objects, z \in Servers :
          Owed(x, y, z)' = Owed(x, y, z) + IF x = s /\ y = o /\ z \in U THEN 1 ELSE 0
    <3> TAKE x \in Servers, y \in Objects, z \in Servers
    <3>1. Owes(many'[k], x, y, z) <=> x = s /\ y = o /\ (z \in T \/ z \in U)
      BY <1>2, <1>3, <1>11 DEF Owes, Unsent, About
    <3>2. ~(z \in T /\ z \in U)
      BY <1>2
    <3> QED BY <1>4, <1>7, <3>1, <3>2, ManyChanges, CountedNow DEF Counted, One
  <2>2. owed' = Promise!More(owed, Promise!For(s, o, U), 1)
    BY <2>1, OwedMoves
  <2>3. Promise!Repeat(s, o, U)
    BY <1>4, <1>6, <1>9, <2>2 DEF Promise!Repeat, open, owed, served
  <2> QED BY <2>3
<1> QED BY <1>5, <1>10, <1>11

\* A restart loses what is open, owed and served.
LEMMA RestartLoses ==
  ASSUME Restart
  PROVE  Promise!Restart
<1>1. /\ requests' = [r \in RequestSlots |-> NoRequest]
      /\ jobs' = [j \in JobSlots |-> NoJob] /\ many' = [k \in ManySlots |-> NoMany]
      /\ UNCHANGED <<listening, accepted, errors, copies>>
  BY DEF Restart
<1>2. \A x \in Servers, y \in Objects, z \in Servers :
        /\ Asking(x, y)' = {} /\ Unreading(x, y)' = {} /\ Reading(x, y, z)' = {}
        /\ Owing(x, y, z)' = {} /\ Serving(x, y, z)' = {}
  BY <1>1 DEF Asking, Asks, Unreading, IsUnread, Unread, NoJob, Reading, IsRead, Owing, Owes,
     Unsent, NoMany, Serving, HasServed, Sent
<1>3. \A x \in Servers, y \in Objects, z \in Servers :
        Open(x, y)' = 0 /\ Owed(x, y, z)' = 0 /\ Served(x, y, z)' = 0
  <2> TAKE x \in Servers, y \in Objects, z \in Servers
  <2>1. Cardinality({}) = 0
    BY FS_EmptySet
  <2>2. /\ Cardinality(Asking(x, y)') = 0 /\ Cardinality(Unreading(x, y)') = 0
        /\ Cardinality(Reading(x, y, z)') = 0 /\ Cardinality(Owing(x, y, z)') = 0
        /\ Cardinality(Serving(x, y, z)') = 0
    BY <1>2, <2>1
  <2> QED BY <2>2, CountedNext DEF Counted
<1>4. /\ open' = [p \in Servers \X Objects |-> 0]
      /\ owed' = [p \in Servers \X Objects \X Servers |-> 0]
      /\ served' = owed'
  BY <1>3 DEF open, owed, served
<1> QED BY <1>1, <1>4 DEF Promise!Restart, open, owed, served

\* At the start the ledger is empty.
LEMMA InitLedger == Init => Promise!Init
<1> SUFFICES ASSUME Init
             PROVE  Promise!Init
  OBVIOUS
<1>1. \A x \in Servers, y \in Objects, z \in Servers :
        /\ Asking(x, y) = {} /\ Unreading(x, y) = {} /\ Reading(x, y, z) = {}
        /\ Owing(x, y, z) = {} /\ Serving(x, y, z) = {}
  BY DEF Init, Asking, Asks, Unreading, IsUnread, Unread, NoJob, Reading, IsRead, Owing, Owes,
     Unsent, NoMany, Serving, HasServed, Sent
<1>2. \A x \in Servers, y \in Objects, z \in Servers :
        Open(x, y) = 0 /\ Owed(x, y, z) = 0 /\ Served(x, y, z) = 0
  <2> TAKE x \in Servers, y \in Objects, z \in Servers
  <2>1. Cardinality({}) = 0
    BY FS_EmptySet
  <2>2. /\ Cardinality(Asking(x, y)) = 0 /\ Cardinality(Unreading(x, y)) = 0
        /\ Cardinality(Reading(x, y, z)) = 0 /\ Cardinality(Owing(x, y, z)) = 0
        /\ Cardinality(Serving(x, y, z)) = 0
    BY <1>1, <2>1
  <2> QED BY <2>2, CountedNow DEF Counted
<1>3. /\ open = [p \in Servers \X Objects |-> 0]
      /\ owed = [p \in Servers \X Objects \X Servers |-> 0]
      /\ served = owed
  BY <1>2 DEF open, owed, served
<1> QED BY <1>3 DEF Init, Promise!Init, open, owed, served

\* Every step of Fanout is a step of the ledger or leaves it as it is.
LEMMA StepsAreLedgerSteps ==
  ASSUME HomeInv, [Next]_vars
  PROVE  [Promise!Next]_Promise!vars
<1>1. ASSUME NEW r \in RequestSlots, NEW kind \in Arrivals, NEW s \in Servers,
             NEW o \in Objects, Accept(r, kind, s, o)
      PROVE  Promise!Next
  BY <1>1, AcceptOpens DEF Promise!Next
<1>2. ASSUME NEW r \in RequestSlots, NEW j \in JobSlots, QueueJob(r, j)
      PROVE  UNCHANGED Promise!vars
  BY <1>2, QueueJobStays
<1>3. ASSUME NEW j \in JobSlots, JobStep(j)
      PROVE  [Promise!Next]_Promise!vars
  <2>1. CASE CheckReceiveOnly(j)
    BY <2>1, CheckDropsOrStays DEF Promise!Next
  <2>2. CASE ReadInboxes(j)
    BY <2>2, ReadAddresses DEF Promise!Next
  <2>3. CASE CacheObject(j)
    BY <2>3, CacheObjectStays
  <2>4. CASE \E k \in ManySlots : QueueMany(j, k)
    BY <2>4, QueueManyStays
  <2> QED BY <1>3, <2>1, <2>2, <2>3, <2>4 DEF JobStep
<1>4. ASSUME NEW j \in JobSlots, JobError(j)
      PROVE  Promise!Next
  BY <1>4, JobErrorIsAllowed DEF Promise!Next
<1>5. ASSUME NEW k \in ManySlots, ManyStep(k)
      PROVE  [Promise!Next]_Promise!vars
  <2>1. CASE \E dice \in 0..(Faces - 1) : ThrowDice(k, dice)
    BY <2>1, ThrowStays
  <2>2. CASE \E t \in Servers : DeliverNext(k, t)
    BY <2>2, DeliverServes DEF Promise!Next
  <2>3. CASE FinishMany(k)
    BY <2>3, FinishFinishes DEF Promise!Next
  <2> QED BY <1>5, <2>1, <2>2, <2>3 DEF ManyStep
<1>6. ASSUME NEW k \in ManySlots, ManyError(k)
      PROVE  Promise!Next
  BY <1>6, ManyErrorIsAllowed DEF Promise!Next
<1>7. ASSUME NEW s \in Servers, Churn(s)
      PROVE  Promise!Next
  <2>1. open' = open /\ owed' = owed /\ served' = served
    BY <1>7, LedgerUntouched DEF Churn
  <2>2. Promise!Churn
    BY <1>7, <2>1 DEF Churn, Promise!Churn, HomeInv, Typed, open, owed, served
  <2> QED BY <2>2 DEF Promise!Next
<1>8. ASSUME NEW s \in Servers, NEW cfg \in Configs \cup {NoConfig}, Configure(s, cfg)
      PROVE  UNCHANGED Promise!vars
  <2>1. open' = open /\ owed' = owed /\ served' = served
    BY <1>8, LedgerUntouched DEF Configure
  <2> QED BY <1>8, <2>1 DEF Configure, Promise!vars, open, owed, served
<1>9. CASE Restart
  BY <1>9, RestartLoses DEF Promise!Next
<1>10. CASE UNCHANGED vars
  <2>1. open' = open /\ owed' = owed /\ served' = served
    BY <1>10, LedgerUntouched DEF vars
  <2> QED BY <1>10, <2>1 DEF vars, Promise!vars, open, owed, served
<1> QED BY <1>1, <1>2, <1>3, <1>4, <1>5, <1>6, <1>7, <1>8, <1>9, <1>10 DEF Next

\* Requests, jobs and DeliverMany jobs hand each activity on without losing or
\* repeating it: each accepted activity is owed once to whom the relay found
\* listening, never to its sender or the object's home, and again only to make up
\* for a failed step.
THEOREM KeepsLedger == Spec => ImplementsLedger
<1>1. Init => HomeInv /\ Promise!Init
  BY InitHome, InitLedger
<1>2. HomeInv /\ [Next]_vars => HomeInv'
  BY HomeInvStable
<1>3. HomeInv /\ [Next]_vars => [Promise!Next]_Promise!vars
  BY StepsAreLedgerSteps
<1> QED BY <1>1, <1>2, <1>3, PTL DEF Spec, ImplementsLedger, Promise!Spec
=============================================================================
