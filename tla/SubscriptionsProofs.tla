------------------------ MODULE SubscriptionsProofs ------------------------
(***************************************************************************)
(* Proofs about Subscriptions, for every set of actors, domains, slots and *)
(* administrators, in both modes, with any number of retries and restarts. *)
(***************************************************************************)
EXTENDS Subscriptions, DomainsProofs

-----------------------------------------------------------------------------
(* Type correctness. *)

\* The requests stay well formed through every step of the inbox handler.
LEMMA TypeRequests ==
  ASSUME TypeOK, NEW r \in RequestSlots,
         \/ \E kind \in Arrivals, a \in Actors : Receive(r, kind, a)
         \/ RequestStep(r)
         \/ Abandon(r)
  PROVE  TypeOK'
<1> USE SubscriptionsAssumption DEF TypeOK, tables, bounds, Request, NoRequest
<1>1. ASSUME NEW kind \in Arrivals, NEW a \in Actors, Receive(r, kind, a)
      PROVE  TypeOK'
  BY <1>1 DEF Receive
<1>2. CASE CheckAllowed(r)
  BY <1>2 DEF CheckAllowed, Answer, Advance
<1>3. CASE CheckConnected(r)
  BY <1>3 DEF CheckConnected, Answer, Advance
<1>4. ASSUME NEW j \in JobSlots, QueueJob(r, j)
      PROVE  TypeOK'
  <2>1. requests[r] \in Request
    BY <1>4 DEF QueueJob
  <2>2. NewJob(requests[r].kind, requests[r].actor) \in Job
    BY <2>1 DEF NewJob, FirstStep, Job, Kinds
  <2>3. jobs' \in [JobSlots -> Job \cup {NoJob}]
    BY <1>4, <2>2 DEF QueueJob
  <2> QED BY <1>4, <2>3 DEF QueueJob, Answer
<1>5. CASE Abandon(r)
  BY <1>5 DEF Abandon, Answer
<1> QED BY <1>1, <1>2, <1>3, <1>4, <1>5 DEF RequestStep

\* The jobs stay well formed through each of their steps and retries.
LEMMA TypeJobs ==
  ASSUME TypeOK, NEW j \in JobSlots, JobStep(j) \/ JobError(j)
  PROVE  TypeOK'
<1> USE SubscriptionsAssumption DEF TypeOK, tables, bounds
<1>1. jobs[j] \in Job /\ jobs[j].actor \in Actors
  BY DEF JobStep, JobError, CheckFollow, FollowBack, AddConnection, SaveActor,
         QueueAccept, QueueQueries, CheckUndo, RemoveConnection, QueueUndo, Job, NoJob
<1>2. CASE CheckFollow(j)
  BY <1>1, <1>2 DEF CheckFollow, Goto, Job
<1>3. CASE FollowBack(j)
  BY <1>1, <1>3 DEF FollowBack, Goto, Job
<1>4. CASE AddConnection(j)
  BY <1>1, <1>4 DEF AddConnection, Goto, Job
<1>5. CASE SaveActor(j)
  BY <1>1, <1>5 DEF SaveActor, Goto, Job
<1>6. CASE QueueAccept(j) \/ QueueQueries(j)
  BY <1>1, <1>6 DEF QueueAccept, QueueQueries, Goto, Finish, Job
<1>7. CASE CheckUndo(j)
  BY <1>1, <1>7 DEF CheckUndo, Goto, Job
<1>8. CASE RemoveConnection(j)
  BY <1>1, <1>8 DEF RemoveConnection, Goto, Finish, Job
<1>9. CASE QueueUndo(j)
  BY <1>1, <1>9 DEF QueueUndo, Finish, Job
<1>10. CASE JobError(j)
  <2>1. errors' \in 0..MaxErrors
    BY <1>10 DEF JobError
  <2>2. jobs' \in [JobSlots -> Job \cup {NoJob}]
    BY <1>1, <1>10 DEF JobError, Finish, FirstStep, Job
  <2> QED BY <1>10, <2>1, <2>2 DEF JobError
<1> QED BY <1>2, <1>3, <1>4, <1>5, <1>6, <1>7, <1>8, <1>9, <1>10 DEF JobStep

\* The edits and the lists stay well formed through each step of an edit.
LEMMA TypeEdits ==
  ASSUME TypeOK, NEW m \in Admins,
         \/ \E kind \in EditsMade, domains \in (SUBSET DomainNames) \ {{}} :
               StartEdit(m, kind, domains)
         \/ EditStep(m)
  PROVE  TypeOK'
<1> USE SubscriptionsAssumption DEF TypeOK, tables, bounds
<1>1. ASSUME NEW kind \in EditsMade, NEW domains \in SUBSET DomainNames,
             StartEdit(m, kind, domains)
      PROVE  TypeOK'
  BY <1>1 DEF StartEdit, Edit
<1>2. ASSUME edits[m].kind \in EditKinds
      PROVE  edits[m] \in Edit /\ \A d : Written(edits[m], d) \in Edit \cup {NoEdit}
  <2>1. edits[m] \in Edit
    BY <1>2 DEF NoEdit, EditKinds
  <2>2. ASSUME NEW d
        PROVE  [edits[m] EXCEPT !.todo = @ \ {d}, !.unallow = {}] \in Edit
    BY <2>1 DEF Edit
  <2> QED BY <2>1, <2>2 DEF Written
<1>3. ASSUME NEW a \in Actors, SweepOne(m, a)
      PROVE  TypeOK'
  BY <1>2, <1>3 DEF SweepOne, Edit
<1>4. ASSUME NEW d \in DomainNames, Block(m, d)
      PROVE  TypeOK'
  BY <1>2, <1>4 DEF Block, Writes, Edit, EditKinds
<1>5. ASSUME NEW d \in DomainNames,
             Unallow(m, d) \/ Unblock(m, d) \/ Allow(m, d) \/ Disallow(m, d)
      PROVE  TypeOK'
  BY <1>2, <1>5 DEF Unallow, Unblock, Allow, Disallow, Writes, EditKinds
<1> QED BY <1>1, <1>3, <1>4, <1>5 DEF EditStep

\* Every variable keeps its type in every behaviour, restarts included.
THEOREM TypeCorrect == Spec => []TypeOK
<1>1. Init => TypeOK
  BY SubscriptionsAssumption DEF Init, TypeOK
<1>2. TypeOK /\ [Next]_vars => TypeOK'
  <2> SUFFICES ASSUME TypeOK, [Next]_vars
               PROVE  TypeOK'
    OBVIOUS
  <2>1. CASE Restart
    <3>1. crashes' \in 0..MaxCrashes
      BY <2>1, SubscriptionsAssumption DEF Restart, TypeOK
    <3> QED BY <2>1, <3>1 DEF Restart, TypeOK, tables
  <2>2. CASE UNCHANGED vars
    BY <2>2 DEF TypeOK, vars, tables, bounds
  <2>3. ASSUME NEW a \in Actors, Meet(a)
        PROVE  TypeOK'
    BY <2>3 DEF Meet, TypeOK, bounds
  <2> QED BY <2>1, <2>2, <2>3, TypeRequests, TypeJobs, TypeEdits DEF Next
<1> QED BY <1>1, <1>2, PTL DEF Spec

\* Names of any length, of one label at least: what is_allowed finds in the lists
\* by its scan is what they say, at every moment.
THEOREM ScanAlwaysAgreesWithNames ==
  ASSUME NEW Label,
         \A d \in DomainNames : d \in Seq(Label) /\ Len(d) >= 1,
         \A a \in Actors : AuthorityOf[a] \in Seq(Label) /\ Len(AuthorityOf[a]) >= 1
  PROVE  Spec => []ScanAgreesWithNames
<1>1. ASSUME TypeOK
      PROVE  ScanAgreesWithNames
  <2>1. SUFFICES ASSUME NEW list \in {allowed, blocked}, NEW a \in Actors
                 PROVE  ListMatches(list, AuthorityOf[a])
                          <=> \E d \in list : /\ IsSuffix(d, AuthorityOf[a])
                                              /\ Len(d) >= 2 \/ Len(AuthorityOf[a]) = 1
    BY DEF ScanAgreesWithNames
  <2>2. list \subseteq DomainNames
    BY <1>1 DEF TypeOK
  <2>3. list \in SUBSET Seq(Label) /\ \A d \in list : Len(d) >= 1
    BY <2>2
  <2>4. \A d \in list : IsSuffix(d, AuthorityOf[a]) <=> KeyMatches(d, AuthorityOf[a])
    BY DEF IsSuffix, KeyMatches, DomainKey
  <2> QED BY <2>3, <2>4, ScanIsExact
<1> QED BY <1>1, TypeCorrect, PTL

-----------------------------------------------------------------------------
(* Every listener has an actor row. *)

\* Whoever has a request or a job in progress was saved before, and rows are
\* never removed: that is why inserting the connected id first is harmless.
RowsInv ==
  /\ ListenersHaveActors
  /\ \A r \in RequestSlots : requests[r].pc # "idle" => requests[r].actor \in saved
  /\ \A j \in JobSlots : jobs[j].pc # "none" => jobs[j].actor \in saved

\* Every listener has an actor row, so Db::inboxes leaves none of them out.
THEOREM ListenersAlwaysHaveActors == Spec => []ListenersHaveActors
<1>1. Init => RowsInv
  BY DEF Init, RowsInv, ListenersHaveActors, NoRequest, NoJob
<1>2. TypeOK /\ RowsInv /\ [Next]_vars => RowsInv'
  <2> SUFFICES ASSUME TypeOK, RowsInv, [Next]_vars
               PROVE  RowsInv'
    OBVIOUS
  <2> USE DEF RowsInv, ListenersHaveActors, tables, NoRequest, NoJob
  <2>1. ASSUME NEW r \in RequestSlots, NEW kind \in Arrivals, NEW a \in Actors,
               Receive(r, kind, a)
        PROVE  RowsInv'
    BY <2>1 DEF Receive, TypeOK
  <2>2. ASSUME NEW r \in RequestSlots, CheckAllowed(r) \/ CheckConnected(r) \/ Abandon(r)
        PROVE  RowsInv'
    <3>1. requests[r].actor \in saved /\ requests[r].pc # "idle"
      BY <2>2 DEF CheckAllowed, CheckConnected, Abandon, TypeOK, Request
    <3>2. \A q \in RequestSlots : requests'[q].pc # "idle" => requests'[q].actor \in saved
      BY <2>2, <3>1 DEF CheckAllowed, CheckConnected, Abandon, Answer, Advance, TypeOK, Request
    <3> QED BY <2>2, <3>2 DEF CheckAllowed, CheckConnected, Abandon
  <2>3. ASSUME NEW r \in RequestSlots, NEW j \in JobSlots, QueueJob(r, j)
        PROVE  RowsInv'
    BY <2>3 DEF QueueJob, Answer, NewJob, TypeOK
  <2>4. ASSUME NEW j \in JobSlots, JobStep(j) \/ JobError(j)
        PROVE  RowsInv'
    <3>1. jobs[j] \in Job /\ jobs[j].actor \in saved
      BY <2>4 DEF JobStep, JobError, CheckFollow, FollowBack, AddConnection, SaveActor,
                  QueueAccept, QueueQueries, CheckUndo, RemoveConnection, QueueUndo,
                  TypeOK, Job
    <3>2. \A k \in JobSlots : jobs'[k].pc # "none" => jobs'[k].actor \in saved
      BY <2>4, <3>1 DEF JobStep, JobError, CheckFollow, FollowBack, AddConnection,
                  SaveActor, QueueAccept, QueueQueries, CheckUndo, RemoveConnection,
                  QueueUndo, Goto, Finish, TypeOK, Job
    <3>3. saved \subseteq saved' /\ requests' = requests
      BY <2>4 DEF JobStep, JobError, CheckFollow, FollowBack, AddConnection, SaveActor,
                  QueueAccept, QueueQueries, CheckUndo, RemoveConnection, QueueUndo
    <3>4. connected' \subseteq saved'
      BY <2>4, <3>1 DEF JobStep, JobError, CheckFollow, FollowBack, AddConnection,
                  SaveActor, QueueAccept, QueueQueries, CheckUndo, RemoveConnection,
                  QueueUndo
    <3> QED BY <3>2, <3>3, <3>4
  <2>5. ASSUME NEW m \in Admins, NEW kind, NEW domains, StartEdit(m, kind, domains)
        PROVE  RowsInv'
    BY <2>5 DEF StartEdit
  <2>6. ASSUME NEW m \in Admins, EditStep(m)
        PROVE  RowsInv'
    BY <2>6 DEF EditStep, SweepOne, Block, Unallow, Unblock, Allow, Disallow
  <2>7. CASE Restart
    BY <2>7 DEF Restart
  <2>8. ASSUME NEW a \in Actors, Meet(a)
        PROVE  RowsInv'
    BY <2>8 DEF Meet
  <2>9. CASE UNCHANGED vars
    BY <2>9 DEF vars
  <2> QED
    BY <2>1, <2>2, <2>3, <2>4, <2>5, <2>6, <2>7, <2>8, <2>9 DEF Next, RequestStep
<1>3. RowsInv => ListenersHaveActors
  BY DEF RowsInv
<1> QED BY <1>1, <1>2, <1>3, TypeCorrect, PTL DEF Spec

-----------------------------------------------------------------------------
(* The sweep of an edit leaves no denied listener behind. *)

\* A longer allowed list and a shorter blocked one turn nobody new away.
LEMMA RelaxedListsAllow ==
  ASSUME NEW al, NEW al2, NEW bl, NEW bl2, NEW authority,
         al \subseteq al2, bl2 \subseteq bl,
         IsAllowed(Restricted, al, bl, authority)
  PROVE  IsAllowed(Restricted, al2, bl2, authority)
BY DEF IsAllowed, ListMatches

\* A list that gains or loses one domain turns away only what that domain matches.
LEMMA OneDomainDenies ==
  ASSUME NEW al, NEW bl, NEW d, NEW authority,
         IsAllowed(Restricted, al, bl, authority),
         ~KeyMatches(d, authority)
  PROVE  /\ IsAllowed(Restricted, al, bl \cup {d}, authority)
         /\ IsAllowed(Restricted, al \ {d}, bl, authority)
BY DEF IsAllowed, ListMatches

\* While an edit has domains to write, whoever it has swept past and still
\* listens joined behind its back.
SweepLeavesNobody ==
  \A m \in Admins, a \in connected : SweptPast(m, a) => a \in late

LateInv == SweepLeavesNobody /\ DeniedListenersAreLate

\* Only AddConnection, RemoveConnection and the steps of edits touch what
\* LateInv speaks of.
LEMMA LateInvStable ==
  ASSUME LateInv, UNCHANGED <<connected, late, allowed, blocked, edits>>
  PROVE  LateInv'
BY DEF LateInv, SweepLeavesNobody, DeniedListenersAreLate, Denied, SweptPast

\* What the jobs do keeps the invariant of the sweep.
LEMMA LateInvJobs ==
  ASSUME TypeOK, LateInv, NEW j \in JobSlots, AddConnection(j) \/ RemoveConnection(j)
  PROVE  LateInv'
<1> USE DEF LateInv, SweepLeavesNobody, DeniedListenersAreLate
<1>1. \A a : Denied(a)' <=> Denied(a)
  BY DEF AddConnection, RemoveConnection, Denied
<1>2. \A m, a : SweptPast(m, a)' <=> SweptPast(m, a)
  BY DEF AddConnection, RemoveConnection, SweptPast
<1>3. CASE AddConnection(j)
  BY <1>1, <1>2, <1>3 DEF AddConnection, LetInLate
<1>4. CASE RemoveConnection(j)
  BY <1>1, <1>2, <1>4 DEF RemoveConnection
<1> QED BY <1>3, <1>4

\* A step of one edit: what it does to the other edits, which is nothing.
LEMMA LateInvEdits ==
  ASSUME TypeOK, LateInv, NEW m \in Admins, EditStep(m)
  PROVE  LateInv'
<1> USE DEF LateInv, SweepLeavesNobody, DeniedListenersAreLate
<1>1. edits[m] \in Edit
  BY DEF EditStep, SweepOne, Block, Unallow, Unblock, Allow, Disallow, Writes, TypeOK,
         NoEdit, EditKinds
<1>2. ASSUME NEW a \in Actors, SweepOne(m, a)
      PROVE  LateInv'
  <2>1. \A b : Denied(b)' <=> Denied(b)
    BY <1>2 DEF SweepOne, Denied
  <2>2. connected' \subseteq connected /\ \A b \in connected' : b \in late <=> b \in late'
    BY <1>2 DEF SweepOne
  <2>3. ASSUME NEW n \in Admins, NEW b \in connected', SweptPast(n, b)', b # a
        PROVE  SweptPast(n, b)
    BY <1>1, <1>2, <2>3 DEF SweepOne, SweptPast, TypeOK, Edit
  <2>4. ASSUME NEW n \in Admins, a \in connected', SweptPast(n, a)'
        PROVE  SweptPast(n, a)
    <3>1. CASE n = m
      BY <1>1, <1>2, <2>4, <3>1 DEF SweepOne, SweptPast, TypeOK, Edit
    <3>2. CASE n # m
      BY <1>1, <1>2, <2>4, <3>2 DEF SweepOne, SweptPast, TypeOK
    <3> QED BY <3>1, <3>2
  <2> QED BY <2>1, <2>2, <2>3, <2>4
<1>3. ASSUME NEW d \in DomainNames,
             \/ Block(m, d) \/ Unallow(m, d) \/ Unblock(m, d)
             \/ Allow(m, d) \/ Disallow(m, d)
      PROVE  LateInv'
  <2>1. connected' = connected /\ late' = late
    BY <1>3 DEF Block, Unallow, Unblock, Allow, Disallow
  <2>2. \A n \in Admins : \A b : SweptPast(n, b)' => SweptPast(n, b)
    <3>1. \/ edits'[m] = NoEdit
          \/ /\ edits'[m].kind = edits[m].kind
             /\ edits'[m].unswept = edits[m].unswept
             /\ edits'[m].todo \subseteq edits[m].todo
      <4>1. CASE Block(m, d)
        BY <1>1, <4>1 DEF Block, TypeOK, Edit
      <4>2. CASE ~Block(m, d)
        <5>1. edits'[m] = Written(edits[m], d)
          BY <1>3, <4>2 DEF Unallow, Unblock, Allow, Disallow, TypeOK
        <5> QED BY <1>1, <5>1 DEF Written, Edit
      <4> QED BY <4>1, <4>2
    <3>2. \A n \in Admins : n # m => edits'[n] = edits[n]
      BY <1>3 DEF Block, Unallow, Unblock, Allow, Disallow, TypeOK
    <3> QED BY <3>1, <3>2 DEF SweptPast, NoEdit, EditKinds
  <2>3. SUFFICES ASSUME NEW b \in connected, Denied(b)', ~Denied(b)
                 PROVE  b \in late
    BY <2>1, <2>2
  <2>4. b \in Actors
    BY DEF TypeOK
  <2>5. CASE Unblock(m, d) \/ Allow(m, d)
    BY <2>3, <2>5, RelaxedListsAllow DEF Unblock, Allow, Denied
  <2>6. CASE Disallow(m, d) /\ ~Restricted
    BY <2>3, <2>6 DEF Disallow, Denied, IsAllowed
  <2>7. CASE Block(m, d) \/ Unallow(m, d) \/ (Disallow(m, d) /\ Restricted)
    <3>1. KeyMatches(d, AuthorityOf[b])
      <4>1. \/ blocked' = blocked \cup {d} /\ allowed' = allowed
            \/ blocked' = blocked /\ allowed' = allowed \ {d}
        BY <2>7 DEF Block, Unallow, Disallow
      <4>2. /\ IsAllowed(Restricted, allowed, blocked, AuthorityOf[b])
            /\ ~IsAllowed(Restricted, allowed', blocked', AuthorityOf[b])
        BY <2>3 DEF Denied
      <4>3. ASSUME ~KeyMatches(d, AuthorityOf[b])
            PROVE  /\ IsAllowed(Restricted, allowed, blocked \cup {d}, AuthorityOf[b])
                   /\ IsAllowed(Restricted, allowed \ {d}, blocked, AuthorityOf[b])
        BY <4>2, <4>3, OneDomainDenies, Zenon
      <4> QED BY <4>1, <4>2, <4>3, Zenon
    <3>2. SweptPast(m, b)
      BY <2>7, <3>1 DEF Block, Unallow, Disallow, Writes, SweptPast, Sweeps, EditKinds
    <3> QED BY <3>2
  <2> QED BY <1>3, <2>5, <2>6, <2>7
<1> QED BY <1>2, <1>3 DEF EditStep

\* A new edit has swept past nobody, and a finished or lost one past nobody.
LEMMA LateInvStart ==
  ASSUME TypeOK, LateInv,
         \/ \E m \in Admins, kind \in EditsMade, domains \in (SUBSET DomainNames) \ {{}} :
               StartEdit(m, kind, domains)
         \/ Restart
  PROVE  LateInv'
<1> USE DEF LateInv, SweepLeavesNobody, DeniedListenersAreLate
<1>1. connected' = connected /\ late' = late /\ \A a : Denied(a)' <=> Denied(a)
  BY DEF StartEdit, Restart, tables, Denied
<1>2. ASSUME NEW m \in Admins, NEW kind \in EditsMade, NEW domains,
             StartEdit(m, kind, domains)
      PROVE  \A n \in Admins, a \in Actors : SweptPast(n, a)' => SweptPast(n, a)
  BY <1>2 DEF StartEdit, SweptPast, TypeOK
<1>3. CASE Restart
  BY <1>1, <1>3 DEF Restart, SweptPast, NoEdit, EditKinds
<1> QED BY <1>1, <1>2, <1>3 DEF TypeOK

\* In both modes, and for any interleaving of joins, retries, edits and restarts,
\* a listener the lists turn away was connected behind an edit's back.
THEOREM DeniedListenersAlwaysLate == Spec => []DeniedListenersAreLate
<1>1. Init => LateInv
  BY DEF Init, LateInv, SweepLeavesNobody, DeniedListenersAreLate
<1>2. TypeOK /\ LateInv /\ [Next]_vars => LateInv'
  <2> SUFFICES ASSUME TypeOK, LateInv, [Next]_vars
               PROVE  LateInv'
    OBVIOUS
  <2>1. ASSUME NEW r \in RequestSlots,
               \/ \E kind \in Arrivals, a \in Actors : Receive(r, kind, a)
               \/ RequestStep(r) \/ Abandon(r)
        PROVE  LateInv'
    BY <2>1, LateInvStable
    DEF Receive, RequestStep, CheckAllowed, CheckConnected, QueueJob, Abandon, tables
  <2>2. ASSUME NEW j \in JobSlots, JobStep(j) \/ JobError(j)
        PROVE  LateInv'
    <3>1. CASE AddConnection(j) \/ RemoveConnection(j)
      BY <3>1, LateInvJobs
    <3>2. CASE ~(AddConnection(j) \/ RemoveConnection(j))
      BY <2>2, <3>2, LateInvStable
      DEF JobStep, JobError, CheckFollow, FollowBack, SaveActor, QueueAccept,
          QueueQueries, CheckUndo, QueueUndo, tables
    <3> QED BY <3>1, <3>2
  <2>3. CASE UNCHANGED vars \/ \E a \in Actors : Meet(a)
    BY <2>3, LateInvStable DEF vars, tables, Meet
  <2> QED BY <2>1, <2>2, <2>3, LateInvEdits, LateInvStart DEF Next
<1>3. LateInv => DeniedListenersAreLate
  BY DEF LateInv
<1> QED BY <1>1, <1>2, <1>3, TypeCorrect, PTL DEF Spec

-----------------------------------------------------------------------------
(* Subscriptions implements Listeners. *)

\* A job is at a step of its own kind: only a Follow reaches add_connection,
\* only an Undo or a Reject reaches remove_connection.
StepsFitKind ==
  \A j \in JobSlots :
    /\ jobs[j].pc \in {"followBack", "addConnection", "saveActor", "accept", "query"}
         => jobs[j].kind \in Follows
    /\ jobs[j].pc \in {"remove", "removeQuietly", "undo"}
         => jobs[j].kind \notin Follows

\* Each job is always at a step of its own kind.
LEMMA StepsAlwaysFitKind == Spec => []StepsFitKind
<1>1. Init => StepsFitKind
  BY DEF Init, StepsFitKind, NoJob
<1>2. TypeOK /\ StepsFitKind /\ [Next]_vars => StepsFitKind'
  <2> SUFFICES ASSUME TypeOK, StepsFitKind, [Next]_vars
               PROVE  StepsFitKind'
    OBVIOUS
  <2> USE DEF StepsFitKind
  <2>1. ASSUME jobs' = jobs
        PROVE  StepsFitKind'
    BY <2>1
  <2>2. ASSUME NEW r \in RequestSlots, NEW j \in JobSlots, QueueJob(r, j)
        PROVE  StepsFitKind'
    BY <2>2 DEF QueueJob, NewJob, FirstStep, TypeOK, Follows
  <2>3. ASSUME NEW j \in JobSlots, JobStep(j) \/ JobError(j)
        PROVE  StepsFitKind'
    <3>1. jobs[j] \in Job
      BY <2>3 DEF JobStep, JobError, CheckFollow, FollowBack, AddConnection, SaveActor,
                  QueueAccept, QueueQueries, CheckUndo, RemoveConnection, QueueUndo,
                  TypeOK, NoJob
    <3>2. CASE JobStep(j)
      BY <3>1, <3>2 DEF JobStep, CheckFollow, FollowBack, AddConnection, SaveActor,
                  QueueAccept, QueueQueries, CheckUndo, RemoveConnection, QueueUndo,
                  Goto, Finish, NoJob, TypeOK, Job, Follows
    <3>3. CASE JobError(j)
      BY <3>1, <3>3 DEF JobError, FirstStep, Finish, NoJob, TypeOK, Job, Follows
    <3> QED BY <2>3, <3>2, <3>3
  <2>4. CASE Restart
    BY <2>4 DEF Restart, NoJob
  <2>5. CASE UNCHANGED vars
    BY <2>1, <2>5 DEF vars
  <2> QED
    BY <2>1, <2>2, <2>3, <2>4, <2>5
    DEF Next, Receive, Meet, RequestStep, CheckAllowed, CheckConnected, Abandon, StartEdit,
        EditStep, SweepOne, Block, Unallow, Unblock, Allow, Disallow
<1> QED BY <1>1, <1>2, TypeCorrect, PTL DEF Spec

Admitted == {a \in Actors : FollowAdmitted(a)}
DeniedActors == {a \in Actors : Denied(a)}

\* A step that changes only requests and jobs, and admits nobody, settles.
LEMMA SettleStep ==
  ASSUME UNCHANGED <<connected, allowed, blocked>>,
         \A a \in Actors : FollowAdmitted(a)' => FollowAdmitted(a)
  PROVE  Promise!Settle
<1>1. DeniedActors' = DeniedActors
  BY DEF DeniedActors, Denied
<1>2. Admitted' \in SUBSET Admitted
  BY DEF Admitted
<1> QED BY <1>1, <1>2 DEF Promise!Settle, Admitted, DeniedActors

\* The steps of the inbox handler: CheckAllowed admits, the others settle.
LEMMA RequestsImplement ==
  ASSUME TypeOK, NEW r \in RequestSlots,
         \/ \E kind \in Arrivals, a \in Actors : Receive(r, kind, a)
         \/ RequestStep(r) \/ Abandon(r)
  PROVE  Promise!Next
<1>1. ASSUME NEW kind \in Arrivals, NEW a \in Actors, Receive(r, kind, a)
      PROVE  Promise!Settle
  BY <1>1, SettleStep DEF Receive, FollowAdmitted, TypeOK, bounds
<1>2. CASE CheckAllowed(r) /\ ~Denied(requests[r].actor)
  <2> DEFINE b == requests[r].actor
  <2>1. b \in Actors /\ b \notin DeniedActors
    BY <1>2 DEF CheckAllowed, TypeOK, Request, NoRequest, DeniedActors
  <2>2. connected' = connected /\ DeniedActors' = DeniedActors
    BY <1>2 DEF CheckAllowed, tables, DeniedActors, Denied
  <2>3. requests' = [requests EXCEPT ![r].pc = "allowed"] /\ jobs' = jobs
    BY <1>2 DEF CheckAllowed, Advance
  <2>4. requests[r].pc = "received" /\ requests[r] \in Request
    BY <1>2 DEF CheckAllowed, TypeOK, NoRequest
  <2>5. \A q \in RequestSlots :
          /\ requests'[q].kind = requests[q].kind
          /\ requests'[q].actor = requests[q].actor
          /\ q # r => requests'[q].pc = requests[q].pc
    BY <2>3, <2>4 DEF TypeOK, Request
  <2>6. requests'[r].pc = "allowed"
    BY <2>3, <2>4 DEF TypeOK, Request
  <2>7. CASE requests[r].kind \in Follows
    <3>1. \A a \in Actors : FollowAdmitted(a)' <=> FollowAdmitted(a) \/ a = b
      BY <2>3, <2>4, <2>5, <2>6, <2>7 DEF FollowAdmitted
    <3>2. Admitted' = Admitted \cup {b}
      BY <2>1, <3>1 DEF Admitted
    <3> QED BY <2>1, <2>2, <3>2 DEF Promise!Next, Promise!Admit, Admitted, DeniedActors
  <2>8. CASE requests[r].kind \notin Follows
    <3>1. \A a \in Actors : FollowAdmitted(a)' => FollowAdmitted(a)
      BY <2>3, <2>4, <2>5, <2>6, <2>8 DEF FollowAdmitted
    <3> QED BY <1>2, <3>1, SettleStep DEF CheckAllowed, tables, Promise!Next
  <2> QED BY <2>7, <2>8
<1>3. CASE CheckAllowed(r) /\ Denied(requests[r].actor)
  BY <1>3, SettleStep
  DEF CheckAllowed, Answer, NoRequest, FollowAdmitted, TypeOK, tables, Promise!Next
<1>4. CASE CheckConnected(r)
  <2>1. requests[r] \in Request
    BY <1>4 DEF CheckConnected, TypeOK, NoRequest
  <2>2. \A a \in Actors : FollowAdmitted(a)' => FollowAdmitted(a)
    BY <1>4, <2>1 DEF CheckConnected, Answer, Advance, NoRequest, FollowAdmitted, TypeOK,
                      Request
  <2> QED BY <1>4, <2>2, SettleStep DEF CheckConnected, tables, Promise!Next
<1>5. ASSUME NEW j \in JobSlots, QueueJob(r, j)
      PROVE  Promise!Settle
  BY <1>5, SettleStep
  DEF QueueJob, NewJob, Answer, NoRequest, FollowAdmitted, TypeOK, tables
<1>6. CASE Abandon(r)
  BY <1>6, SettleStep
  DEF Abandon, Answer, NoRequest, FollowAdmitted, TypeOK, tables, Promise!Next
<1> QED BY <1>1, <1>2, <1>3, <1>4, <1>5, <1>6 DEF RequestStep, Promise!Next

\* The steps of the jobs: a Follow joins, an Undo or Reject leaves, the end of a
\* job, done or given up, settles.
LEMMA JobsImplement ==
  ASSUME TypeOK, StepsFitKind, NEW j \in JobSlots, JobStep(j) \/ JobError(j)
  PROVE  Promise!Next
<1> DEFINE b == jobs[j].actor
<1>1. jobs[j] \in Job /\ b \in Actors
  BY DEF JobStep, JobError, CheckFollow, FollowBack, AddConnection, SaveActor,
         QueueAccept, QueueQueries, CheckUndo, RemoveConnection, QueueUndo, TypeOK,
         NoJob, Job
<1>2. requests' = requests /\ allowed' = allowed /\ blocked' = blocked
  BY DEF JobStep, JobError, CheckFollow, FollowBack, AddConnection, SaveActor,
         QueueAccept, QueueQueries, CheckUndo, RemoveConnection, QueueUndo, tables
<1>3. DeniedActors' = DeniedActors
  BY <1>2 DEF DeniedActors, Denied
<1>4. CASE AddConnection(j)
  <2>1. FollowAdmitted(b)
    BY <1>4 DEF AddConnection, StepsFitKind, FollowAdmitted
  <2>2. \A k \in JobSlots :
          /\ jobs'[k].kind = jobs[k].kind
          /\ jobs'[k].actor = jobs[k].actor
          /\ jobs'[k].pc = "none" <=> jobs[k].pc = "none"
    BY <1>1, <1>4 DEF AddConnection, Goto, TypeOK, Job
  <2>3. \A a \in Actors : FollowAdmitted(a)' <=> FollowAdmitted(a)
    BY <1>2, <2>2 DEF FollowAdmitted
  <2>4. Admitted' = Admitted
    BY <2>3 DEF Admitted
  <2> QED BY <1>1, <1>3, <1>4, <2>1, <2>4
          DEF AddConnection, Promise!Next, Promise!Join, Admitted, DeniedActors
<1>5. CASE RemoveConnection(j)
  <2>1. jobs[j].kind \notin Follows
    BY <1>5 DEF RemoveConnection, StepsFitKind
  <2>2. \A k \in JobSlots :
          k # j => jobs'[k] = jobs[k]
    BY <1>5 DEF RemoveConnection, Goto, Finish, TypeOK
  <2>3. jobs'[j].pc = "none" \/ jobs'[j].kind \notin Follows
    BY <1>1, <1>5, <2>1 DEF RemoveConnection, Goto, Finish, TypeOK, Job, NoJob
  <2>4. \A a \in Actors : FollowAdmitted(a)' <=> FollowAdmitted(a)
    BY <1>2, <2>1, <2>2, <2>3 DEF FollowAdmitted
  <2>5. Admitted' = Admitted
    BY <2>4 DEF Admitted
  <2> QED BY <1>1, <1>3, <1>5, <2>5
          DEF RemoveConnection, Promise!Next, Promise!Leave, Admitted, DeniedActors
<1>6. CASE ~(AddConnection(j) \/ RemoveConnection(j))
  <2>1. connected' = connected
    BY <1>6 DEF JobStep, JobError, CheckFollow, FollowBack, SaveActor, QueueAccept,
                QueueQueries, CheckUndo, QueueUndo, tables
  <2>2. /\ \A k \in JobSlots : k # j => jobs'[k] = jobs[k]
        /\ \/ jobs'[j].pc = "none"
           \/ jobs'[j].kind = jobs[j].kind /\ jobs'[j].actor = jobs[j].actor
    BY <1>1, <1>6 DEF JobStep, JobError, CheckFollow, FollowBack, SaveActor, QueueAccept,
                QueueQueries, CheckUndo, QueueUndo, Goto, Finish, TypeOK, Job, NoJob
  <2>3. jobs[j].pc # "none"
    BY <1>1 DEF Job
  <2>4. \A a \in Actors : FollowAdmitted(a)' => FollowAdmitted(a)
    BY <1>2, <2>2, <2>3 DEF FollowAdmitted
  <2> QED BY <1>2, <2>1, <2>4, SettleStep DEF Promise!Next
<1> QED BY <1>4, <1>5, <1>6

\* The steps of an edit: the sweep takes listeners out, a write changes the lists.
LEMMA EditsImplement ==
  ASSUME TypeOK, NEW m \in Admins, EditStep(m)
  PROVE  [Promise!Next]_Promise!vars
<1>1. Admitted' = Admitted
  BY DEF Admitted, FollowAdmitted, EditStep, SweepOne, Block, Unallow, Unblock, Allow,
         Disallow
<1>2. ASSUME NEW a \in Actors, SweepOne(m, a)
      PROVE  [Promise!Next]_Promise!vars
  <2>1. DeniedActors' = DeniedActors
    BY <1>2 DEF SweepOne, DeniedActors, Denied
  <2>2. connected' = connected \/ connected' = connected \ {a}
    BY <1>2 DEF SweepOne
  <2> QED BY <1>1, <2>1, <2>2
          DEF Promise!Next, Promise!Leave, Promise!vars, Admitted, DeniedActors
<1>3. ASSUME NEW d \in DomainNames,
             \/ Block(m, d) \/ Unallow(m, d) \/ Unblock(m, d)
             \/ Allow(m, d) \/ Disallow(m, d)
      PROVE  Promise!Next
  <2>1. connected' = connected
    BY <1>3 DEF Block, Unallow, Unblock, Allow, Disallow
  <2>2. DeniedActors' \in SUBSET Actors
    BY DEF DeniedActors
  <2> QED BY <1>1, <2>1, <2>2 DEF Promise!Next, Promise!Relist, Admitted, DeniedActors
<1> QED BY <1>2, <1>3 DEF EditStep

\* Each step is one of Listeners, or nothing that it sees.
LEMMA StepImplements ==
  ASSUME TypeOK, StepsFitKind, [Next]_vars
  PROVE  [Promise!Next]_Promise!vars
<1>1. ASSUME NEW m \in Admins, NEW kind, NEW domains, StartEdit(m, kind, domains)
      PROVE  Promise!Next
  BY <1>1, SettleStep DEF StartEdit, FollowAdmitted, tables, Promise!Next
<1>2. CASE Restart
  BY <1>2, SettleStep DEF Restart, FollowAdmitted, NoRequest, NoJob, tables, Promise!Next
<1>3. CASE UNCHANGED vars \/ \E a \in Actors : Meet(a)
  BY <1>3, SettleStep DEF vars, Meet, FollowAdmitted, tables, Promise!Next
<1> QED BY <1>1, <1>2, <1>3, RequestsImplement, JobsImplement, EditsImplement DEF Next

\* The relay keeps the promise of Listeners: its steps are those of the abstract
\* specification, or leave it alone.
THEOREM KeepsPromise == Spec => ImplementsPromise
<1>1. Init => Promise!Init
  <2> SUFFICES ASSUME Init
               PROVE  Promise!Init
    OBVIOUS
  <2>1. \A a \in Actors : ~FollowAdmitted(a)
    BY DEF Init, FollowAdmitted, NoRequest, NoJob
  <2> QED BY <2>1 DEF Init, Promise!Init
<1>2. TypeOK /\ StepsFitKind /\ [Next]_vars => [Promise!Next]_Promise!vars
  BY StepImplements
<1> QED
  BY <1>1, <1>2, TypeCorrect, StepsAlwaysFitKind, PTL
  DEF Spec, ImplementsPromise, Promise!Spec

\* A step that leaves a barred actor denied leaves it barred.
LEMMA StepKeepsBarred ==
  ASSUME TypeOK, StepsFitKind, [Next]_vars, NEW a \in Actors, Barred(a), Denied(a)'
  PROVE  Barred(a)'
<1>1. [Promise!Next]_Promise!vars
  BY StepImplements
<1>2. a \in DeniedActors /\ a \notin Admitted /\ a \notin connected
  BY DEF Barred, DeniedActors, Admitted
<1>3. a \notin Admitted' /\ a \notin connected'
  BY <1>1, <1>2 DEF Promise!Next, Promise!Admit, Promise!Join, Promise!Settle,
     Promise!Leave, Promise!Relist, Promise!vars, Admitted, DeniedActors
<1> QED BY <1>3 DEF Barred, Admitted

\* Once the Follows admitted before a block have drained, the block holds.
THEOREM BarredAlwaysStaysOut == Spec => BarredStaysOut
<1>1. TypeOK /\ StepsFitKind /\ [Next]_vars
        => [\A a \in Actors : Barred(a) /\ Denied(a)' => Barred(a)']_vars
  BY StepKeepsBarred
<1> QED BY <1>1, TypeCorrect, StepsAlwaysFitKind, PTL DEF Spec, BarredStaysOut
=============================================================================
