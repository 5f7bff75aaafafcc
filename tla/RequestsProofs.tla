---------------------------- MODULE RequestsProofs ----------------------------
(***************************************************************************)
(* Proofs about Breakers, for every finite set of slots, threshold, wait   *)
(* and number of retries, and about LastOnline, for any number of          *)
(* recorders and answers.                                                  *)
(***************************************************************************)
EXTENDS LastOnline, FiniteSetTheorems, TLAPS

\* A call that has failed waits to ask again or is over, and no other changes.
LEMMA FailedCall ==
  ASSUME TypeOK, NEW c \in Calls, calls[c] \in Call, Failed(c)
  PROVE  /\ calls' \in [Calls -> Call \cup {NoCall}]
         /\ calls'[c].pc # "sent"
         /\ \A d \in Calls \ {c} : calls'[d] = calls[d]
<1> USE BreakersAssumption DEF TypeOK
<1> DEFINE again == [calls[c] EXCEPT !.pc = "ask", !.tries = calls[c].tries + 1]
<1>1. CASE Retries(c)
  <2>1. calls' = [calls EXCEPT ![c] = again]
    BY <1>1 DEF Failed
  <2>2. calls[c].tries + 1 \in 0..MaxTries
    BY <1>1 DEF Retries, Call
  <2>3. again \in Call /\ again.pc = "ask"
    BY <2>2 DEF Call
  <2> HIDE DEF again
  <2> QED BY <2>1, <2>3
<1>2. CASE ~Retries(c)
  <2>1. calls' = [calls EXCEPT ![c] = NoCall]
    BY <1>2 DEF Failed
  <2> QED BY <2>1 DEF NoCall
<1> QED BY <1>1, <1>2

\* The types stay as they are through every step.
LEMMA TypeStable == TypeOK /\ [Next]_vars => TypeOK'
<1> SUFFICES ASSUME TypeOK, [Next]_vars
             PROVE  TypeOK'
  OBVIOUS
<1> USE BreakersAssumption DEF TypeOK
<1>1. ASSUME NEW c \in Calls, NEW strategy \in Strategies, Begin(c, strategy)
      PROVE  TypeOK'
  <2>1. [pc |-> "ask", strategy |-> strategy, tries |-> 0] \in Call
    BY DEF Call
  <2> QED BY <1>1, <2>1 DEF Begin, Leave
<1>2. ASSUME NEW c \in Calls, CallStep(c)
      PROVE  TypeOK'
  <2>1. calls[c] \in Call
    <3>1. calls[c].pc # "idle"
      BY <1>2 DEF CallStep, Ask, SignFails, CheckResponse
    <3> QED BY <3>1 DEF NoCall
  <2>2. ASSUME Failed(c)
        PROVE  calls' \in [Calls -> Call \cup {NoCall}]
    BY <2>1, <2>2, FailedCall
  <2>3. CASE Ask(c)
    BY <2>1, <2>3 DEF Ask, Leave, Call
  <2>4. CASE SignFails(c)
    BY <2>2, <2>4 DEF SignFails, Leave
  <2>5. ASSUME NEW answer \in Answers, CheckResponse(c, answer)
        PROVE  TypeOK'
    <3>1. calls' \in [Calls -> Call \cup {NoCall}]
      BY <2>2, <2>5 DEF CheckResponse
    <3>2. failures' \in Nat /\ age' \in 0..(Wait + 1) /\ window' \in Nat
      BY <2>5 DEF CheckResponse, Succeed, Fail, Leave
    <3> QED BY <3>1, <3>2
  <2> QED BY <1>2, <2>3, <2>4, <2>5 DEF CallStep
<1>3. CASE ResetBreaker
  BY <1>3 DEF ResetBreaker, Succeed
<1>4. CASE Tick
  BY <1>4 DEF Tick
<1>5. CASE Restart
  BY <1>5 DEF Restart, Succeed
<1>6. CASE UNCHANGED vars
  BY <1>6 DEF vars
<1> QED BY <1>1, <1>2, <1>3, <1>4, <1>5, <1>6 DEF Next

\* The types of the breaker's counters and of the calls always hold.
THEOREM TypeCorrect == Spec => []TypeOK
<1>1. Init => TypeOK
  BY BreakersAssumption DEF Init, TypeOK
<1> QED BY <1>1, TypeStable, PTL DEF Spec

-----------------------------------------------------------------------------
(* The attempts on an authority that does not answer. *)

\* The most failures that leave the breaker willing to send.
Allowed == IF window < Threshold THEN Threshold - 1 ELSE window

\* While the wait is over, window is the number of failures: a request that is
\* sent now is counted from there.
WindowIsFresh == age > Wait => window = failures

BurstInv == TypeOK /\ WindowIsFresh /\ AttemptsBounded

\* The requests being sent are finitely many, at most one per slot.
LEMMA SentFinite ==
  ASSUME TypeOK
  PROVE  /\ IsFiniteSet(Sent)
         /\ Cardinality(Sent) \in Nat
         /\ Cardinality(Calls) \in Nat
         /\ Cardinality(Sent) <= Cardinality(Calls)
BY BreakersAssumption, FS_Subset, FS_CardinalityType DEF Sent

\* A call that fails or is answered is sent no more.
LEMMA SentLoses ==
  ASSUME TypeOK, NEW c \in Sent, Sent' = Sent \ {c}
  PROVE  Cardinality(Sent') = Cardinality(Sent) - 1
BY SentFinite, FS_RemoveElement

\* A failure takes over the place of the request that failed.
LEMMA AnswersKeepBound ==
  ASSUME BurstInv, TypeOK', NEW c \in Calls, SignFails(c) \/ \E answer \in Answers : CheckResponse(c, answer)
  PROVE  BurstInv'
<1> USE BreakersAssumption DEF BurstInv
<1>1. c \in Sent
  BY DEF SignFails, CheckResponse, Sent
<1>2. calls'[c].pc # "sent" /\ \A d \in Calls \ {c} : calls'[d] = calls[d]
  <2>1. calls[c] \in Call
    BY DEF SignFails, CheckResponse, NoCall, TypeOK
  <2>2. CASE Failed(c)
    BY <2>1, <2>2, FailedCall
  <2>3. CASE calls' = [calls EXCEPT ![c] = NoCall]
    BY <2>3 DEF TypeOK, NoCall
  <2> QED BY <2>2, <2>3 DEF SignFails, CheckResponse
<1>3. Sent' = Sent \ {c}
  BY <1>2 DEF Sent
<1>4. Cardinality(Sent') = Cardinality(Sent) - 1
  BY <1>1, <1>3, SentLoses
<1>5. /\ Cardinality(Sent) \in Nat /\ Cardinality(Calls) \in Nat
      /\ Cardinality(Sent) <= Cardinality(Calls)
  BY SentFinite
<1>6. \/ Leave
      \/ Fail
      \/ Succeed
  BY DEF SignFails, CheckResponse
<1>7. CASE Leave
  BY <1>4, <1>5, <1>7 DEF Leave, WindowIsFresh, AttemptsBounded, TypeOK
<1>8. CASE Fail
  BY <1>4, <1>5, <1>8 DEF Fail, WindowIsFresh, AttemptsBounded, TypeOK
<1>9. CASE Succeed
  BY <1>4, <1>5, <1>9 DEF Succeed, WindowIsFresh, AttemptsBounded, TypeOK
<1> QED BY <1>6, <1>7, <1>8, <1>9

\* A call is let through while the failures are below the threshold, or are those
\* the window began with.
LEMMA AskKeepsBound ==
  ASSUME BurstInv, TypeOK', NEW c \in Calls, Ask(c)
  PROVE  BurstInv'
<1> USE BreakersAssumption DEF BurstInv
<1>1. UNCHANGED <<failures, age, window>>
  BY DEF Ask, Leave
<1>2. Cardinality(Calls) \in Nat /\ Cardinality(Sent') <= Cardinality(Calls)
      /\ Cardinality(Sent) \in Nat /\ Cardinality(Sent') \in Nat
  <2>1. IsFiniteSet(Calls) /\ Sent' \subseteq Calls
    BY DEF Sent
  <2> QED BY <2>1, SentFinite, FS_Subset, FS_CardinalityType
<1>3. CASE ShouldTry
  BY <1>1, <1>2, <1>3 DEF ShouldTry, WindowIsFresh, AttemptsBounded, TypeOK
<1>4. CASE ~ShouldTry
  <2>1. Sent' = Sent
    BY <1>4 DEF Ask, Sent, NoCall, TypeOK
  <2> QED BY <1>1, <2>1 DEF WindowIsFresh, AttemptsBounded
<1> QED BY <1>3, <1>4

\* Steps that send nothing and answer nothing.
LEMMA OthersKeepBound ==
  ASSUME BurstInv, TypeOK',
         \/ \E c \in Calls, strategy \in Strategies : Begin(c, strategy)
         \/ ResetBreaker \/ Tick \/ UNCHANGED vars
  PROVE  BurstInv'
<1> USE BreakersAssumption DEF BurstInv
<1>1. /\ Cardinality(Sent) \in Nat /\ Cardinality(Calls) \in Nat
      /\ Cardinality(Sent) <= Cardinality(Calls)
  BY SentFinite
<1>2. Sent' = Sent
  <2>1. ASSUME NEW c \in Calls, NEW strategy \in Strategies, Begin(c, strategy)
        PROVE  Sent' = Sent
    BY <2>1 DEF Begin, Sent, NoCall, TypeOK
  <2>2. CASE ResetBreaker \/ Tick \/ UNCHANGED vars
    BY <2>2 DEF ResetBreaker, Tick, vars, Sent
  <2> QED BY <2>1, <2>2
<1>3. ASSUME NEW c \in Calls, NEW strategy \in Strategies, Begin(c, strategy)
      PROVE  BurstInv'
  BY <1>2, <1>3 DEF Begin, Leave, WindowIsFresh, AttemptsBounded
<1>4. CASE ResetBreaker
  BY <1>1, <1>2, <1>4 DEF ResetBreaker, Succeed, WindowIsFresh, AttemptsBounded, TypeOK
<1>5. CASE Tick
  BY <1>1, <1>2, <1>5 DEF Tick, WindowIsFresh, AttemptsBounded, TypeOK
<1>6. CASE UNCHANGED vars
  BY <1>2, <1>6 DEF vars, WindowIsFresh, AttemptsBounded
<1> QED BY <1>3, <1>4, <1>5, <1>6

\* A restart leaves no request and no failure.
LEMMA RestartKeepsBound ==
  ASSUME BurstInv, TypeOK', Restart
  PROVE  BurstInv'
<1>1. Sent' = {}
  BY DEF Restart, Sent, NoCall
<1>2. Cardinality(Sent') = 0 /\ Cardinality(Calls) \in Nat
  BY <1>1, SentFinite, FS_EmptySet DEF BurstInv
<1> QED BY <1>2, BreakersAssumption
        DEF Restart, Succeed, BurstInv, WindowIsFresh, AttemptsBounded, TypeOK

\* Breaker::should_try is read before the request and fail written after it, with
\* nothing held in between: every caller may pass before the first of them fails,
\* and no more than that.
THEOREM AttemptsAlwaysBounded == Spec => []AttemptsBounded
<1>1. Init => BurstInv
  <2> SUFFICES ASSUME Init PROVE BurstInv
    OBVIOUS
  <2>1. TypeOK
    BY BreakersAssumption DEF Init, TypeOK
  <2>2. Sent = {}
    BY DEF Init, Sent, NoCall
  <2>3. Cardinality(Sent) = 0 /\ Cardinality(Calls) \in Nat
    BY <2>1, <2>2, SentFinite, FS_EmptySet
  <2> QED BY <2>1, <2>3, BreakersAssumption DEF Init, BurstInv, WindowIsFresh, AttemptsBounded
<1>2. BurstInv /\ [Next]_vars => BurstInv'
  <2> SUFFICES ASSUME BurstInv, [Next]_vars PROVE BurstInv'
    OBVIOUS
  <2>1. TypeOK'
    BY TypeStable DEF BurstInv
  <2> QED BY <2>1, AnswersKeepBound, AskKeepsBound, OthersKeepBound, RestartKeepsBound
         DEF Next, CallStep
<1>3. BurstInv => AttemptsBounded
  BY DEF BurstInv
<1> QED BY <1>1, <1>2, <1>3, PTL DEF Spec

-----------------------------------------------------------------------------
(* The last answers of an authority. *)

\* The types of what LastOnline adds to Breakers.
TimesOK ==
  /\ now \in Times
  /\ buffer \in 0..now
  /\ recording \in [Recorders -> Record \cup {NoRecord}]
  /\ \A w \in Recorders : recording[w] # NoRecord => recording[w].time <= now
  /\ row \in 0..now
  /\ ahead \subseteq {w \in Recorders : recording[w] # NoRecord}
  /\ lost \in 0..now

\* What is in the buffer is later than all that has been taken from it.
BufferIsLatest ==
  buffer # 0 =>
    /\ buffer > row
    /\ \A w \in Recorders : recording[w] # NoRecord => buffer > recording[w].time

TimesInv == TimesOK /\ BufferIsLatest /\ WritesAdvance /\ AnswersAccountedFor

\* At the start nothing is noted and nothing lost.
LEMMA InitTimes == RecordInit => TimesInv
BY LastOnlineAssumption
   DEF RecordInit, TimesInv, TimesOK, BufferIsLatest, WritesAdvance, AnswersAccountedFor,
       NoRecord, Times

\* A job in progress has a time of its own.
LEMMA RecordsDiffer == NoRecord \notin Record /\ \A x \in Record : x.pc = "taken"
BY DEF NoRecord, Record

\* An answer is later than all before it.
LEMMA MarkKeepsTimes ==
  ASSUME TimesInv, MarkSeen
  PROVE  TimesInv'
<1> USE LastOnlineAssumption DEF TimesInv, TimesOK, MarkSeen, Times
<1>1. now \in Nat /\ now + 1 \in Times /\ now' = now + 1 /\ buffer' = now + 1
  OBVIOUS
<1>2. TimesOK'
  BY <1>1, RecordsDiffer DEF Record
<1>3. BufferIsLatest'
  BY <1>1, RecordsDiffer DEF BufferIsLatest, Record
<1>4. WritesAdvance' /\ AnswersAccountedFor'
  BY <1>1 DEF WritesAdvance, AnswersAccountedFor
<1> QED BY <1>2, <1>3, <1>4

\* The buffer goes to the job whole.
LEMMA TakeKeepsTimes ==
  ASSUME TimesInv, NEW w \in Recorders, Take(w)
  PROVE  TimesInv'
<1> USE LastOnlineAssumption DEF TimesInv, TimesOK, Times
<1>1. /\ recording[w] = NoRecord /\ buffer' = 0 /\ UNCHANGED <<now, row, lost>>
      /\ ahead' = ahead \cup {w}
  BY DEF Take
<1>2. /\ recording' \in [Recorders -> Record \cup {NoRecord}]
      /\ recording'[w] = [pc |-> "taken", time |-> buffer]
      /\ \A v \in Recorders \ {w} : recording'[v] = recording[v]
  BY DEF Take, Record
<1>3. recording'[w] # NoRecord
  BY <1>2 DEF NoRecord
<1>4. TimesOK'
  BY <1>1, <1>2, <1>3
<1>5. WritesAdvance'
  BY <1>1, <1>2 DEF WritesAdvance, BufferIsLatest
<1>6. AnswersAccountedFor'
  <2>1. CASE now \in {0, row, lost}
    BY <1>1, <2>1 DEF AnswersAccountedFor
  <2>2. CASE now = buffer
    BY <1>1, <1>2, <2>2 DEF AnswersAccountedFor
  <2>3. ASSUME NEW v \in Recorders, recording[v].pc = "taken", recording[v].time = now
        PROVE  AnswersAccountedFor'
    BY <1>1, <1>2, <2>3 DEF AnswersAccountedFor, NoRecord
  <2> QED BY <2>1, <2>2, <2>3 DEF AnswersAccountedFor
<1> QED BY <1>1, <1>4, <1>5, <1>6 DEF BufferIsLatest

\* A write or its failure: the job is over, and nothing else is taken.
LEMMA RecordKeepsTimes ==
  ASSUME TimesInv, NEW w \in Recorders, RecordStep(w)
  PROVE  TimesInv'
<1> USE LastOnlineAssumption DEF TimesInv, TimesOK, Times
<1> DEFINE t == recording[w].time
<1>1. recording[w] \in Record /\ t \in 0..now
  BY DEF RecordStep, MarkLastSeen, WriteFails, Record
<1>2. /\ recording' = [recording EXCEPT ![w] = NoRecord]
      /\ UNCHANGED <<now, buffer>>
  BY DEF RecordStep, MarkLastSeen, WriteFails
<1>3. recording'[w] = NoRecord /\ \A v \in Recorders \ {w} : recording'[v] = recording[v]
  BY <1>2
<1>4. CASE WriteFails(w) \/ (MarkLastSeen(w) /\ t = 0)
  <2>1. row' = row /\ ahead' = ahead \ {w}
    BY <1>4 DEF WriteFails, MarkLastSeen
  <2>2. lost' \in {lost, Later(lost, t)}
    BY <1>4 DEF WriteFails, MarkLastSeen
  <2>3. lost' \in 0..now
    BY <1>1, <2>2 DEF Later
  <2>4. TimesOK'
    BY <1>2, <1>3, <2>1, <2>3
  <2>5. BufferIsLatest' /\ WritesAdvance'
    BY <1>2, <1>3, <2>1 DEF BufferIsLatest, WritesAdvance
  <2>6. AnswersAccountedFor'
    <3>1. lost = now => lost' = now
      BY <1>1, <2>2 DEF Later
    <3>2. t = now /\ now # 0 => lost' = now
      BY <1>1, <1>4 DEF WriteFails, MarkLastSeen, Later
    <3> QED BY <1>2, <1>3, <2>1, <3>1, <3>2 DEF AnswersAccountedFor
  <2> QED BY <2>4, <2>5, <2>6
<1>5. CASE MarkLastSeen(w) /\ t # 0
  <2>1. row' = t /\ ahead' = {}
    BY <1>5 DEF MarkLastSeen
  <2>2. lost' = IF row > t THEN Later(lost, row) ELSE lost
    BY <1>5 DEF MarkLastSeen
  <2>3. lost' \in 0..now
    BY <1>1, <2>2 DEF Later
  <2> HIDE DEF t
  <2>4. TimesOK'
    BY <1>1, <1>2, <1>3, <2>1, <2>3
  <2>5. BufferIsLatest'
    BY <1>1, <1>2, <1>3, <1>5, <2>1, RecordsDiffer DEF BufferIsLatest, t
  <2>6. AnswersAccountedFor'
    <3>1. lost = now => lost' = now
      BY <2>2 DEF Later
    <3>2. row = now => row' = now \/ lost' = now
      BY <1>1, <2>1, <2>2 DEF Later
    <3> QED BY <1>2, <1>3, <2>1, <3>1, <3>2 DEF AnswersAccountedFor, t
  <2> QED BY <2>1, <2>4, <2>5, <2>6 DEF WritesAdvance
<1> QED BY <1>4, <1>5 DEF RecordStep

\* Whatever is in memory is gone, and counted as lost.
LEMMA RestartKeepsTimes ==
  ASSUME TimesInv, RecordRestart
  PROVE  TimesInv'
BY LastOnlineAssumption
   DEF RecordRestart, TimesInv, TimesOK, Times, BufferIsLatest, WritesAdvance,
       AnswersAccountedFor, NoRecord

\* Every step keeps the order of the times, and accounts for the latest.
LEMMA TimesStable == TimesInv /\ [RecordNext]_recordVars => TimesInv'
<1> SUFFICES ASSUME TimesInv, [RecordNext]_recordVars PROVE TimesInv'
  OBVIOUS
<1>1. CASE UNCHANGED times
  BY <1>1 DEF times, TimesInv, TimesOK, BufferIsLatest, WritesAdvance, AnswersAccountedFor
<1>2. CASE MarkSeen
  BY <1>2, MarkKeepsTimes
<1>3. ASSUME NEW w \in Recorders, Take(w) \/ RecordStep(w) PROVE TimesInv'
  BY <1>3, TakeKeepsTimes, RecordKeepsTimes
<1>4. CASE RecordRestart
  BY <1>4, RestartKeepsTimes
<1>5. ASSUME NEW c \in Calls, CallAnswered(c) PROVE MarkSeen \/ UNCHANGED times
  BY <1>5 DEF CallAnswered, Answered
<1> QED BY <1>1, <1>2, <1>3, <1>4, <1>5 DEF RecordNext, recordVars

\* mark_last_seen writes without a look at the row, yet a RecordLastOnline job
\* that no other one's write has overtaken never sets the row back.
THEOREM WritesAlwaysAdvance == RecordSpec => []WritesAdvance
<1>1. TimesInv => WritesAdvance
  BY DEF TimesInv
<1> QED BY <1>1, InitTimes, TimesStable, PTL DEF RecordSpec

\* Between mark_seen, take and mark_last_seen no answer gets lost by itself: only
\* by a failed write, a restart or a job overtaken by another.
THEOREM AnswersAlwaysAccountedFor == RecordSpec => []AnswersAccountedFor
<1>1. TimesInv => AnswersAccountedFor
  BY DEF TimesInv
<1> QED BY <1>1, InitTimes, TimesStable, PTL DEF RecordSpec

-----------------------------------------------------------------------------
\* To the breaker the bookkeeping of answers is invisible: LastOnline implements
\* Breakers, whose theorems hold of it too.
THEOREM RecordingImplementsBreakers == RecordSpec => Spec
<1>1. RecordInit => Init
  BY DEF RecordInit
<1>2. [RecordNext]_recordVars => [Next]_vars
  <2> SUFFICES ASSUME [RecordNext]_recordVars PROVE [Next]_vars
    OBVIOUS
  <2>1. ASSUME NEW c \in Calls, CallAnswered(c) PROVE Next
    BY <2>1 DEF CallAnswered, Answered, Next, CallStep
  <2>2. ASSUME NEW w \in Recorders, Take(w) \/ RecordStep(w) PROVE UNCHANGED vars
    BY <2>2 DEF Take, RecordStep, MarkLastSeen, WriteFails
  <2>3. CASE RecordRestart
    BY <2>3 DEF RecordRestart, Next
  <2> QED BY <2>1, <2>2, <2>3 DEF RecordNext, recordVars, Next, CallStep
<1> QED BY <1>1, <1>2, PTL DEF RecordSpec, Spec

\* The types of the breaker, the calls and the times always hold.
THEOREM RecordTypeCorrect == RecordSpec => []RecordTypeOK
<1>1. TypeOK /\ TimesInv => RecordTypeOK
  BY DEF TimesInv, TimesOK, RecordTypeOK
<1> QED BY <1>1, InitTimes, TimesStable, RecordingImplementsBreakers, TypeCorrect,
           PTL DEF RecordSpec
=============================================================================
