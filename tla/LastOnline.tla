------------------------------ MODULE LastOnline ------------------------------
(***************************************************************************)
(* When a server was last heard of.  An answer of 200 to 299 is noted in   *)
(* a buffer in memory (data/last_online.rs) by the same check_response     *)
(* that closes the breaker; RecordLastOnline jobs take the buffer and      *)
(* write what they took to the tree last-seen (db.rs), from where the      *)
(* admin API reads it.  Each HTTP thread schedules such a job of its own,  *)
(* every ten minutes (jobs.rs).  Of the times only their order matters, so *)
(* a time is the number of the answer it belongs to; 0 is none.            *)
(***************************************************************************)
EXTENDS Breakers

CONSTANTS
  Recorders,  \* RecordLastOnline jobs in progress at a time
  MaxAnswers  \* bound: the answers of a behaviour

ASSUME LastOnlineAssumption == MaxAnswers \in Nat

Times == 0..MaxAnswers

VARIABLES
  now,        \* the time of the latest answer
  buffer,     \* LastOnline::domains, of the one authority
  recording,  \* the jobs between their take and their mark_last_seen
  row,        \* the authority's row in the tree last-seen
  ahead,      \* history: the jobs since whose take no other has written
  lost        \* history: the latest time a failure or another write has lost

times == <<now, buffer, recording, row, ahead, lost>>
recordVars == <<vars, times>>

NoRecord == [pc |-> "none"]
Record == [pc : {"taken"}, time : Times]

RecordTypeOK ==
  /\ TypeOK
  /\ now \in Times
  /\ buffer \in 0..now
  /\ recording \in [Recorders -> Record \cup {NoRecord}]
  /\ row \in 0..now
  /\ ahead \subseteq Recorders
  /\ lost \in 0..now

RecordInit ==
  /\ Init
  /\ now = 0
  /\ buffer = 0
  /\ recording = [w \in Recorders |-> NoRecord]
  /\ row = 0
  /\ ahead = {}
  /\ lost = 0

-----------------------------------------------------------------------------
Later(s, t) == IF s < t THEN t ELSE s

\* LastOnline::mark_seen.
MarkSeen ==
  /\ now < MaxAnswers
  /\ now' = now + 1
  /\ buffer' = now + 1
  /\ UNCHANGED <<recording, row, ahead, lost>>

\* check_response: an answer that closes the breaker is also noted.
Answered(c, answer) ==
  /\ CheckResponse(c, answer)
  /\ IF answer = "2xx" THEN MarkSeen ELSE UNCHANGED times

\* RecordLastOnline::perform, up to its await: the buffer is swapped for an
\* empty one under its lock.
Take(w) ==
  /\ recording[w] = NoRecord
  /\ recording' = [recording EXCEPT ![w] = [pc |-> "taken", time |-> buffer]]
  /\ buffer' = 0
  /\ ahead' = ahead \cup {w}
  /\ UNCHANGED <<vars, now, row, lost>>

\* A mutated form: what came in since the take is cleared with it.
MarkLastSeenClears(w) ==
  /\ recording[w] # NoRecord
  /\ recording' = [recording EXCEPT ![w] = NoRecord]
  /\ row' = recording[w].time
  /\ lost' = lost
  /\ buffer' = 0
  /\ ahead' = {}
  /\ UNCHANGED <<vars, now>>

\* Db::mark_last_seen: the batch is applied, without a look at what is there.
MarkLastSeen(w) ==
  /\ recording[w] # NoRecord
  /\ recording' = [recording EXCEPT ![w] = NoRecord]
  /\ IF recording[w].time = 0
     THEN /\ ahead' = ahead \ {w}
          /\ UNCHANGED <<row, lost>>
     ELSE /\ row' = recording[w].time
          /\ lost' = IF row > recording[w].time THEN Later(lost, row) ELSE lost
          /\ ahead' = {}
  /\ UNCHANGED <<vars, now, buffer>>

\* A mutated form: the times of a failed write are put back.
WritePutsBack(w) ==
  /\ recording[w] # NoRecord
  /\ recording' = [recording EXCEPT ![w] = NoRecord]
  /\ buffer' = recording[w].time
  /\ ahead' = ahead \ {w}
  /\ lost' = Later(lost, buffer)
  /\ UNCHANGED <<vars, now, row>>

\* The write fails.  The job is run again, and then takes what is in the buffer.
WriteFails(w) ==
  /\ recording[w] # NoRecord
  /\ recording' = [recording EXCEPT ![w] = NoRecord]
  /\ lost' = Later(lost, recording[w].time)
  /\ ahead' = ahead \ {w}
  /\ UNCHANGED <<vars, now, buffer, row>>

\* The process is restarted; only the tree survives.
RecordRestart ==
  /\ Restart
  /\ buffer' = 0
  /\ recording' = [w \in Recorders |-> NoRecord]
  /\ ahead' = {}
  /\ lost' = IF row = now THEN lost ELSE now
  /\ UNCHANGED <<now, row>>

RecordStep(w) == MarkLastSeen(w) \/ WriteFails(w)

CallAnswered(c) == \E answer \in Answers : Answered(c, answer)

RecordNext ==
  \/ \E c \in Calls : CallAnswered(c)
  \/ /\ \/ \E c \in Calls, strategy \in Strategies : Begin(c, strategy)
        \/ \E c \in Calls : Ask(c) \/ SignFails(c)
        \/ ResetBreaker
        \/ Tick
     /\ UNCHANGED times
  \/ \E w \in Recorders : Take(w) \/ RecordStep(w)
  \/ RecordRestart

RecordSpec == RecordInit /\ [][RecordNext]_recordVars

\* As FairSpec; and the schedule starts each recorder again and again, which
\* then runs to its end.
RecordFairSpec ==
  /\ RecordSpec
  /\ WF_recordVars(Tick /\ UNCHANGED times)
  /\ \A c \in Calls :
       WF_recordVars(CallAnswered(c) \/ ((Ask(c) \/ SignFails(c)) /\ UNCHANGED times))
  /\ \A w \in Recorders : WF_recordVars(Take(w)) /\ WF_recordVars(RecordStep(w))

-----------------------------------------------------------------------------
(* Properties *)

\* mark_last_seen overwrites whatever is there, and jobs of two threads may write
\* in either order.  Still, a job that no other job's write has overtaken never
\* sets the row back, whatever was answered, lost or taken meanwhile.
WritesAdvance ==
  \A w \in ahead : recording[w].time # 0 => recording[w].time > row

\* The latest answer is in the buffer, with a job or in its row, unless a failed
\* write, a restart or the write of an overtaken job has lost it: an answer that
\* comes between take and mark_last_seen is not.
AnswersAccountedFor ==
  \/ now \in {0, buffer, row, lost}
  \/ \E w \in Recorders : recording[w].pc = "taken" /\ recording[w].time = now

\* An answer that is noted is in the end shown, or a later one is, or it is lost
\* in one of those ways.
AnswersAreRecorded ==
  \A t \in 1..MaxAnswers : buffer = t ~> (row >= t \/ lost >= t)
=============================================================================
