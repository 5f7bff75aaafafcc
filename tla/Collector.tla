------------------------------ MODULE Collector ------------------------------
(***************************************************************************)
(* The relay's own metrics (collector.rs): the registry that the metrics!  *)
(* macros record into, and the snapshots the administrator asks for, each  *)
(* on an HTTP worker thread of its own, several at a time.  A snapshot     *)
(* also sweeps: a metric it finds unchanged for five days is dropped.      *)
(*                                                                         *)
(* One queue's counters of jobs started and finished, which are presented  *)
(* as the number running, stand for the pairs of counters; histograms keep *)
(* their samples until a snapshot drains them.  Gauges are read as         *)
(* counters are, and nothing is made of them.                              *)
(***************************************************************************)
EXTENDS Integers, FiniteSets

CONSTANTS
  Histograms,  \* the histograms: the label sets of one name
  Recorders,   \* threads that are recording something
  Snapshots,   \* snapshots in progress at a time
  MaxJobs,     \* bound: the jobs started
  MaxSamples,  \* bound: the samples of a histogram in one life
  MaxIdles     \* bound: how often five days pass

Counters == {"started", "finished"}
Keys == Counters \cup Histograms

ASSUME CollectorAssumption ==
  /\ Histograms \cap (Counters \cup {"none"}) = {}
  /\ IsFiniteSet(Recorders)
  /\ MaxJobs \in Nat
  /\ MaxSamples \in Nat
  /\ MaxIdles \in Nat

\* A key that is dropped and recorded again gets a new handle: its next life.
Lives == 1..(MaxIdles + 1)
MaxCount == MaxJobs + MaxSamples

VARIABLES
  life,        \* the registry: the life of each key's handle, 0 without one
  lives,       \* how many lives each key has had
  count,       \* by key and life: the generation, how often it was recorded
  bucket,      \* by histogram and life: the samples not yet drained
  seen,        \* Recency: by key, the generation last seen and how long ago it changed
  summary,     \* distributions: the samples drained, by histogram
  recorders,   \* the handle each thread has got and will record into
  snapshots,   \* the snapshots in progress
  begun,       \* jobs that were started ...
  ended,       \* ... and finished
  idles,       \* how often five days passed
  crossed      \* history: whether one snapshot drained what another was about to forget

vars == <<life, lives, count, bucket, seen, summary, recorders, snapshots, begun, ended,
          idles, crossed>>

NoRecord == [key |-> "none"]
Record == [key : Keys, life : Lives]

Unseen == [gen |-> 0, age |-> "unseen"]
Seen == [gen : 0..MaxCount, age : {"fresh", "old"}]

NoSnapshot == [pc |-> "none"]

\* handles: by key, the life copied from the registry; todo: the keys still to
\* be looked at, and key and gen the one in hand; read: the counters to be shown,
\* NotShown without a value; begun and ended: what they were when it began.
NotShown == MaxCount + 1
Snapshot == [pc : {"counters", "histograms", "judge", "take", "forget"},
             handles : [Keys -> 0..(MaxIdles + 1)], todo : SUBSET Keys, key : Keys,
             gen : 0..MaxCount, read : [Counters -> 0..NotShown],
             begun : 0..MaxJobs, ended : 0..MaxJobs]

TypeOK ==
  /\ life \in [Keys -> 0..(MaxIdles + 1)]
  /\ lives \in [Keys -> 0..(MaxIdles + 1)]
  /\ count \in [Keys -> [Lives -> 0..MaxCount]]
  /\ bucket \in [Histograms -> [Lives -> 0..MaxCount]]
  /\ seen \in [Keys -> Seen \cup {Unseen}]
  /\ summary \in [Histograms -> Nat]
  /\ recorders \in [Recorders -> Record \cup {NoRecord}]
  /\ snapshots \in [Snapshots -> Snapshot \cup {NoSnapshot}]
  /\ begun \in 0..MaxJobs /\ ended \in 0..begun
  /\ idles \in 0..MaxIdles
  /\ crossed \in BOOLEAN
  /\ \A k \in Keys : life[k] \in {0, lives[k]}

Init ==
  /\ life = [k \in Keys |-> 0]
  /\ lives = [k \in Keys |-> 0]
  /\ count = [k \in Keys |-> [n \in Lives |-> 0]]
  /\ bucket = [h \in Histograms |-> [n \in Lives |-> 0]]
  /\ seen = [k \in Keys |-> Unseen]
  /\ summary = [h \in Histograms |-> 0]
  /\ recorders = [t \in Recorders |-> NoRecord]
  /\ snapshots = [s \in Snapshots |-> NoSnapshot]
  /\ begun = 0 /\ ended = 0
  /\ idles = 0
  /\ crossed = FALSE

-----------------------------------------------------------------------------
(* Recording: register_counter or register_histogram, then the handle.       *)

Pending(k) == Cardinality({t \in Recorders : recorders[t].key = k})

\* Jobs start and finish, and what is timed is timed, within the bounds.
Happens(k) ==
  CASE k = "started" -> begun + Pending(k) < MaxJobs
    [] k = "finished" -> ended + Pending(k) < begun
    [] OTHER -> Pending(k) + (IF life[k] = 0 THEN 0 ELSE count[k][life[k]]) < MaxSamples

\* get_or_create: the handle in the registry, or a new one.
Register(t, k) ==
  /\ recorders[t] = NoRecord
  /\ Happens(k)
  /\ lives' = [lives EXCEPT ![k] = IF life[k] = 0 THEN @ + 1 ELSE @]
  /\ life' = [life EXCEPT ![k] = lives'[k]]
  /\ recorders' = [recorders EXCEPT ![t] = [key |-> k, life |-> lives'[k]]]
  /\ UNCHANGED <<count, bucket, seen, summary, snapshots, begun, ended, idles, crossed>>

\* A mutated form: the thread keeps the handle and records again.
IncrementAndKeep(t) ==
  LET k == recorders[t].key
      n == recorders[t].life
  IN /\ k \in Keys
     /\ count' = [count EXCEPT ![k][n] = @ + 1]
     /\ bucket' = [h \in Histograms |->
          IF h = k THEN [bucket[h] EXCEPT ![n] = @ + 1] ELSE bucket[h]]
     /\ begun' = IF k = "started" THEN begun + 1 ELSE begun
     /\ ended' = IF k = "finished" THEN ended + 1 ELSE ended
     /\ UNCHANGED <<life, lives, seen, summary, recorders, snapshots, idles, crossed>>

\* The handle is recorded into, whether or not the registry still has it.
Increment(t) ==
  LET k == recorders[t].key
      n == recorders[t].life
  IN /\ k \in Keys
     /\ count' = [count EXCEPT ![k][n] = @ + 1]
     /\ bucket' = [h \in Histograms |->
          IF h = k THEN [bucket[h] EXCEPT ![n] = @ + 1] ELSE bucket[h]]
     /\ begun' = IF k = "started" THEN begun + 1 ELSE begun
     /\ ended' = IF k = "finished" THEN ended + 1 ELSE ended
     /\ recorders' = [recorders EXCEPT ![t] = NoRecord]
     /\ UNCHANGED <<life, lives, seen, summary, snapshots, idles, crossed>>

-----------------------------------------------------------------------------
(* Inner::snapshot. *)

\* The keys that the registry has.
Live(keys) == {k \in keys : life[k] # 0}
Handles(keys) == [k \in Keys |-> IF k \in keys THEN life[k] ELSE 0]

NothingRead == [k \in Counters |-> NotShown]
CountersRead(s) == snapshots[s].pc = "counters" /\ snapshots[s].todo = {}

\* snapshot_counters copies the handles.
Begin(s) ==
  /\ snapshots[s] = NoSnapshot
  /\ snapshots' = [snapshots EXCEPT ![s] =
       [pc |-> "counters", handles |-> Handles(Counters), todo |-> Live(Counters), key |-> "started",
        gen |-> 0, read |-> NothingRead, begun |-> begun, ended |-> ended]]
  /\ UNCHANGED <<life, lives, count, bucket, seen, summary, recorders, begun, ended, idles,
                 crossed>>

\* The loop that is at a key returns to its head.
Loop(k) == IF k \in Counters THEN "counters" ELSE "histograms"

\* get_generation of the next handle, in whatever order the map has them.
Pick(s, k) ==
  /\ snapshots[s].pc = Loop(k)
  /\ k \in snapshots[s].todo
  /\ snapshots' = [snapshots EXCEPT
       ![s].pc = "judge", ![s].todo = @ \ {k}, ![s].key = k,
       ![s].gen = count[k][snapshots[s].handles[k]]]
  /\ UNCHANGED <<life, lives, count, bucket, seen, summary, recorders, begun, ended, idles,
                 crossed>>

\* On to the next step with the key in hand, or back to the head of its loop.
Goto(s, pc) == snapshots' = [snapshots EXCEPT ![s].pc = pc, ![s].gen = 0]
Return(s, read) ==
  LET q == snapshots[s]
  IN snapshots' = [snapshots EXCEPT ![s] =
       [q EXCEPT !.pc = Loop(q.key), !.key = "started", !.gen = 0, !.read = read,
                 !.handles = [k \in Keys |-> IF k \in q.todo THEN @[k] ELSE 0]]]

\* should_store, under Recency's lock, finds the key unchanged for five days and
\* takes it out of the registry; a counter is then left out.
Drop(s) ==
  LET k == snapshots[s].key IN
  /\ snapshots[s].pc = "judge"
  /\ seen[k] = [gen |-> snapshots[s].gen, age |-> "old"]
  /\ life[k] # 0
  /\ life' = [life EXCEPT ![k] = 0]
  /\ seen' = [seen EXCEPT ![k] = Unseen]
  /\ IF k \in Counters THEN Return(s, snapshots[s].read) ELSE Goto(s, "forget")
  /\ UNCHANGED <<lives, count, bucket, summary, recorders, begun, ended, idles, crossed>>

\* Or it does not: a key that was never seen, or was recorded since, is as good
\* as new, and one that is old but gone from the registry is kept.
Keep(s) ==
  LET k == snapshots[s].key
      same == seen[k].age # "unseen" /\ seen[k].gen = snapshots[s].gen
  IN /\ snapshots[s].pc = "judge"
     /\ same => seen[k].age = "fresh" \/ life[k] = 0
     /\ seen' = IF same THEN seen
                ELSE [seen EXCEPT ![k] = [gen |-> snapshots[s].gen, age |-> "fresh"]]
     /\ Goto(s, "take")
     /\ UNCHANGED <<life, lives, count, bucket, summary, recorders, begun, ended, idles,
                    crossed>>

\* The counter is read, by now perhaps with a later value.
Read(s) ==
  LET k == snapshots[s].key IN
  /\ snapshots[s].pc = "take"
  /\ k \in Counters
  /\ Return(s, [snapshots[s].read EXCEPT ![k] = count[k][snapshots[s].handles[k]]])
  /\ UNCHANGED <<life, lives, count, bucket, seen, summary, recorders, begun, ended, idles,
                 crossed>>

Crosses(h) == \E q \in Snapshots : snapshots[q].pc = "forget" /\ snapshots[q].key = h

\* A mutated form: the summary is made anew for each drain.
DrainAnew(s) ==
  LET h == snapshots[s].key
      n == snapshots[s].handles[h]
  IN /\ snapshots[s].pc = "take"
     /\ h \in Histograms
     /\ summary' = [summary EXCEPT ![h] = bucket[h][n]]
     /\ bucket' = [bucket EXCEPT ![h][n] = 0]
     /\ Return(s, snapshots[s].read)
     /\ crossed' = (crossed \/ Crosses(h))
     /\ UNCHANGED <<life, lives, count, seen, recorders, begun, ended, idles>>

\* clear_with moves the samples of the handle into the summary, under the lock of
\* distributions.
Drain(s) ==
  LET h == snapshots[s].key
      n == snapshots[s].handles[h]
  IN /\ snapshots[s].pc = "take"
     /\ h \in Histograms
     /\ summary' = [summary EXCEPT ![h] = @ + bucket[h][n]]
     /\ bucket' = [bucket EXCEPT ![h][n] = 0]
     /\ Return(s, snapshots[s].read)
     /\ crossed' = (crossed \/ Crosses(h))
     /\ UNCHANGED <<life, lives, count, seen, recorders, begun, ended, idles>>

\* A dropped histogram's summary is removed, a step after the drop.
Forget(s) ==
  /\ snapshots[s].pc = "forget"
  /\ summary' = [summary EXCEPT ![snapshots[s].key] = 0]
  /\ Return(s, snapshots[s].read)
  /\ UNCHANGED <<life, lives, count, bucket, seen, recorders, begun, ended, idles, crossed>>

\* The counters are what the answer will say; snapshot_histograms copies its own
\* handles.
BeginHistograms(s) ==
  /\ CountersRead(s)
  /\ snapshots' = [snapshots EXCEPT ![s] =
       [@ EXCEPT !.pc = "histograms", !.handles = Handles(Histograms),
                 !.todo = Live(Histograms), !.read = NothingRead, !.begun = 0, !.ended = 0]]
  /\ UNCHANGED <<life, lives, count, bucket, seen, summary, recorders, begun, ended, idles,
                 crossed>>

\* The answer is sent, and the client presents it.
Answer(s) ==
  /\ snapshots[s].pc = "histograms"
  /\ snapshots[s].todo = {}
  /\ snapshots' = [snapshots EXCEPT ![s] = NoSnapshot]
  /\ UNCHANGED <<life, lives, count, bucket, seen, summary, recorders, begun, ended, idles,
                 crossed>>

SnapshotStep(s) ==
  \/ \E k \in Keys : Pick(s, k)
  \/ Drop(s) \/ Keep(s) \/ Read(s) \/ Drain(s) \/ Forget(s)
  \/ BeginHistograms(s) \/ Answer(s)

-----------------------------------------------------------------------------
\* More than five days pass.  No step of a recording or a snapshot takes that long;
\* days in which nothing ages are not counted.
Idle ==
  /\ idles < MaxIdles
  /\ \E k \in Keys : seen[k].age = "fresh"
  /\ \A s \in Snapshots : snapshots[s] = NoSnapshot
  /\ \A t \in Recorders : recorders[t] = NoRecord
  /\ idles' = idles + 1
  /\ seen' = [k \in Keys |-> IF seen[k] = Unseen THEN Unseen ELSE [seen[k] EXCEPT !.age = "old"]]
  /\ UNCHANGED <<life, lives, count, bucket, summary, recorders, snapshots, begun, ended,
                 crossed>>

Next ==
  \/ \E t \in Recorders : Increment(t) \/ \E k \in Keys : Register(t, k)
  \/ \E s \in Snapshots : Begin(s) \/ SnapshotStep(s)
  \/ Idle

Spec == Init /\ [][Next]_vars

-----------------------------------------------------------------------------
(* What the client shows of a snapshot: Snapshot::present. *)

\* A mutated form: without a finish there is nothing to subtract from.
MergePairs(start, finish) ==
  IF start = NotShown \/ finish = NotShown THEN 0
  ELSE IF finish > start THEN 0 ELSE start - finish

\* MergeCounter::merge; neither of them shows nothing, as zero does.
Merge(start, finish) ==
  LET started == IF start = NotShown THEN 0 ELSE start
      finished == IF finish = NotShown THEN 0 ELSE finish
  IN IF finished > started THEN 0 ELSE started - finished

Running(s) == Merge(snapshots[s].read["started"], snapshots[s].read["finished"])

-----------------------------------------------------------------------------
(* Properties *)

\* The counter was dropped for being idle, and counts from zero again if at all.
Dropped(k) == lives[k] > 1 \/ (lives[k] = 1 /\ life[k] = 0)

\* The two counters of a pair are read at two moments and in either order, while
\* jobs begin and end.  The number shown as running is still at most the jobs that
\* ran in the snapshot at some time, and at least those begun before it less all
\* that have ended by now: less than ran all through it, if others began and ended
\* in it.  So it is wrong by no more than what began and ended meanwhile, until one
\* of the two has been dropped.
RunningIsNear ==
  \A s \in Snapshots :
    CountersRead(s)
      => \/ \E k \in Counters : Dropped(k)
         \/ /\ snapshots[s].begun - ended <= Running(s)
            /\ Running(s) <= begun - snapshots[s].ended

\* A sample recorded through the handle that the registry has is in the bucket or
\* in the summary, whichever snapshots overlap, except when one of them drained it
\* into the summary that another was already about to remove.  What a thread records
\* through a handle that is or is just being dropped goes with it.
SamplesAreKept ==
  crossed \/ \A h \in Live(Histograms) :
    count[h][life[h]] <= bucket[h][life[h]] + summary[h]
=============================================================================
