--------------------------- MODULE CollectorProofs ---------------------------
(***************************************************************************)
(* Proofs about Collector, for every set of histograms and of snapshots    *)
(* and every finite set of recording threads, and any number of jobs,      *)
(* samples and idle days.                                                  *)
(***************************************************************************)
EXTENDS Collector, FiniteSetTheorems, TLAPS

\* A snapshot that is at a key, from get_generation to the end of the loop's body.
InHand(q) == q.pc \in {"judge", "take", "forget"}

\* Each loop is over keys of its own kind, and has a handle for each key it is
\* still to come to and for the one it may be about to read.
LoopOK(q) ==
  /\ \A k \in Keys : q.handles[k] <= lives[k]
  /\ \A k \in q.todo : q.handles[k] # 0
  /\ q.pc \in {"judge", "take"} => q.handles[q.key] # 0
  /\ q.pc \in {"counters", "histograms"} => \A k \in q.todo : Loop(k) = q.pc
  /\ InHand(q) => \A k \in q.todo : Loop(k) = Loop(q.key)
  /\ q.pc = "forget" => q.key \in Histograms

LoopsOK == \A s \in Snapshots : snapshots[s] # NoSnapshot => LoopOK(snapshots[s])

\* The lives of a key that are over.
Ended(k) == IF life[k] = 0 THEN lives[k] ELSE lives[k] - 1

\* A handle in use is of a life its key has had, nothing is counted in a life still
\* to come, and it takes idle days to end a life.
LivesOK ==
  /\ \A t \in Recorders : recorders[t] # NoRecord => recorders[t].life <= lives[recorders[t].key]
  /\ \A k \in Keys, n \in Lives : n > lives[k] => count[k][n] = 0
  /\ \A k \in Keys : Ended(k) + (IF seen[k].age = "old" THEN 1 ELSE 0) <= idles

\* The threads that hold the handle of one life of a key.
Holders(k, n) == {t \in Recorders : recorders[t] = [key |-> k, life |-> n]}

Happened(k) == IF k = "started" THEN begun ELSE ended

\* There is room for all that the threads are about to record.
CountsOK ==
  /\ begun + Pending("started") <= MaxJobs
  /\ ended + Pending("finished") <= begun
  /\ \A k \in Counters, n \in Lives : count[k][n] <= Happened(k)
  /\ \A h \in Histograms, n \in Lives :
       /\ count[h][n] + Cardinality(Holders(h, n)) <= MaxSamples
       /\ bucket[h][n] <= count[h][n]

TypeInv == TypeOK /\ LoopsOK /\ LivesOK /\ CountsOK

-----------------------------------------------------------------------------
(* What the values are made of. *)

\* No key is both a counter and a histogram, and no record is one of a free slot.
LEMMA KeysDiffer ==
  /\ Counters \cap Histograms = {} /\ "none" \notin Keys
  /\ "started" \in Counters /\ "finished" \in Counters
  /\ Counters \subseteq Keys /\ Histograms \subseteq Keys
BY CollectorAssumption DEF Keys, Counters

\* The bounds are numbers.
LEMMA BoundsAreNats ==
  /\ MaxIdles \in Nat /\ MaxJobs \in Nat /\ MaxSamples \in Nat /\ MaxCount \in Nat
  /\ MaxCount >= MaxJobs /\ MaxCount >= MaxSamples
  /\ NotShown = MaxCount + 1
  /\ Lives = 1..(MaxIdles + 1)
BY CollectorAssumption DEF MaxCount, NotShown, Lives

\* A thread in use has a handle.
LEMMA RecordInUse ==
  ASSUME TypeOK, NEW t \in Recorders, recorders[t].key \in Keys
  PROVE  recorders[t] \in Record /\ recorders[t] # NoRecord
<1>1. recorders[t] # NoRecord
  BY KeysDiffer DEF NoRecord
<1> QED BY <1>1 DEF TypeOK

\* A snapshot in use is a Snapshot.
LEMMA SnapshotInUse ==
  ASSUME TypeOK, NEW s \in Snapshots, snapshots[s].pc # "none"
  PROVE  snapshots[s] \in Snapshot /\ snapshots[s] # NoSnapshot
BY DEF TypeOK, NoSnapshot

\* And a Snapshot is in use.
LEMMA SnapshotsDiffer == NoSnapshot \notin Snapshot /\ \A q \in Snapshot : q.pc # "none"
BY DEF NoSnapshot, Snapshot

\* What is counted is a number.
LEMMA CountsAreNats ==
  ASSUME TypeOK, NEW k \in Keys, NEW n \in Lives
  PROVE  /\ count[k][n] \in Nat /\ 0 <= count[k][n]
         /\ k \in Histograms => bucket[k][n] \in Nat /\ 0 <= bucket[k][n] /\ summary[k] \in Nat
<1>1. count[k][n] \in 0..MaxCount
  BY DEF TypeOK
<1>2. k \in Histograms => bucket[k][n] \in 0..MaxCount /\ summary[k] \in Nat
  BY DEF TypeOK
<1> QED BY <1>1, <1>2, BoundsAreNats

\* So is what has happened.
LEMMA HappenedAreNats ==
  ASSUME TypeOK
  PROVE  /\ begun \in Nat /\ ended \in Nat /\ ended <= begun /\ begun <= MaxJobs
         /\ begun \in 0..MaxJobs /\ ended \in 0..MaxJobs
<1>1. begun \in 0..MaxJobs /\ ended \in 0..begun
  BY DEF TypeOK
<1> QED BY <1>1, BoundsAreNats

\* The handle in the registry is of the last life, if there is one.
LEMMA LifeIsLast ==
  ASSUME TypeOK, NEW k \in Keys
  PROVE  /\ life[k] \in 0..(MaxIdles + 1) /\ lives[k] \in 0..(MaxIdles + 1)
         /\ life[k] = 0 \/ life[k] = lives[k]
         /\ life[k] <= lives[k] /\ 0 <= lives[k]
<1>1. /\ life[k] \in 0..(MaxIdles + 1) /\ lives[k] \in 0..(MaxIdles + 1)
      /\ life[k] = 0 \/ life[k] = lives[k]
  BY DEF TypeOK
<1> QED BY <1>1, BoundsAreNats

\* The threads pending and holding are finitely many.
LEMMA PendingIsFinite ==
  ASSUME NEW k, NEW n
  PROVE  /\ IsFiniteSet({t \in Recorders : recorders[t].key = k}) /\ Pending(k) \in Nat
         /\ IsFiniteSet(Holders(k, n)) /\ Cardinality(Holders(k, n)) \in Nat
         /\ Cardinality(Holders(k, n)) <= Pending(k)
<1> DEFINE P == {t \in Recorders : recorders[t].key = k}
<1>1. Holders(k, n) \subseteq P /\ P \subseteq Recorders
  BY DEF Holders
<1>2. IsFiniteSet(P)
  BY <1>1, CollectorAssumption, FS_Subset
<1>3. IsFiniteSet(Holders(k, n)) /\ Cardinality(Holders(k, n)) <= Cardinality(P)
  BY <1>1, <1>2, FS_Subset
<1> QED BY <1>2, <1>3, FS_CardinalityType DEF Pending

-----------------------------------------------------------------------------
(* How a snapshot moves. *)

\* The snapshots when one of them becomes q.
LEMMA OneMoves ==
  ASSUME TypeOK, NEW s \in Snapshots, NEW q \in Snapshot \cup {NoSnapshot},
         snapshots' = [snapshots EXCEPT ![s] = q]
  PROVE  /\ snapshots' \in [Snapshots -> Snapshot \cup {NoSnapshot}]
         /\ snapshots'[s] = q
         /\ \A r \in Snapshots \ {s} : snapshots'[r] = snapshots[r]
BY DEF TypeOK

\* get_generation takes the next key in hand.
LEMMA PickMoves ==
  ASSUME TypeInv, NEW s \in Snapshots, NEW k \in Keys, Pick(s, k)
  PROVE  LET q == snapshots[s]
             new == [q EXCEPT !.pc = "judge", !.todo = @ \ {k}, !.key = k,
                              !.gen = count[k][q.handles[k]]]
         IN /\ q \in Snapshot /\ q # NoSnapshot
            /\ new \in Snapshot
            /\ snapshots' = [snapshots EXCEPT ![s] = new]
<1> USE DEF TypeInv
<1> DEFINE q == snapshots[s]
           new == [q EXCEPT !.pc = "judge", !.todo = @ \ {k}, !.key = k,
                            !.gen = count[k][q.handles[k]]]
<1>1. q.pc = Loop(k) /\ k \in q.todo
  BY DEF Pick
<1>2. q \in Snapshot /\ q # NoSnapshot
  <2>1. q.pc # "none"
    BY <1>1 DEF Loop
  <2> QED BY <2>1, SnapshotInUse
<1>3. q.handles[k] \in Lives
  <2>1. q.handles[k] # 0
    BY <1>1, <1>2 DEF LoopsOK, LoopOK
  <2>2. q.handles[k] \in 0..(MaxIdles + 1)
    BY <1>2 DEF Snapshot
  <2> QED BY <2>1, <2>2, BoundsAreNats
<1>4. count[k][q.handles[k]] \in 0..MaxCount
  BY <1>3 DEF TypeOK
<1>5. new \in Snapshot
  BY <1>2, <1>4 DEF Snapshot
<1>6. snapshots' = [snapshots EXCEPT ![s] = new]
  BY <1>2 DEF Pick, TypeOK, Snapshot
<1> QED BY <1>2, <1>5, <1>6

\* The loop goes back to its head with what it has read.
LEMMA ReturnMoves ==
  ASSUME TypeOK, NEW s \in Snapshots, snapshots[s] \in Snapshot,
         NEW read \in [Counters -> 0..NotShown], Return(s, read)
  PROVE  LET q == snapshots[s]
         IN \E new \in Snapshot :
              /\ snapshots' = [snapshots EXCEPT ![s] = new]
              /\ new.pc = Loop(q.key) /\ new.todo = q.todo /\ new.read = read
              /\ new.begun = q.begun /\ new.ended = q.ended
              /\ \A k \in Keys : new.handles[k] = IF k \in q.todo THEN q.handles[k] ELSE 0
<1> DEFINE q == snapshots[s]
           handles == [k \in Keys |-> IF k \in q.todo THEN q.handles[k] ELSE 0]
           new == [q EXCEPT !.pc = Loop(q.key), !.key = "started", !.gen = 0, !.read = read,
                            !.handles = handles]
<1>1. handles \in [Keys -> 0..(MaxIdles + 1)]
  BY BoundsAreNats DEF Snapshot
<1>2. 0 \in 0..MaxCount /\ "started" \in Keys /\ Loop(q.key) \in {"counters", "histograms"}
  BY BoundsAreNats, KeysDiffer DEF Loop
<1>3. snapshots' = [snapshots EXCEPT ![s] = new]
  BY DEF Return
<1> HIDE DEF handles
<1>4. new \in Snapshot
  BY <1>1, <1>2 DEF Snapshot
<1>5. /\ new.pc = Loop(q.key) /\ new.todo = q.todo /\ new.read = read
      /\ new.begun = q.begun /\ new.ended = q.ended
      /\ new.handles = handles
  BY DEF Snapshot
<1>6. \A k \in Keys : new.handles[k] = IF k \in q.todo THEN q.handles[k] ELSE 0
  BY <1>5 DEF handles
<1> HIDE DEF new
<1> QED BY <1>3, <1>4, <1>5, <1>6

\* The key in hand goes to its next step.
LEMMA GotoMoves ==
  ASSUME TypeOK, NEW s \in Snapshots, snapshots[s] \in Snapshot,
         NEW pc \in {"take", "forget"}, Goto(s, pc)
  PROVE  LET q == snapshots[s]
             new == [q EXCEPT !.pc = pc, !.gen = 0]
         IN new \in Snapshot /\ snapshots' = [snapshots EXCEPT ![s] = new]
<1> DEFINE q == snapshots[s]
           new == [q EXCEPT !.pc = pc, !.gen = 0]
<1>1. 0 \in 0..MaxCount
  BY BoundsAreNats
<1>2. new \in Snapshot
  BY <1>1 DEF Snapshot
<1>3. snapshots' = [snapshots EXCEPT ![s] = new]
  BY DEF Goto, TypeOK
<1> QED BY <1>2, <1>3

-----------------------------------------------------------------------------
(* What the steps of a snapshot keep. *)

\* The loops of the other snapshots are as good as they were.
LEMMA OtherLoops ==
  ASSUME LoopsOK, NEW s \in Snapshots, lives' = lives,
         \A r \in Snapshots \ {s} : snapshots'[r] = snapshots[r],
         snapshots'[s] # NoSnapshot => LoopOK(snapshots[s])'
  PROVE  LoopsOK'
BY DEF LoopsOK, LoopOK, InHand

\* Lives and counts are about nothing that belongs to a snapshot.
LEMMA CountsUntouched ==
  ASSUME LivesOK, CountsOK,
         UNCHANGED <<life, lives, count, bucket, seen, recorders, begun, ended, idles>>
  PROVE  LivesOK' /\ CountsOK'
BY DEF LivesOK, CountsOK, Ended, Happened, Holders, Pending

\* The steps that only look.
LEMMA LooksKeepTypes ==
  ASSUME TypeInv, NEW s \in Snapshots,
         \/ Begin(s) \/ BeginHistograms(s) \/ Answer(s)
         \/ \E k \in Keys : Pick(s, k)
  PROVE  TypeInv'
<1> USE DEF TypeInv
<1>1. UNCHANGED <<life, lives, count, bucket, seen, summary, recorders, begun, ended, idles,
                  crossed>>
  BY DEF Begin, BeginHistograms, Answer, Pick
<1>2. LivesOK' /\ CountsOK'
  BY <1>1, CountsUntouched
<1>3. \A keys \in {Counters, Histograms} :
        /\ Handles(keys) \in [Keys -> 0..(MaxIdles + 1)]
        /\ \A k \in Keys : Handles(keys)[k] <= lives[k]
        /\ Live(keys) \in SUBSET Keys
        /\ \A k \in Live(keys) : Handles(keys)[k] # 0
  <2> SUFFICES ASSUME NEW keys \in SUBSET Keys
               PROVE  /\ Handles(keys) \in [Keys -> 0..(MaxIdles + 1)]
                      /\ \A k \in Keys : Handles(keys)[k] <= lives[k]
                      /\ Live(keys) \in SUBSET Keys
                      /\ \A k \in Live(keys) : Handles(keys)[k] # 0
    BY KeysDiffer
  <2>1. \A k \in Keys : life[k] \in 0..(MaxIdles + 1) /\ life[k] <= lives[k] /\ 0 <= lives[k]
    BY LifeIsLast
  <2> QED BY <2>1, BoundsAreNats DEF Handles, Live
<1>4. NothingRead \in [Counters -> 0..NotShown] /\ 0 \in 0..MaxCount /\ 0 \in 0..MaxJobs
  BY BoundsAreNats DEF NothingRead
<1>5. begun \in 0..MaxJobs /\ ended \in 0..MaxJobs
  BY BoundsAreNats DEF TypeOK
<1>6. CASE Begin(s)
  <2> DEFINE new == [pc |-> "counters", handles |-> Handles(Counters), todo |-> Live(Counters),
                     key |-> "started", gen |-> 0, read |-> NothingRead, begun |-> begun,
                     ended |-> ended]
  <2>1. new \in Snapshot
    BY <1>3, <1>4, <1>5, KeysDiffer DEF Snapshot
  <2>2. /\ new.pc = "counters" /\ new.handles = Handles(Counters) /\ new.todo = Live(Counters)
    OBVIOUS
  <2>3. snapshots' = [snapshots EXCEPT ![s] = new]
    BY <1>6 DEF Begin
  <2> HIDE DEF new
  <2>4. /\ snapshots' \in [Snapshots -> Snapshot \cup {NoSnapshot}] /\ snapshots'[s] = new
        /\ \A r \in Snapshots \ {s} : snapshots'[r] = snapshots[r]
    BY <2>1, <2>3, OneMoves
  <2>5. LoopOK(snapshots[s])'
    BY <1>1, <1>3, <2>2, <2>4 DEF LoopOK, InHand, Live, Loop
  <2>6. LoopsOK'
    BY <1>1, <2>4, <2>5, OtherLoops
  <2> QED BY <1>1, <1>2, <2>4, <2>6 DEF TypeOK
<1>7. CASE BeginHistograms(s)
  <2> DEFINE q == snapshots[s]
             new == [q EXCEPT !.pc = "histograms", !.handles = Handles(Histograms),
                 !.todo = Live(Histograms), !.read = NothingRead, !.begun = 0, !.ended = 0]
  <2>0. q \in Snapshot
    <3>1. q.pc = "counters"
      BY <1>7 DEF BeginHistograms, CountersRead
    <3> QED BY <3>1, SnapshotInUse
  <2>1. new \in Snapshot
    BY <1>3, <1>4, <2>0, KeysDiffer DEF Snapshot
  <2>2. /\ new.pc = "histograms" /\ new.handles = Handles(Histograms)
        /\ new.todo = Live(Histograms)
    BY <2>0 DEF Snapshot
  <2>3. snapshots' = [snapshots EXCEPT ![s] = new]
    BY <1>7 DEF BeginHistograms, TypeOK
  <2> HIDE DEF new
  <2>4. /\ snapshots' \in [Snapshots -> Snapshot \cup {NoSnapshot}] /\ snapshots'[s] = new
        /\ \A r \in Snapshots \ {s} : snapshots'[r] = snapshots[r]
    BY <2>1, <2>3, OneMoves
  <2>5. LoopOK(snapshots[s])'
    BY <1>1, <1>3, <2>2, <2>4, KeysDiffer DEF LoopOK, InHand, Live, Loop
  <2>6. LoopsOK'
    BY <1>1, <2>4, <2>5, OtherLoops
  <2> QED BY <1>1, <1>2, <2>4, <2>6 DEF TypeOK
<1>8. CASE Answer(s)
  <2>1. snapshots' = [snapshots EXCEPT ![s] = NoSnapshot]
    BY <1>8 DEF Answer
  <2>2. /\ snapshots' \in [Snapshots -> Snapshot \cup {NoSnapshot}]
        /\ snapshots'[s] = NoSnapshot
        /\ \A r \in Snapshots \ {s} : snapshots'[r] = snapshots[r]
    BY <2>1, OneMoves
  <2>3. LoopsOK'
    BY <1>1, <2>2, OtherLoops
  <2> QED BY <1>1, <1>2, <2>2, <2>3 DEF TypeOK
<1>9. ASSUME NEW k \in Keys, Pick(s, k)
      PROVE  TypeInv'
  <2> DEFINE q == snapshots[s]
             new == [q EXCEPT !.pc = "judge", !.todo = @ \ {k}, !.key = k,
                              !.gen = count[k][q.handles[k]]]
  <2>1. q \in Snapshot /\ q # NoSnapshot /\ new \in Snapshot
        /\ snapshots' = [snapshots EXCEPT ![s] = new]
    BY <1>9, PickMoves
  <2>2. /\ new.pc = "judge" /\ new.handles = q.handles /\ new.todo = q.todo \ {k}
        /\ new.key = k
    BY <2>1 DEF Snapshot
  <2>3. q.pc = Loop(k) /\ k \in q.todo
    BY <1>9 DEF Pick
  <2> HIDE DEF new
  <2>4. /\ snapshots' \in [Snapshots -> Snapshot \cup {NoSnapshot}] /\ snapshots'[s] = new
        /\ \A r \in Snapshots \ {s} : snapshots'[r] = snapshots[r]
    BY <2>1, OneMoves
  <2>5. LoopOK(q)
    BY <2>1 DEF LoopsOK
  <2>6. \A j \in q.todo : Loop(j) = Loop(k)
    BY <2>3, <2>5 DEF LoopOK, Loop
  <2>7. LoopOK(snapshots[s])'
    BY <1>1, <2>2, <2>3, <2>4, <2>5, <2>6 DEF LoopOK, InHand
  <2>8. LoopsOK'
    BY <1>1, <2>4, <2>7, OtherLoops
  <2> QED BY <1>1, <1>2, <2>4, <2>8 DEF TypeOK
<1> QED BY <1>6, <1>7, <1>8, <1>9

\* A loop that goes on keeps the handles of the keys it is still to come to.
LEMMA ReturnKeepsLoops ==
  ASSUME TypeInv, NEW s \in Snapshots, snapshots[s] \in Snapshot, InHand(snapshots[s]),
         NEW read \in [Counters -> 0..NotShown], Return(s, read), lives' = lives
  PROVE  LoopsOK' /\ snapshots' \in [Snapshots -> Snapshot \cup {NoSnapshot}]
<1> USE DEF TypeInv
<1> DEFINE q == snapshots[s]
<1>1. PICK new \in Snapshot :
        /\ snapshots' = [snapshots EXCEPT ![s] = new]
        /\ new.pc = Loop(q.key) /\ new.todo = q.todo
        /\ \A k \in Keys : new.handles[k] = IF k \in q.todo THEN q.handles[k] ELSE 0
  BY ReturnMoves
<1>2. /\ snapshots' \in [Snapshots -> Snapshot \cup {NoSnapshot}] /\ snapshots'[s] = new
      /\ \A r \in Snapshots \ {s} : snapshots'[r] = snapshots[r]
  BY <1>1, OneMoves
<1>3. q \in Snapshot /\ q # NoSnapshot /\ q.todo \in SUBSET Keys
  BY SnapshotsDiffer DEF Snapshot
<1>4. LoopOK(q)
  BY <1>3 DEF LoopsOK
<1>5. \A k \in Keys : new.handles[k] <= lives[k]
  BY <1>1, <1>4, LifeIsLast DEF LoopOK
<1>6. LoopOK(snapshots[s])'
  BY <1>1, <1>2, <1>3, <1>4, <1>5 DEF LoopOK, InHand, Loop
<1>7. LoopsOK'
  BY <1>2, <1>6, OtherLoops
<1> QED BY <1>2, <1>7

\* The key in hand stays in hand, and its loop as it is.
LEMMA GotoKeepsLoops ==
  ASSUME TypeInv, NEW s \in Snapshots, snapshots[s] \in Snapshot, snapshots[s].pc = "judge",
         NEW pc \in {"take", "forget"}, Goto(s, pc), lives' = lives,
         pc = "forget" => snapshots[s].key \in Histograms
  PROVE  LoopsOK' /\ snapshots' \in [Snapshots -> Snapshot \cup {NoSnapshot}]
<1> USE DEF TypeInv
<1> DEFINE q == snapshots[s]
           new == [q EXCEPT !.pc = pc, !.gen = 0]
<1>1. new \in Snapshot /\ snapshots' = [snapshots EXCEPT ![s] = new]
  BY GotoMoves
<1>2. new.pc = pc /\ new.handles = q.handles /\ new.todo = q.todo /\ new.key = q.key
  BY DEF Snapshot
<1> HIDE DEF new
<1>3. /\ snapshots' \in [Snapshots -> Snapshot \cup {NoSnapshot}] /\ snapshots'[s] = new
      /\ \A r \in Snapshots \ {s} : snapshots'[r] = snapshots[r]
  BY <1>1, OneMoves
<1>4. LoopOK(q)
  BY SnapshotsDiffer DEF LoopsOK
<1>5. LoopOK(snapshots[s])'
  BY <1>2, <1>3, <1>4 DEF LoopOK, InHand
<1>6. LoopsOK'
  BY <1>3, <1>5, OtherLoops
<1> QED BY <1>3, <1>6

\* A snapshot with a key in hand, and the handle that it may be about to read.
LEMMA KeyInHand ==
  ASSUME TypeInv, NEW s \in Snapshots, InHand(snapshots[s])
  PROVE  /\ snapshots[s] \in Snapshot /\ snapshots[s] # NoSnapshot
         /\ snapshots[s].key \in Keys
         /\ snapshots[s].gen \in 0..MaxCount
         /\ snapshots[s].read \in [Counters -> 0..NotShown]
         /\ snapshots[s].pc \in {"judge", "take"} =>
              snapshots[s].handles[snapshots[s].key] \in Lives
         /\ snapshots[s].pc = "forget" => snapshots[s].key \in Histograms
<1> USE DEF TypeInv
<1>1. snapshots[s] \in Snapshot /\ snapshots[s] # NoSnapshot
  BY SnapshotInUse DEF InHand
<1>2. /\ snapshots[s].key \in Keys /\ snapshots[s].gen \in 0..MaxCount
      /\ snapshots[s].read \in [Counters -> 0..NotShown]
      /\ snapshots[s].handles \in [Keys -> 0..(MaxIdles + 1)]
  BY <1>1 DEF Snapshot
<1>3. LoopOK(snapshots[s])
  BY <1>1 DEF LoopsOK
<1>4. snapshots[s].handles[snapshots[s].key] \in 0..(MaxIdles + 1)
  BY <1>2
<1> QED BY <1>1, <1>2, <1>3, <1>4, BoundsAreNats DEF LoopOK

\* should_store ends a life, for which days of idleness have made the key old, or
\* notes a generation.
LEMMA JudgingKeepsTypes ==
  ASSUME TypeInv, NEW s \in Snapshots, Drop(s) \/ Keep(s)
  PROVE  TypeInv'
<1> USE DEF TypeInv
<1> DEFINE q == snapshots[s]
           k == q.key
<1>1. q.pc = "judge" /\ InHand(q)
  BY DEF Drop, Keep, InHand
<1>2. q \in Snapshot /\ k \in Keys /\ q.gen \in 0..MaxCount
      /\ q.read \in [Counters -> 0..NotShown]
  BY <1>1, KeyInHand
<1>3. UNCHANGED <<lives, count, bucket, summary, recorders, begun, ended, idles, crossed>>
  BY DEF Drop, Keep
<1>4. CountsOK'
  BY <1>3 DEF CountsOK, Happened, Holders, Pending
<1>5. CASE Drop(s)
  <2>1. /\ seen[k].age = "old" /\ life[k] # 0
        /\ life' = [life EXCEPT ![k] = 0] /\ seen' = [seen EXCEPT ![k] = Unseen]
    BY <1>5 DEF Drop
  <2>2. LoopsOK' /\ snapshots' \in [Snapshots -> Snapshot \cup {NoSnapshot}]
    <3>1. CASE k \in Counters
      <4>1. Return(s, q.read)
        BY <1>5, <3>1 DEF Drop
      <4> QED BY <1>1, <1>2, <1>3, <4>1, ReturnKeepsLoops
    <3>2. CASE k \notin Counters
      <4>1. Goto(s, "forget") /\ k \in Histograms
        BY <1>2, <1>5, <3>2 DEF Drop, Keys
      <4> QED BY <1>1, <1>2, <1>3, <4>1, GotoKeepsLoops
    <3> QED BY <3>1, <3>2
  <2>3. TypeOK'
    <3>1. life' \in [Keys -> 0..(MaxIdles + 1)] /\ \A j \in Keys : life'[j] \in {0, lives[j]}
      <4>1. 0 \in 0..(MaxIdles + 1)
        BY BoundsAreNats
      <4>2. life' \in [Keys -> 0..(MaxIdles + 1)]
        BY <2>1, <4>1 DEF TypeOK
      <4>3. \A j \in Keys : life'[j] = 0 \/ life'[j] = life[j]
        BY <2>1 DEF TypeOK
      <4> QED BY <4>2, <4>3 DEF TypeOK
    <3>2. seen' \in [Keys -> Seen \cup {Unseen}]
      BY <2>1 DEF TypeOK
    <3> QED BY <1>3, <2>2, <3>1, <3>2 DEF TypeOK
  <2>4. ASSUME NEW j \in Keys
        PROVE  Ended(j)' + (IF seen'[j].age = "old" THEN 1 ELSE 0) <= idles'
    <3>1. Ended(j) + (IF seen[j].age = "old" THEN 1 ELSE 0) <= idles
      BY DEF LivesOK
    <3>2. CASE j = k
      <4>1. life'[j] = 0 /\ seen'[j].age # "old" /\ life[j] # 0 /\ seen[j].age = "old"
        BY <2>1, <3>2 DEF TypeOK, Unseen
      <4>2. lives[j] - 1 + 1 <= idles
        BY <3>1, <4>1 DEF Ended
      <4> QED BY <1>3, <4>1, <4>2, LifeIsLast DEF Ended
    <3>3. CASE j # k
      <4>1. life'[j] = life[j] /\ seen'[j] = seen[j]
        BY <2>1, <3>3 DEF TypeOK
      <4> QED BY <1>3, <3>1, <4>1 DEF Ended
    <3> QED BY <3>2, <3>3
  <2>5. LivesOK'
    BY <1>3, <2>4 DEF LivesOK
  <2> QED BY <1>4, <2>2, <2>3, <2>5
<1>6. CASE Keep(s)
  <2>1. /\ life' = life /\ Goto(s, "take")
        /\ \/ seen' = seen
           \/ seen' = [seen EXCEPT ![k] = [gen |-> q.gen, age |-> "fresh"]]
    BY <1>6 DEF Keep
  <2>2. LoopsOK' /\ snapshots' \in [Snapshots -> Snapshot \cup {NoSnapshot}]
    BY <1>1, <1>2, <1>3, <2>1, GotoKeepsLoops
  <2>3. [gen |-> q.gen, age |-> "fresh"] \in Seen
    BY <1>2 DEF Seen
  <2>4. TypeOK'
    BY <1>3, <2>1, <2>2, <2>3 DEF TypeOK
  <2>5. \A j \in Keys : seen'[j] = seen[j] \/ seen'[j].age = "fresh"
    BY <2>1, <1>2 DEF TypeOK
  <2>6. ASSUME NEW j \in Keys
        PROVE  Ended(j)' + (IF seen'[j].age = "old" THEN 1 ELSE 0) <= idles'
    <3>1. Ended(j) + (IF seen[j].age = "old" THEN 1 ELSE 0) <= idles
      BY DEF LivesOK
    <3>2. Ended(j) \in Int /\ idles \in Int /\ Ended(j)' = Ended(j)
      BY <1>3, <2>1, LifeIsLast DEF Ended, TypeOK
    <3>3. seen'[j].age = "old" => seen[j].age = "old"
      BY <2>5
    <3> QED BY <1>3, <3>1, <3>2, <3>3
  <2>7. LivesOK'
    BY <1>3, <2>6 DEF LivesOK
  <2> QED BY <1>4, <2>2, <2>4, <2>7
<1> QED BY <1>5, <1>6

\* What a snapshot does with the key in hand.
LEMMA TakingKeepsTypes ==
  ASSUME TypeInv, NEW s \in Snapshots, Read(s) \/ Drain(s) \/ Forget(s)
  PROVE  TypeInv'
<1> USE DEF TypeInv
<1> DEFINE q == snapshots[s]
           k == q.key
           n == q.handles[k]
<1>1. q.pc \in {"take", "forget"} /\ InHand(q)
  BY DEF Read, Drain, Forget, InHand
<1>2. /\ q \in Snapshot /\ k \in Keys
      /\ q.read \in [Counters -> 0..NotShown]
      /\ q.pc = "take" => n \in Lives
      /\ q.pc = "forget" => k \in Histograms
  BY <1>1, KeyInHand
<1>3. UNCHANGED <<life, lives, count, seen, recorders, begun, ended, idles>>
  BY DEF Read, Drain, Forget
<1>4. CASE Read(s)
  <2> DEFINE read == [q.read EXCEPT ![k] = count[k][n]]
  <2>1. /\ k \in Counters /\ n \in Lives /\ Return(s, read)
        /\ UNCHANGED <<bucket, summary, crossed>>
    BY <1>2, <1>4 DEF Read
  <2>2. count[k][n] \in 0..MaxCount
    BY <1>2, <2>1 DEF TypeOK
  <2>3. count[k][n] \in 0..NotShown
    BY <2>2, BoundsAreNats
  <2>4. read \in [Counters -> 0..NotShown]
    BY <1>2, <2>1, <2>3
  <2>5. LoopsOK' /\ snapshots' \in [Snapshots -> Snapshot \cup {NoSnapshot}]
    BY <1>1, <1>2, <1>3, <2>1, <2>4, ReturnKeepsLoops
  <2>6. TypeOK'
    BY <1>3, <2>1, <2>5 DEF TypeOK
  <2> QED BY <1>3, <2>1, <2>5, <2>6, CountsUntouched
<1>5. CASE Drain(s)
  <2>1. /\ k \in Histograms /\ n \in Lives /\ Return(s, q.read)
        /\ summary' = [summary EXCEPT ![k] = @ + bucket[k][n]]
        /\ bucket' = [bucket EXCEPT ![k][n] = 0]
        /\ crossed' = (crossed \/ Crosses(k))
    BY <1>2, <1>5 DEF Drain
  <2>2. LoopsOK' /\ snapshots' \in [Snapshots -> Snapshot \cup {NoSnapshot}]
    BY <1>1, <1>2, <1>3, <2>1, ReturnKeepsLoops
  <2>3. bucket[k][n] \in Nat /\ summary[k] \in Nat
    BY <2>1, BoundsAreNats DEF TypeOK
  <2>4. summary' \in [Histograms -> Nat]
    BY <2>1, <2>3 DEF TypeOK
  <2>5. 0 \in 0..MaxCount
    BY BoundsAreNats
  <2>6. bucket' \in [Histograms -> [Lives -> 0..MaxCount]]
    BY <2>1, <2>5 DEF TypeOK
  <2>7. crossed' \in BOOLEAN
    BY <2>1 DEF TypeOK, Crosses
  <2>8. TypeOK'
    BY <1>3, <2>2, <2>4, <2>6, <2>7 DEF TypeOK
  <2>9. LivesOK'
    BY <1>3 DEF LivesOK, Ended
  <2>10. \A h \in Histograms, m \in Lives : bucket'[h][m] <= count[h][m]
    <3>1. \A h \in Histograms, m \in Lives : bucket'[h][m] = bucket[h][m] \/ bucket'[h][m] = 0
      BY <2>1 DEF TypeOK
    <3>2. \A h \in Histograms, m \in Lives : 0 <= count[h][m] /\ bucket[h][m] <= count[h][m]
      BY CountsAreNats, KeysDiffer DEF CountsOK
    <3> QED BY <3>1, <3>2
  <2>11. CountsOK'
    BY <1>3, <2>10 DEF CountsOK, Happened, Holders, Pending
  <2> QED BY <2>2, <2>8, <2>9, <2>11
<1>6. CASE Forget(s)
  <2>1. /\ k \in Histograms /\ Return(s, q.read)
        /\ summary' = [summary EXCEPT ![k] = 0]
        /\ UNCHANGED <<bucket, crossed>>
    BY <1>2, <1>6 DEF Forget
  <2>2. LoopsOK' /\ snapshots' \in [Snapshots -> Snapshot \cup {NoSnapshot}]
    BY <1>1, <1>2, <1>3, <2>1, ReturnKeepsLoops
  <2>3. TypeOK'
    BY <1>3, <2>1, <2>2 DEF TypeOK
  <2> QED BY <1>3, <2>1, <2>2, <2>3, CountsUntouched
<1> QED BY <1>4, <1>5, <1>6

-----------------------------------------------------------------------------
(* What recording and idleness keep. *)

\* A thread that takes a handle is one more that is about to record.
LEMMA RegisterCounts ==
  ASSUME TypeInv, NEW t \in Recorders, NEW k \in Keys, Register(t, k)
  PROVE  /\ recorders' \in [Recorders -> Record \cup {NoRecord}]
         /\ recorders'[t] = [key |-> k, life |-> lives'[k]]
         /\ \A u \in Recorders \ {t} : recorders'[u] = recorders[u]
         /\ lives' \in [Keys -> 0..(MaxIdles + 1)]
         /\ lives'[k] = IF life[k] = 0 THEN lives[k] + 1 ELSE lives[k]
         /\ \A j \in Keys \ {k} : lives'[j] = lives[j] /\ life'[j] = life[j]
         /\ lives'[k] \in Lives
         /\ life' \in [Keys -> 0..(MaxIdles + 1)] /\ life'[k] = lives'[k]
<1> USE DEF TypeInv
<1>1. lives' = [lives EXCEPT ![k] = IF life[k] = 0 THEN @ + 1 ELSE @]
  BY DEF Register
<1>2. lives'[k] = IF life[k] = 0 THEN lives[k] + 1 ELSE lives[k]
  BY <1>1 DEF TypeOK
<1>3. lives'[k] \in Lives
  <2>1. /\ Ended(k) + (IF seen[k].age = "old" THEN 1 ELSE 0) <= idles
        /\ idles \in 0..MaxIdles
    BY DEF LivesOK, TypeOK
  <2>2. life[k] = 0 => lives[k] <= MaxIdles
    BY <2>1, LifeIsLast, BoundsAreNats DEF Ended
  <2> QED BY <1>2, <2>2, LifeIsLast, BoundsAreNats
<1>4. lives'[k] \in 0..(MaxIdles + 1)
  BY <1>3, BoundsAreNats
<1>5. /\ lives' \in [Keys -> 0..(MaxIdles + 1)]
      /\ \A j \in Keys \ {k} : lives'[j] = lives[j]
  <2>1. lives' = [lives EXCEPT ![k] = lives'[k]]
    BY <1>1, <1>2 DEF TypeOK
  <2> QED BY <1>4, <2>1 DEF TypeOK
<1>6. life' = [life EXCEPT ![k] = lives'[k]]
  BY DEF Register
<1>7. /\ life' \in [Keys -> 0..(MaxIdles + 1)] /\ life'[k] = lives'[k]
      /\ \A j \in Keys \ {k} : life'[j] = life[j]
  BY <1>4, <1>6 DEF TypeOK
<1>8. [key |-> k, life |-> lives'[k]] \in Record
  BY <1>3 DEF Record
<1>9. recorders' = [recorders EXCEPT ![t] = [key |-> k, life |-> lives'[k]]]
  BY DEF Register
<1>10. /\ recorders' \in [Recorders -> Record \cup {NoRecord}]
       /\ recorders'[t] = [key |-> k, life |-> lives'[k]]
       /\ \A u \in Recorders \ {t} : recorders'[u] = recorders[u]
  BY <1>8, <1>9 DEF TypeOK
<1> QED BY <1>2, <1>3, <1>5, <1>7, <1>10

\* A set that gains at most x.
LEMMA Gains ==
  ASSUME NEW S, NEW T, NEW x, IsFiniteSet(S), T \subseteq S \cup {x}
  PROVE  Cardinality(T) \in Nat /\ Cardinality(T) <= Cardinality(S) + 1
<1>1. /\ IsFiniteSet(S \cup {x})
      /\ Cardinality(S \cup {x}) = IF x \in S THEN Cardinality(S) ELSE Cardinality(S) + 1
  BY FS_AddElement
<1>2. IsFiniteSet(T) /\ Cardinality(T) <= Cardinality(S \cup {x})
  BY <1>1, FS_Subset
<1>3. Cardinality(S) \in Nat /\ Cardinality(T) \in Nat /\ Cardinality(S \cup {x}) \in Nat
  BY <1>1, <1>2, FS_CardinalityType
<1> QED BY <1>1, <1>2, <1>3

\* A set that loses x.
LEMMA Loses ==
  ASSUME NEW S, NEW T, NEW x \in S, IsFiniteSet(S), T \subseteq S \ {x}
  PROVE  Cardinality(T) \in Nat /\ Cardinality(T) + 1 <= Cardinality(S)
<1>1. IsFiniteSet(S \ {x}) /\ Cardinality(S \ {x}) = Cardinality(S) - 1
  BY FS_RemoveElement
<1>2. IsFiniteSet(T) /\ Cardinality(T) <= Cardinality(S \ {x})
  BY <1>1, FS_Subset
<1>3. Cardinality(S) \in Nat /\ Cardinality(T) \in Nat /\ Cardinality(S \ {x}) \in Nat
  BY <1>1, <1>2, FS_CardinalityType
<1> QED BY <1>1, <1>2, <1>3

\* The bounds leave room for what it is about to record.
LEMMA RegisterKeepsRoom ==
  ASSUME TypeInv, NEW t \in Recorders, NEW k \in Keys, Register(t, k)
  PROVE  CountsOK'
<1> USE DEF TypeInv
<1> DEFINE P(j) == {u \in Recorders : recorders[u].key = j}
<1>1. /\ recorders'[t] = [key |-> k, life |-> lives'[k]]
      /\ recorders' \in [Recorders -> Record \cup {NoRecord}]
      /\ \A u \in Recorders \ {t} : recorders'[u] = recorders[u]
  BY RegisterCounts
<1>2. UNCHANGED <<count, bucket, begun, ended>> /\ Happens(k)
  BY DEF Register
<1>3. ASSUME NEW j \in Keys
      PROVE  /\ Pending(j)' \in Nat
             /\ Pending(j)' <= Pending(j) + 1
             /\ j # k => Pending(j)' = Pending(j)
  <2>1. IsFiniteSet(P(j)) /\ Pending(j) = Cardinality(P(j)) /\ Pending(j)' = Cardinality(P(j)')
    BY PendingIsFinite DEF Pending
  <2>2. P(j)' \subseteq P(j) \cup {t}
    BY <1>1
  <2>3. recorders[t].key # j
    BY KeysDiffer DEF Register, NoRecord
  <2>4. j # k => P(j)' = P(j)
    BY <1>1, <2>3
  <2> HIDE DEF P
  <2> QED BY <2>1, <2>2, <2>4, Gains
<1>4. ASSUME NEW h \in Histograms, NEW n \in Lives
      PROVE  count'[h][n] + Cardinality(Holders(h, n))' <= MaxSamples
  <2>1. /\ IsFiniteSet(Holders(h, n)) /\ Cardinality(Holders(h, n)) \in Nat
        /\ Cardinality(Holders(h, n)) <= Pending(h) /\ Pending(h) \in Nat
    BY PendingIsFinite
  <2>2. h \in Keys /\ count[h][n] \in Nat
    BY CountsAreNats, KeysDiffer
  <2>3. CASE h = k /\ n = lives'[k]
    <3>1. Holders(h, n)' \subseteq Holders(h, n) \cup {t}
      BY <1>1 DEF Holders
    <3>2. /\ Cardinality(Holders(h, n)') \in Nat
          /\ Cardinality(Holders(h, n)') <= Cardinality(Holders(h, n)) + 1
      BY <2>1, <3>1, Gains
    <3>3. Pending(h) + (IF life[h] = 0 THEN 0 ELSE count[h][life[h]]) < MaxSamples
      BY <1>2, <2>3, KeysDiffer DEF Happens, Counters
    <3>4. CASE life[h] = 0
      <4>1. n > lives[h]
        <5>1. n = lives[h] + 1 /\ lives[h] \in 0..(MaxIdles + 1)
          BY <2>2, <2>3, <3>4, RegisterCounts, LifeIsLast
        <5> QED BY <5>1, BoundsAreNats
      <4>2. count[h][n] = 0
        BY <2>2, <4>1 DEF LivesOK
      <4> QED BY <1>2, <2>1, <3>2, <3>3, <3>4, <4>2, BoundsAreNats
    <3>5. CASE life[h] # 0
      <4>1. n = life[h]
        BY <2>3, <3>5, RegisterCounts, LifeIsLast
      <4> QED BY <1>2, <2>1, <2>2, <3>2, <3>3, <3>5, <4>1, BoundsAreNats
    <3> QED BY <3>4, <3>5
  <2>4. CASE ~(h = k /\ n = lives'[k])
    <3>1. recorders[t] = NoRecord
      BY DEF Register
    <3>2. [key |-> h, life |-> n] # [key |-> k, life |-> lives'[k]]
      BY <2>4
    <3>3. [key |-> h, life |-> n] # NoRecord
      BY <2>2, KeysDiffer DEF NoRecord
    <3>4. Holders(h, n)' = Holders(h, n)
      BY <1>1, <3>1, <3>2, <3>3 DEF Holders
    <3> QED BY <1>2, <3>4 DEF CountsOK
  <2> QED BY <2>3, <2>4
<1>5. "started" \in Keys /\ "finished" \in Keys /\ "started" # "finished"
  BY KeysDiffer
<1>6. Pending("started") \in Nat /\ Pending("finished") \in Nat /\ begun \in Nat /\ ended \in Nat
  BY PendingIsFinite, HappenedAreNats
<1>7. /\ begun + Pending("started") <= MaxJobs
      /\ ended + Pending("finished") <= begun
      /\ k = "started" => begun + Pending(k) < MaxJobs
      /\ k = "finished" => ended + Pending(k) < begun
  BY <1>2 DEF CountsOK, Happens
<1>8. begun' + Pending("started")' <= MaxJobs
  BY <1>2, <1>3, <1>5, <1>6, <1>7, BoundsAreNats, SMTT(30)
<1>9. ended' + Pending("finished")' <= begun'
  BY <1>2, <1>3, <1>5, <1>6, <1>7, SMTT(30)
<1>10. \A j \in Counters, n \in Lives : count'[j][n] <= Happened(j)'
  BY <1>2 DEF CountsOK, Happened
<1>11. \A h \in Histograms, n \in Lives : bucket'[h][n] <= count'[h][n]
  BY <1>2 DEF CountsOK
<1> QED BY <1>4, <1>8, <1>9, <1>10, <1>11 DEF CountsOK

\* get_or_create gives a handle of the key's last life, or of a new one.
LEMMA RegisterKeepsTypes ==
  ASSUME TypeInv, NEW t \in Recorders, NEW k \in Keys, Register(t, k)
  PROVE  TypeInv'
<1> USE DEF TypeInv
<1>1. /\ recorders' \in [Recorders -> Record \cup {NoRecord}]
      /\ recorders'[t] = [key |-> k, life |-> lives'[k]]
      /\ \A u \in Recorders \ {t} : recorders'[u] = recorders[u]
      /\ lives' \in [Keys -> 0..(MaxIdles + 1)] /\ life' \in [Keys -> 0..(MaxIdles + 1)]
      /\ lives'[k] = IF life[k] = 0 THEN lives[k] + 1 ELSE lives[k]
      /\ lives'[k] \in Lives /\ life'[k] = lives'[k]
      /\ \A j \in Keys \ {k} : lives'[j] = lives[j] /\ life'[j] = life[j]
  BY RegisterCounts
<1>2. UNCHANGED <<count, bucket, seen, summary, snapshots, begun, ended, idles, crossed>>
  BY DEF Register
<1>3. TypeOK'
  <2>1. \A j \in Keys : life'[j] \in {0, lives'[j]}
    BY <1>1 DEF TypeOK
  <2> QED BY <1>1, <1>2, <2>1 DEF TypeOK
<1>4. \A j \in Keys : lives[j] <= lives'[j] /\ lives[j] \in Nat /\ lives'[j] \in Nat
  BY <1>1, LifeIsLast, BoundsAreNats
<1>5. LoopsOK'
  <2> SUFFICES ASSUME NEW s \in Snapshots, snapshots[s] # NoSnapshot
               PROVE  LoopOK(snapshots[s])'
    BY <1>2 DEF LoopsOK
  <2>1. LoopOK(snapshots[s])
    BY DEF LoopsOK
  <2>2. snapshots[s] \in Snapshot
    BY DEF TypeOK
  <2>3. \A j \in Keys : snapshots[s].handles[j] \in 0..(MaxIdles + 1)
    BY <2>2 DEF Snapshot
  <2>4. \A j \in Keys : snapshots[s].handles[j] <= lives'[j]
    BY <1>4, <2>1, <2>3, BoundsAreNats DEF LoopOK
  <2> QED BY <1>2, <2>1, <2>4 DEF LoopOK, InHand
<1>6. LivesOK'
  <2>1. ASSUME NEW u \in Recorders, recorders'[u] # NoRecord
        PROVE  recorders'[u].life <= lives'[recorders'[u].key]
    <3>1. CASE u = t
      BY <1>1, <1>4, <3>1
    <3>2. CASE u # t
      <4>1. recorders[u] \in Record /\ recorders'[u] = recorders[u]
        BY <1>1, <2>1, <3>2 DEF TypeOK
      <4>2. recorders[u].life <= lives[recorders[u].key]
        BY <2>1, <4>1 DEF LivesOK
      <4>3. recorders[u].key \in Keys /\ recorders[u].life \in Lives
        BY <4>1 DEF Record
      <4> QED BY <1>4, <4>1, <4>2, <4>3, BoundsAreNats
    <3> QED BY <3>1, <3>2
  <2>2. ASSUME NEW j \in Keys, NEW n \in Lives, n > lives'[j]
        PROVE  count'[j][n] = 0
    <3>1. n > lives[j]
      BY <1>4, <2>2, BoundsAreNats
    <3> QED BY <1>2, <3>1 DEF LivesOK
  <2>3. ASSUME NEW j \in Keys
        PROVE  Ended(j)' = Ended(j)
    BY <1>1, LifeIsLast, BoundsAreNats DEF Ended
  <2>4. \A j \in Keys : Ended(j)' + (IF seen'[j].age = "old" THEN 1 ELSE 0) <= idles'
    BY <1>2, <2>3 DEF LivesOK
  <2> QED BY <2>1, <2>2, <2>4 DEF LivesOK
<1> QED BY <1>3, <1>5, <1>6, RegisterKeepsRoom

\* The handle that a thread records into.
LEMMA HandleHeld ==
  ASSUME TypeInv, NEW t \in Recorders, Increment(t)
  PROVE  /\ recorders[t].key \in Keys /\ recorders[t].life \in Lives
         /\ recorders[t] = [key |-> recorders[t].key, life |-> recorders[t].life]
         /\ recorders[t].life <= lives[recorders[t].key]
         /\ recorders' \in [Recorders -> Record \cup {NoRecord}]
         /\ recorders'[t] = NoRecord
         /\ \A u \in Recorders \ {t} : recorders'[u] = recorders[u]
<1> USE DEF TypeInv
<1>1. recorders[t].key \in Keys
  BY DEF Increment
<1>2. recorders[t] \in Record /\ recorders[t] # NoRecord
  BY <1>1, RecordInUse
<1>3. /\ recorders' \in [Recorders -> Record \cup {NoRecord}]
      /\ recorders'[t] = NoRecord
      /\ \A u \in Recorders \ {t} : recorders'[u] = recorders[u]
  BY DEF Increment, TypeOK
<1>4. recorders[t].life <= lives[recorders[t].key]
  BY <1>2 DEF LivesOK
<1> QED BY <1>1, <1>2, <1>3, <1>4 DEF Record

\* One count more, of one life of one key, and one sample more if it is a histogram.
LEMMA IncrementCounts ==
  ASSUME TypeOK, NEW t \in Recorders, Increment(t),
         NEW k \in Keys, NEW n \in Lives, k = recorders[t].key, n = recorders[t].life
  PROVE  /\ count'[k][n] = count[k][n] + 1
         /\ \A j \in Keys, m \in Lives : j # k \/ m # n => count'[j][m] = count[j][m]
         /\ \A j \in Keys : count'[j] = [m \in Lives |-> count'[j][m]]
         /\ count' = [j \in Keys |-> count'[j]]
         /\ k \in Histograms => bucket'[k][n] = bucket[k][n] + 1
         /\ \A h \in Histograms, m \in Lives : h # k \/ m # n => bucket'[h][m] = bucket[h][m]
         /\ \A h \in Histograms : bucket'[h] = [m \in Lives |-> bucket'[h][m]]
         /\ bucket' = [h \in Histograms |-> bucket'[h]]
         /\ k \in Counters => Happened(k)' = Happened(k) + 1
         /\ \A j \in Counters : j # k => Happened(j)' = Happened(j)
<1>1. /\ count'[k][n] = count[k][n] + 1
      /\ \A j \in Keys, m \in Lives : j # k \/ m # n => count'[j][m] = count[j][m]
      /\ \A j \in Keys : count'[j] = [m \in Lives |-> count'[j][m]]
      /\ count' = [j \in Keys |-> count'[j]]
  BY DEF Increment, TypeOK
<1>2. /\ k \in Histograms => bucket'[k][n] = bucket[k][n] + 1
      /\ \A h \in Histograms, m \in Lives : h # k \/ m # n => bucket'[h][m] = bucket[h][m]
      /\ \A h \in Histograms : bucket'[h] = [m \in Lives |-> bucket'[h][m]]
      /\ bucket' = [h \in Histograms |-> bucket'[h]]
  BY DEF Increment, TypeOK
<1>3. /\ k \in Counters => Happened(k)' = Happened(k) + 1
      /\ \A j \in Counters : j # k => Happened(j)' = Happened(j)
  BY DEF Increment, Happened, Counters
<1> QED BY <1>1, <1>2, <1>3

\* The thread has had its room, and takes no more than that.
LEMMA IncrementKeepsRoom ==
  ASSUME TypeInv, NEW t \in Recorders, Increment(t)
  PROVE  /\ CountsOK'
         /\ begun' \in 0..MaxJobs /\ ended' \in 0..begun'
         /\ \A j \in Keys, m \in Lives : count'[j][m] \in 0..MaxCount
         /\ \A h \in Histograms, m \in Lives : bucket'[h][m] \in 0..MaxCount
<1> USE DEF TypeInv
<1>0. PICK k \in Keys, n \in Lives : k = recorders[t].key /\ n = recorders[t].life
  BY HandleHeld
<1> DEFINE P(j) == {u \in Recorders : recorders[u].key = j}
<1>1. /\ k \in Keys /\ n \in Lives /\ recorders[t] = [key |-> k, life |-> n]
      /\ recorders'[t] = NoRecord /\ \A u \in Recorders \ {t} : recorders'[u] = recorders[u]
  BY <1>0, HandleHeld
<1>2. /\ count'[k][n] = count[k][n] + 1
      /\ \A j \in Keys, m \in Lives : j # k \/ m # n => count'[j][m] = count[j][m]
      /\ k \in Histograms => bucket'[k][n] = bucket[k][n] + 1
      /\ \A h \in Histograms, m \in Lives : h # k \/ m # n => bucket'[h][m] = bucket[h][m]
      /\ k \in Counters => Happened(k)' = Happened(k) + 1
      /\ \A j \in Counters : j # k => Happened(j)' = Happened(j)
  BY <1>0, IncrementCounts
<1>3. ASSUME NEW j \in Keys
      PROVE  /\ Pending(j)' \in Nat /\ Pending(j) \in Nat
             /\ Pending(j)' <= Pending(j)
             /\ j = k => Pending(j)' + 1 <= Pending(j)
  <2>1. /\ IsFiniteSet(P(j)) /\ Pending(j) = Cardinality(P(j)) /\ Pending(j) \in Nat
        /\ Pending(j)' = Cardinality(P(j)')
    BY PendingIsFinite DEF Pending
  <2>2. P(j)' \subseteq P(j) \ {t}
    BY <1>1, KeysDiffer DEF NoRecord
  <2>3. j = k => t \in P(j)
    BY <1>0
  <2>4. P(j)' \subseteq P(j)
    BY <2>2
  <2> HIDE DEF P
  <2>5. IsFiniteSet(P(j)') /\ Cardinality(P(j)') <= Cardinality(P(j))
    BY <2>1, <2>4, FS_Subset
  <2>6. Cardinality(P(j)') \in Nat
    BY <2>5, FS_CardinalityType
  <2> QED BY <2>1, <2>2, <2>3, <2>5, <2>6, Loses
<1>4. ASSUME NEW h \in Histograms, NEW m \in Lives
      PROVE  count'[h][m] + Cardinality(Holders(h, m))' <= MaxSamples
  <2>1. /\ IsFiniteSet(Holders(h, m)) /\ Cardinality(Holders(h, m)) \in Nat
        /\ h \in Keys /\ count[h][m] \in Nat
        /\ count[h][m] + Cardinality(Holders(h, m)) <= MaxSamples
    BY PendingIsFinite, CountsAreNats, KeysDiffer DEF CountsOK
  <2>2. Holders(h, m)' \subseteq Holders(h, m) \ {t}
    <3>1. NoRecord # [key |-> h, life |-> m]
      BY <2>1, KeysDiffer DEF NoRecord
    <3> QED BY <1>1, <3>1 DEF Holders
  <2>3. CASE h = k /\ m = n
    <3>1. t \in Holders(h, m)
      BY <1>1, <2>3 DEF Holders
    <3>2. /\ Cardinality(Holders(h, m)') \in Nat
          /\ Cardinality(Holders(h, m)') + 1 <= Cardinality(Holders(h, m))
      BY <2>1, <2>2, <3>1, Loses
    <3>3. count'[h][m] = count[h][m] + 1
      BY <1>2, <2>1, <2>3
    <3> QED BY <2>1, <3>2, <3>3, BoundsAreNats, SMTT(30)
  <2>4. CASE ~(h = k /\ m = n)
    <3>1. Holders(h, m)' \subseteq Holders(h, m)
      BY <2>2
    <3>2. IsFiniteSet(Holders(h, m)') /\ Cardinality(Holders(h, m)') <= Cardinality(Holders(h, m))
      BY <2>1, <3>1, FS_Subset
    <3>3. Cardinality(Holders(h, m)') \in Nat
      BY <3>2, FS_CardinalityType
    <3> QED BY <1>2, <2>1, <2>4, <3>2, <3>3, BoundsAreNats
  <2> QED BY <2>3, <2>4
<1>5. "started" \in Keys /\ "finished" \in Keys /\ Counters = {"started", "finished"}
  BY KeysDiffer DEF Counters
<1>6. begun + Pending("started") <= MaxJobs /\ ended + Pending("finished") <= begun
  BY DEF CountsOK
<1>7. /\ begun' = IF k = "started" THEN begun + 1 ELSE begun
      /\ ended' = IF k = "finished" THEN ended + 1 ELSE ended
  BY <1>0 DEF Increment
<1> HIDE DEF P
<1>8. /\ begun' \in Nat /\ ended' \in Nat /\ ended' <= begun' /\ begun' <= MaxJobs
      /\ begun' + Pending("started")' <= MaxJobs
      /\ ended' + Pending("finished")' <= begun'
  <2>1. /\ Pending("started")' \in Nat /\ Pending("started") \in Nat
        /\ Pending("started")' <= Pending("started")
        /\ k = "started" => Pending("started")' + 1 <= Pending("started")
    BY <1>3, <1>5
  <2>2. /\ Pending("finished")' \in Nat /\ Pending("finished") \in Nat
        /\ Pending("finished")' <= Pending("finished")
        /\ k = "finished" => Pending("finished")' + 1 <= Pending("finished")
    BY <1>3, <1>5
  <2>3. begun \in Nat /\ ended \in Nat /\ ended <= begun /\ begun <= MaxJobs /\ MaxJobs \in Nat
    BY HappenedAreNats, BoundsAreNats
  <2>4. CASE k = "started"
    BY <1>6, <1>7, <2>1, <2>2, <2>3, <2>4
  <2>5. CASE k = "finished"
    BY <1>6, <1>7, <2>1, <2>2, <2>3, <2>5
  <2>6. CASE k # "started" /\ k # "finished"
    BY <1>6, <1>7, <2>1, <2>2, <2>3, <2>6
  <2> QED BY <2>4, <2>5, <2>6
<1>9. ASSUME NEW j \in Counters, NEW m \in Lives
      PROVE  count'[j][m] <= Happened(j)' /\ Happened(j)' <= MaxJobs
  <2>1. count[j][m] <= Happened(j) /\ count[j][m] \in Nat /\ Happened(j) \in Nat /\ j \in Keys
    BY CountsAreNats, HappenedAreNats, KeysDiffer DEF CountsOK, Happened
  <2>2. Happened(j)' <= MaxJobs /\ Happened(j)' \in Nat
    BY <1>8, BoundsAreNats DEF Happened
  <2>3. CASE j = k
    <3>1. Happened(j)' = Happened(j) + 1
      BY <1>2, <2>3
    <3>2. count'[j][m] = count[j][m] \/ count'[j][m] = count[j][m] + 1
      BY <1>1, <1>2, <2>1, <2>3
    <3> QED BY <2>1, <2>2, <3>1, <3>2
  <2>4. CASE j # k
    BY <1>2, <2>1, <2>2, <2>4
  <2> QED BY <2>3, <2>4
<1>10. ASSUME NEW j \in Keys, NEW m \in Lives
       PROVE  count'[j][m] \in Nat
  BY <1>1, <1>2, CountsAreNats
<1>11. ASSUME NEW h \in Histograms, NEW m \in Lives
       PROVE  /\ bucket'[h][m] <= count'[h][m] /\ bucket'[h][m] \in Nat
              /\ count'[h][m] <= MaxSamples
  <2>1. h \in Keys /\ bucket[h][m] \in Nat /\ count[h][m] \in Nat
    BY CountsAreNats, KeysDiffer
  <2>2. bucket[h][m] <= count[h][m]
    BY DEF CountsOK
  <2>3. /\ \/ bucket'[h][m] = bucket[h][m] /\ count'[h][m] = count[h][m]
           \/ bucket'[h][m] = bucket[h][m] + 1 /\ count'[h][m] = count[h][m] + 1
    BY <1>1, <1>2, <2>1
  <2>4. Cardinality(Holders(h, m)') \in Nat
    <3>1. Holders(h, m)' \subseteq Recorders
      BY DEF Holders
    <3> QED BY <3>1, CollectorAssumption, FS_Subset, FS_CardinalityType
  <2>5. bucket'[h][m] <= count'[h][m] /\ bucket'[h][m] \in Nat /\ count'[h][m] \in Nat
    BY <2>1, <2>2, <2>3
  <2>6. count'[h][m] + Cardinality(Holders(h, m)') <= MaxSamples
    BY <1>4
  <2> QED BY <2>4, <2>5, <2>6, BoundsAreNats
<1>12. CountsOK'
  BY <1>4, <1>8, <1>9, <1>11 DEF CountsOK
<1>13. ASSUME NEW j \in Keys, NEW m \in Lives
       PROVE  count'[j][m] \in 0..MaxCount
  <2>1. CASE j \in Counters
    <3>1. count'[j][m] <= Happened(j)' /\ Happened(j)' <= MaxJobs /\ Happened(j)' \in Nat
      BY <1>8, <1>9, <2>1 DEF Happened
    <3> QED BY <1>10, <3>1, BoundsAreNats
  <2>2. CASE j \in Histograms
    <3>1. count'[j][m] <= MaxSamples
      BY <1>11, <2>2
    <3> QED BY <1>10, <3>1, BoundsAreNats
  <2> QED BY <2>1, <2>2 DEF Keys
<1>14. \A h \in Histograms, m \in Lives : bucket'[h][m] \in 0..MaxCount
  <2> SUFFICES ASSUME NEW h \in Histograms, NEW m \in Lives
               PROVE  bucket'[h][m] \in 0..MaxCount
    OBVIOUS
  <2>1. /\ bucket'[h][m] <= count'[h][m] /\ bucket'[h][m] \in Nat
        /\ count'[h][m] <= MaxSamples /\ count'[h][m] \in Nat
    BY <1>10, <1>11, KeysDiffer
  <2> QED BY <2>1, BoundsAreNats
<1> QED BY <1>8, <1>12, <1>13, <1>14, BoundsAreNats

\* A thread records into a life its key has had, so that those to come stay empty.
LEMMA IncrementKeepsTypes ==
  ASSUME TypeInv, NEW t \in Recorders, Increment(t)
  PROVE  TypeInv'
<1> USE DEF TypeInv
<1>0. PICK k \in Keys, n \in Lives : k = recorders[t].key /\ n = recorders[t].life
  BY HandleHeld
<1>1. UNCHANGED <<life, lives, seen, summary, snapshots, idles, crossed>>
  BY DEF Increment
<1>2. /\ n <= lives[k]
      /\ recorders' \in [Recorders -> Record \cup {NoRecord}]
      /\ recorders'[t] = NoRecord /\ \A u \in Recorders \ {t} : recorders'[u] = recorders[u]
  BY <1>0, HandleHeld
<1>3. /\ \A j \in Keys, m \in Lives : j # k \/ m # n => count'[j][m] = count[j][m]
      /\ \A j \in Keys : count'[j] = [m \in Lives |-> count'[j][m]]
      /\ count' = [j \in Keys |-> count'[j]]
      /\ \A h \in Histograms : bucket'[h] = [m \in Lives |-> bucket'[h][m]]
      /\ bucket' = [h \in Histograms |-> bucket'[h]]
  BY <1>0, IncrementCounts
<1>4. count' \in [Keys -> [Lives -> 0..MaxCount]]
  BY <1>3, IncrementKeepsRoom
<1>5. bucket' \in [Histograms -> [Lives -> 0..MaxCount]]
  BY <1>3, IncrementKeepsRoom
<1>6. TypeOK'
  BY <1>1, <1>2, <1>4, <1>5, IncrementKeepsRoom DEF TypeOK
<1>7. LoopsOK'
  BY <1>1 DEF LoopsOK, LoopOK, InHand
<1>8. LivesOK'
  <2>1. ASSUME NEW u \in Recorders, recorders'[u] # NoRecord
        PROVE  recorders'[u].life <= lives'[recorders'[u].key]
    BY <1>1, <1>2, <2>1 DEF LivesOK
  <2>2. ASSUME NEW j \in Keys, NEW m \in Lives, m > lives'[j]
        PROVE  count'[j][m] = 0
    <3>1. j # k \/ m # n
      BY <1>1, <1>2, <2>2, LifeIsLast, BoundsAreNats
    <3> QED BY <1>1, <1>3, <2>2, <3>1 DEF LivesOK
  <2>3. \A j \in Keys : Ended(j)' + (IF seen'[j].age = "old" THEN 1 ELSE 0) <= idles'
    BY <1>1 DEF LivesOK, Ended
  <2> QED BY <2>1, <2>2, <2>3 DEF LivesOK
<1> QED BY <1>6, <1>7, <1>8, IncrementKeepsRoom

\* Each idle period may end one life more of each key.
LEMMA IdleKeepsTypes ==
  ASSUME TypeInv, Idle
  PROVE  TypeInv'
<1> USE DEF TypeInv
<1>1. UNCHANGED <<life, lives, count, bucket, summary, recorders, snapshots, begun, ended,
                  crossed>>
  BY DEF Idle
<1>2. idles \in 0..MaxIdles /\ idles' = idles + 1 /\ idles < MaxIdles
  BY DEF Idle, TypeOK
<1>3. idles' \in 0..MaxIdles
  BY <1>2, BoundsAreNats
<1>4. seen' \in [Keys -> Seen \cup {Unseen}]
  <2>1. \A k \in Keys : seen[k] # Unseen => [seen[k] EXCEPT !.age = "old"] \in Seen
    BY DEF TypeOK, Seen
  <2> QED BY <2>1 DEF Idle
<1>5. TypeOK'
  BY <1>1, <1>3, <1>4 DEF TypeOK
<1>6. LoopsOK' /\ CountsOK'
  BY <1>1 DEF LoopsOK, LoopOK, InHand, CountsOK, Happened, Holders, Pending
<1>7. ASSUME NEW k \in Keys
      PROVE  Ended(k)' + (IF seen'[k].age = "old" THEN 1 ELSE 0) <= idles'
  <2>1. Ended(k) + (IF seen[k].age = "old" THEN 1 ELSE 0) <= idles
    BY DEF LivesOK
  <2>2. Ended(k)' = Ended(k) /\ Ended(k) \in Int
    BY <1>1, LifeIsLast, BoundsAreNats DEF Ended
  <2> QED BY <1>2, <2>1, <2>2, BoundsAreNats
<1>8. LivesOK'
  BY <1>1, <1>7 DEF LivesOK
<1> QED BY <1>5, <1>6, <1>8

\* Nothing is there at the start.
LEMMA InitTypes == Init => TypeInv
<1> SUFFICES ASSUME Init PROVE TypeInv
  OBVIOUS
<1> USE DEF Init
<1>1. TypeOK
  <2>1. /\ 0 \in 0..(MaxIdles + 1) /\ 0 \in 0..MaxCount /\ 0 \in Nat /\ 0 \in 0..MaxJobs
        /\ 0 \in 0..0 /\ 0 \in 0..MaxIdles
    BY BoundsAreNats
  <2> QED BY <2>1 DEF TypeOK
<1>2. LoopsOK
  BY DEF LoopsOK
<1>3. LivesOK
  BY BoundsAreNats DEF LivesOK, Ended, Unseen
<1>4. CountsOK
  <2>1. ASSUME NEW k \in Keys, NEW n \in Lives
        PROVE  Pending(k) = 0 /\ Cardinality(Holders(k, n)) = 0
    <3>1. {t \in Recorders : recorders[t].key = k} = {} /\ Holders(k, n) = {}
      BY KeysDiffer DEF NoRecord, Holders
    <3> QED BY <3>1, FS_EmptySet DEF Pending
  <2>2. 1 \in Lives
    BY BoundsAreNats
  <2>3. Pending("started") = 0 /\ Pending("finished") = 0
    BY <2>1, <2>2, KeysDiffer
  <2>4. \A k \in Counters, n \in Lives : count[k][n] <= Happened(k)
    BY KeysDiffer DEF Happened
  <2>5. \A h \in Histograms, n \in Lives :
          /\ count[h][n] + Cardinality(Holders(h, n)) <= MaxSamples
          /\ bucket[h][n] <= count[h][n]
    BY <2>1, KeysDiffer, BoundsAreNats
  <2>6. begun + Pending("started") <= MaxJobs /\ ended + Pending("finished") <= begun
    BY <2>3, BoundsAreNats
  <2> QED BY <2>4, <2>5, <2>6 DEF CountsOK
<1> QED BY <1>1, <1>2, <1>3, <1>4 DEF TypeInv

\* Every step keeps the types, the loops, the lives and the room.
LEMMA TypeInvStable == TypeInv /\ [Next]_vars => TypeInv'
<1> SUFFICES ASSUME TypeInv, [Next]_vars PROVE TypeInv'
  OBVIOUS
<1>1. CASE \E t \in Recorders : Increment(t) \/ \E k \in Keys : Register(t, k)
  BY <1>1, IncrementKeepsTypes, RegisterKeepsTypes
<1>2. CASE \E s \in Snapshots : Begin(s) \/ SnapshotStep(s)
  BY <1>2, LooksKeepTypes, JudgingKeepsTypes, TakingKeepsTypes DEF SnapshotStep
<1>3. CASE Idle
  BY <1>3, IdleKeepsTypes
<1>4. CASE UNCHANGED vars
  BY <1>4 DEF vars, TypeInv, TypeOK, LoopsOK, LoopOK, InHand, LivesOK, Ended, CountsOK, Happened,
     Holders, Pending
<1> QED BY <1>1, <1>2, <1>3, <1>4 DEF Next

\* All counts and handles stay in their ranges, no more jobs are finished than were
\* started, and the registry's handle of a key is the one it got last.
THEOREM TypeCorrect == Spec => []TypeOK
<1>1. TypeInv => TypeOK
  BY DEF TypeInv
<1> QED BY <1>1, InitTypes, TypeInvStable, PTL DEF Spec

-----------------------------------------------------------------------------
(* What a snapshot shows as running. *)

\* A counter that was never dropped has counted all that happened.
CountsAll == \A k \in Counters : lives[k] <= 1 => count[k][1] = Happened(k)

\* A snapshot that is still reading counters, or has just read them.
ReadsCounters(q) == q.pc = "counters" \/ (InHand(q) /\ q.key \in Counters)

\* It is still to read the counter k.
Before(q, k) == k \in q.todo \/ (q.pc \in {"judge", "take"} /\ q.key = k)

HappenedAt(q, k) == IF k = "started" THEN q.begun ELSE q.ended

\* The counter is still to be read, or had counted nothing when the snapshot began,
\* or was read at a value it has had since.
ReadOK(q, k) ==
  /\ HappenedAt(q, k) <= Happened(k)
  /\ q.read[k] = NotShown => Before(q, k) \/ HappenedAt(q, k) = 0
  /\ q.read[k] # NotShown => HappenedAt(q, k) <= q.read[k] /\ q.read[k] <= Happened(k)

ReadsBetween ==
  \A s \in Snapshots, k \in Counters :
    ReadsCounters(snapshots[s]) /\ ~Dropped(k) => ReadOK(snapshots[s], k)

RunningInv == TypeInv /\ CountsAll /\ ReadsBetween

\* What both counters have counted.
LEMMA HappenedIsNat ==
  ASSUME TypeOK, NEW k \in Counters
  PROVE  Happened(k) \in Nat /\ Happened(k) <= MaxJobs
BY HappenedAreNats, BoundsAreNats DEF Happened

\* The values a snapshot keeps are numbers.
LEMMA ReadsAreNats ==
  ASSUME NEW q \in Snapshot, NEW k \in Counters
  PROVE  /\ HappenedAt(q, k) \in Nat /\ q.read[k] \in 0..NotShown
         /\ q.begun \in Nat /\ q.ended \in Nat
<1>1. q.begun \in 0..MaxJobs /\ q.ended \in 0..MaxJobs /\ q.read \in [Counters -> 0..NotShown]
  BY DEF Snapshot
<1> QED BY <1>1, BoundsAreNats DEF HappenedAt

\* A snapshot that reads counters is in use.
LEMMA ReaderInUse ==
  ASSUME TypeOK, NEW s \in Snapshots, ReadsCounters(snapshots[s])
  PROVE  snapshots[s] \in Snapshot
<1>1. snapshots[s].pc # "none"
  BY DEF ReadsCounters, InHand
<1> QED BY <1>1, SnapshotInUse

\* A dropped counter never counts as one that was not dropped again, and what
\* happened stays happened.
LEMMA DroppedForGood ==
  ASSUME TypeInv, Next, NEW k \in Counters
  PROVE  /\ Dropped(k) => Dropped(k)'
         /\ Happened(k) <= Happened(k)' /\ Happened(k)' \in Nat
         /\ lives'[k] <= 1 => lives[k] <= 1
<1> USE DEF TypeInv
<1>1. k \in Keys /\ Happened(k) \in Nat
  BY KeysDiffer, HappenedIsNat
<1>2. lives[k] \in Nat
  BY <1>1, LifeIsLast, BoundsAreNats
<1>3. ASSUME NEW t \in Recorders, Increment(t)
      PROVE  /\ Dropped(k) => Dropped(k)'
             /\ Happened(k) <= Happened(k)' /\ Happened(k)' \in Nat
             /\ lives'[k] <= 1 => lives[k] <= 1
  <2>1. UNCHANGED <<lives, life>>
    BY <1>3 DEF Increment
  <2>2. Happened(k)' = Happened(k) \/ Happened(k)' = Happened(k) + 1
    BY <1>3 DEF Increment, Happened
  <2> QED BY <1>1, <2>1, <2>2 DEF Dropped
<1>4. ASSUME NEW t \in Recorders, NEW j \in Keys, Register(t, j)
      PROVE  /\ Dropped(k) => Dropped(k)'
             /\ Happened(k) <= Happened(k)' /\ Happened(k)' \in Nat
             /\ lives'[k] <= 1 => lives[k] <= 1
  <2>1. Happened(k)' = Happened(k)
    BY <1>4 DEF Register, Happened
  <2>2. /\ lives'[j] = IF life[j] = 0 THEN lives[j] + 1 ELSE lives[j]
        /\ \A i \in Keys \ {j} : lives'[i] = lives[i] /\ life'[i] = life[i]
        /\ life'[j] = lives'[j]
    BY <1>4, RegisterCounts
  <2>3. CASE j = k
    BY <1>1, <1>2, <2>1, <2>2, <2>3, LifeIsLast DEF Dropped
  <2>4. CASE j # k
    BY <1>1, <1>2, <2>1, <2>2, <2>4 DEF Dropped
  <2> QED BY <2>3, <2>4
<1>5. ASSUME NEW s \in Snapshots, Begin(s) \/ SnapshotStep(s)
      PROVE  /\ Dropped(k) => Dropped(k)'
             /\ Happened(k) <= Happened(k)' /\ Happened(k)' \in Nat
             /\ lives'[k] <= 1 => lives[k] <= 1
  <2>1. lives' = lives /\ begun' = begun /\ ended' = ended
    BY <1>5 DEF Begin, SnapshotStep, Pick, Drop, Keep, Read, Drain, Forget, BeginHistograms, Answer
  <2>2. life'[k] = life[k] \/ life'[k] = 0
    BY <1>1, <1>5 DEF Begin, SnapshotStep, Pick, Drop, Keep, Read, Drain, Forget,
       BeginHistograms, Answer, TypeOK
  <2> QED BY <1>1, <1>2, <2>1, <2>2 DEF Dropped, Happened
<1>6. CASE Idle
  BY <1>1, <1>6 DEF Idle, Dropped, Happened
<1> QED BY <1>3, <1>4, <1>5, <1>6 DEF Next

\* As long as a key has had one life, each thread records into that one.
LEMMA CountsAllStable ==
  ASSUME TypeInv, CountsAll, Next
  PROVE  CountsAll'
<1> USE DEF TypeInv
<1> SUFFICES ASSUME NEW k \in Counters, lives'[k] <= 1
             PROVE  count'[k][1] = Happened(k)'
  BY DEF CountsAll
<1>1. k \in Keys /\ 1 \in Lives /\ lives[k] <= 1
  BY DroppedForGood, KeysDiffer, BoundsAreNats
<1>2. count[k][1] = Happened(k)
  BY <1>1 DEF CountsAll
<1>3. ASSUME NEW t \in Recorders, Increment(t)
      PROVE  count'[k][1] = Happened(k)'
  <2>0. PICK j \in Keys, n \in Lives : j = recorders[t].key /\ n = recorders[t].life
    BY <1>3, HandleHeld
  <2>1. n <= lives[j]
    BY <1>3, <2>0, HandleHeld
  <2>2. /\ count'[j][n] = count[j][n] + 1
        /\ \A i \in Keys, m \in Lives : i # j \/ m # n => count'[i][m] = count[i][m]
        /\ j \in Counters => Happened(j)' = Happened(j) + 1
        /\ \A i \in Counters : i # j => Happened(i)' = Happened(i)
    BY <1>3, <2>0, IncrementCounts
  <2>3. CASE j = k
    <3>1. n = 1
      BY <1>1, <2>1, <2>3, LifeIsLast, BoundsAreNats
    <3>2. Happened(k)' = Happened(k) + 1
      BY <2>2, <2>3
    <3> QED BY <1>2, <2>2, <2>3, <3>1, <3>2
  <2>4. CASE j # k
    <3>1. count'[k][1] = count[k][1] /\ Happened(k)' = Happened(k)
      BY <1>1, <2>2, <2>4
    <3> QED BY <1>2, <3>1
  <2> QED BY <2>3, <2>4
<1>4. CASE ~\E t \in Recorders : Increment(t)
  <2>1. UNCHANGED <<count, begun, ended>>
    <3>1. ASSUME NEW t \in Recorders, NEW j \in Keys, Register(t, j)
          PROVE  UNCHANGED <<count, begun, ended>>
      BY <3>1 DEF Register
    <3>2. ASSUME NEW s \in Snapshots, Begin(s)
          PROVE  UNCHANGED <<count, begun, ended>>
      BY <3>2 DEF Begin
    <3>3. ASSUME NEW s \in Snapshots, SnapshotStep(s)
          PROVE  UNCHANGED <<count, begun, ended>>
      BY <3>3 DEF SnapshotStep, Pick, Drop, Keep, Read, Drain, Forget, BeginHistograms, Answer
    <3>4. CASE Idle
      BY <3>4 DEF Idle
    <3> QED BY <1>4, <3>1, <3>2, <3>3, <3>4 DEF Next
  <2> QED BY <1>2, <2>1 DEF Happened
<1> QED BY <1>3, <1>4

\* A snapshot that did not move can only be further behind.
LEMMA OthersRead ==
  ASSUME TypeInv, ReadsBetween, Next, NEW s \in Snapshots, NEW k \in Counters,
         snapshots'[s] = snapshots[s], ReadsCounters(snapshots[s])', ~Dropped(k)'
  PROVE  ReadOK(snapshots[s], k)'
<1> USE DEF TypeInv
<1> DEFINE q == snapshots[s]
<1>1. ReadsCounters(q) /\ ~Dropped(k)
  BY DroppedForGood DEF ReadsCounters, InHand
<1>2. ReadOK(q, k) /\ q \in Snapshot
  BY <1>1, ReaderInUse DEF ReadsBetween
<1>3. Happened(k) <= Happened(k)' /\ Happened(k) \in Nat /\ Happened(k)' \in Nat
  BY DroppedForGood, HappenedIsNat
<1>4. HappenedAt(q, k) \in Nat /\ q.read[k] \in 0..NotShown
  BY <1>2, ReadsAreNats
<1>5. HappenedAt(q, k)' = HappenedAt(q, k) /\ Before(q, k)' = Before(q, k)
  BY DEF HappenedAt, Before
<1>6. HappenedAt(q, k)' <= Happened(k)'
  BY <1>2, <1>3, <1>4, <1>5 DEF ReadOK
<1>7. q.read[k] # NotShown => q.read[k] <= Happened(k)'
  BY <1>2, <1>3, <1>4, BoundsAreNats DEF ReadOK
<1> QED BY <1>2, <1>5, <1>6, <1>7 DEF ReadOK

\* A snapshot that has gone on to the next key, or back to the head of the loop,
\* having read the counter or left it for dropped.
LEMMA MoverReads ==
  ASSUME TypeInv, CountsAll, ReadsBetween, NEW s \in Snapshots, NEW k \in Counters,
         Begin(s) \/ SnapshotStep(s), ReadsCounters(snapshots[s])', ~Dropped(k)'
  PROVE  ReadOK(snapshots[s], k)'
<1> USE DEF TypeInv
<1> DEFINE q == snapshots[s]
<1>0. k \in Keys /\ Happened(k) \in Nat /\ Happened(k) <= MaxJobs /\ 1 \in Lives
  BY HappenedIsNat, KeysDiffer, BoundsAreNats
<1>1. /\ ~Dropped(k) /\ Happened(k)' = Happened(k)
  <2>1. Next
    BY DEF Next
  <2>2. begun' = begun /\ ended' = ended
    BY DEF Begin, SnapshotStep, Pick, Drop, Keep, Read, Drain, Forget, BeginHistograms, Answer
  <2> QED BY <2>1, <2>2, DroppedForGood DEF Happened
<1>2. lives[k] \in {0, 1} /\ lives[k] = life[k] /\ count[k][1] = Happened(k)
  BY <1>0, <1>1, LifeIsLast, BoundsAreNats DEF Dropped, CountsAll
<1>3. CASE Begin(s)
  <2> DEFINE new == [pc |-> "counters", handles |-> Handles(Counters), todo |-> Live(Counters),
                     key |-> "started", gen |-> 0, read |-> NothingRead, begun |-> begun,
                     ended |-> ended]
  <2>1. snapshots'[s] = new
    BY <1>3 DEF Begin, TypeOK
  <2>2. new.read[k] = NotShown /\ HappenedAt(new, k) = Happened(k)
    BY DEF NothingRead, HappenedAt, Happened
  <2>3. new.todo = Live(Counters)
    OBVIOUS
  <2>4. life[k] = 0 => Happened(k) = 0
    <3>1. life[k] = 0 => 1 > lives[k]
      BY <1>2
    <3> QED BY <1>0, <1>2, <3>1 DEF LivesOK
  <2>5. Before(new, k) \/ Happened(k) = 0
    BY <2>3, <2>4 DEF Before, Live
  <2>6. /\ HappenedAt(q, k)' = Happened(k) /\ q'.read[k] = NotShown
        /\ Before(q, k)' \/ Happened(k) = 0
    BY <2>1, <2>2, <2>5 DEF HappenedAt, Before
  <2> QED BY <1>0, <1>1, <2>6 DEF ReadOK
<1>4. CASE BeginHistograms(s) \/ Answer(s)
  <2>1. snapshots'[s].pc \in {"histograms", "none"}
    <3>1. CASE BeginHistograms(s)
      <4>1. q \in Snapshot
        BY <3>1, SnapshotInUse DEF BeginHistograms, CountersRead
      <4> QED BY <3>1, <4>1 DEF BeginHistograms, TypeOK, Snapshot
    <3>2. CASE Answer(s)
      BY <3>2 DEF Answer, TypeOK, NoSnapshot
    <3> QED BY <1>4, <3>1, <3>2
  <2> QED BY <2>1 DEF ReadsCounters, InHand
<1>5. ASSUME NEW j \in Keys, Pick(s, j)
      PROVE  ReadOK(snapshots[s], k)'
  <2> DEFINE new == [q EXCEPT !.pc = "judge", !.todo = @ \ {j}, !.key = j,
                              !.gen = count[j][q.handles[j]]]
  <2>1. q \in Snapshot /\ new \in Snapshot /\ snapshots'[s] = new
    <3>1. snapshots' = [snapshots EXCEPT ![s] = new]
      BY <1>5, PickMoves
    <3> QED BY <1>5, <3>1, PickMoves DEF TypeOK
  <2>2. /\ new.pc = "judge" /\ new.todo = q.todo \ {j} /\ new.key = j /\ new.read = q.read
        /\ new.begun = q.begun /\ new.ended = q.ended
    BY <2>1 DEF Snapshot
  <2> HIDE DEF new
  <2>3. j \in Counters /\ q.pc = "counters"
    BY <1>5, <2>1, <2>2 DEF ReadsCounters, InHand, Pick, Loop
  <2>4. ReadOK(q, k)
    BY <1>1, <2>3 DEF ReadsBetween, ReadsCounters
  <2>5. HappenedAt(q, k)' = HappenedAt(q, k) /\ (Before(q, k) => Before(q, k)')
    BY <2>1, <2>2, <2>3 DEF HappenedAt, Before
  <2>6. q'.read = q.read
    BY <2>1, <2>2
  <2> QED BY <1>1, <2>4, <2>5, <2>6 DEF ReadOK
<1>6. CASE Keep(s)
  <2> DEFINE new == [q EXCEPT !.pc = "take", !.gen = 0]
  <2>1. q.pc = "judge" /\ q \in Snapshot
    BY <1>6, SnapshotInUse DEF Keep
  <2>2. snapshots'[s] = new
    <3>1. Goto(s, "take")
      BY <1>6 DEF Keep
    <3> QED BY <2>1, <3>1, GotoMoves DEF TypeOK
  <2>3. /\ new.pc = "take" /\ new.todo = q.todo /\ new.key = q.key /\ new.read = q.read
        /\ new.begun = q.begun /\ new.ended = q.ended
    BY <2>1 DEF Snapshot
  <2> HIDE DEF new
  <2>4. ReadOK(q, k)
    BY <1>1, <2>1, <2>2, <2>3 DEF ReadsBetween, ReadsCounters, InHand
  <2>5. /\ HappenedAt(q, k)' = HappenedAt(q, k) /\ (Before(q, k) => Before(q, k)')
        /\ q'.read = q.read
    BY <2>1, <2>2, <2>3 DEF HappenedAt, Before
  <2> QED BY <1>1, <2>4, <2>5 DEF ReadOK
<1>7. CASE Drop(s) \/ Read(s) \/ Drain(s) \/ Forget(s)
  <2>1. InHand(q)
    BY <1>7 DEF Drop, Read, Drain, Forget, InHand
  <2>2. /\ q \in Snapshot /\ q.key \in Keys /\ q.read \in [Counters -> 0..NotShown]
        /\ q.pc = "forget" => q.key \in Histograms
    BY <2>1, KeyInHand
  <2>3. q.key \in Counters /\ (Drop(s) \/ Read(s))
    <3>1. CASE Drop(s) /\ q.key \notin Counters
      <4>1. Goto(s, "forget")
        BY <3>1 DEF Drop
      <4>2. snapshots'[s] = [q EXCEPT !.pc = "forget", !.gen = 0]
        BY <2>2, <4>1, GotoMoves DEF TypeOK
      <4>3. snapshots'[s].pc = "forget" /\ snapshots'[s].key = q.key
        BY <2>2, <4>2 DEF Snapshot
      <4> QED BY <3>1, <4>3 DEF ReadsCounters, InHand
    <3>2. CASE Drain(s) \/ Forget(s)
      <4>1. q.key \in Histograms /\ Return(s, q.read)
        BY <2>2, <3>2 DEF Drain, Forget
      <4>2. snapshots'[s].pc = "histograms"
        BY <2>2, <4>1, ReturnMoves, KeysDiffer DEF Loop, TypeOK
      <4> QED BY <4>2 DEF ReadsCounters, InHand
    <3> QED BY <1>7, <3>1, <3>2 DEF Read
  <2>4. ReadOK(q, k)
    BY <1>1, <2>1, <2>3 DEF ReadsBetween, ReadsCounters
  <2>5. CASE Drop(s)
    <3>1. life' = [life EXCEPT ![q.key] = 0] /\ life[q.key] # 0 /\ lives' = lives
      BY <2>5 DEF Drop
    <3>2. k # q.key
      BY <1>0, <1>2, <3>1 DEF Dropped, TypeOK
    <3>3. Return(s, q.read)
      BY <2>3, <2>5 DEF Drop
    <3>4. PICK new \in Snapshot :
            /\ snapshots' = [snapshots EXCEPT ![s] = new]
            /\ new.todo = q.todo /\ new.read = q.read
            /\ new.begun = q.begun /\ new.ended = q.ended
      BY <2>2, <3>3, ReturnMoves
    <3>5. /\ HappenedAt(q, k)' = HappenedAt(q, k) /\ (Before(q, k) => Before(q, k)')
          /\ q'.read = q.read
      BY <3>2, <3>4 DEF HappenedAt, Before, TypeOK
    <3> QED BY <1>1, <2>4, <3>5 DEF ReadOK
  <2>6. CASE Read(s)
    <3> DEFINE n == q.handles[q.key]
               read == [q.read EXCEPT ![q.key] = count[q.key][n]]
    <3>1. Return(s, read) /\ n \in Lives /\ q.pc = "take"
      BY <2>1, <2>6, KeyInHand DEF Read
    <3>2. count[q.key][n] \in 0..NotShown /\ count[q.key][n] # NotShown
      <4>1. count[q.key][n] \in 0..MaxCount
        BY <2>2, <3>1 DEF TypeOK
      <4> QED BY <4>1, BoundsAreNats
    <3>3. read \in [Counters -> 0..NotShown]
      BY <2>2, <2>3, <3>2
    <3> HIDE DEF read
    <3>4. PICK new \in Snapshot :
            /\ snapshots' = [snapshots EXCEPT ![s] = new]
            /\ new.todo = q.todo /\ new.read = read
            /\ new.begun = q.begun /\ new.ended = q.ended
      BY <2>2, <3>1, <3>3, ReturnMoves
    <3> USE DEF read
    <3>5. /\ HappenedAt(q, k)' = HappenedAt(q, k) /\ q'.read = read
          /\ k # q.key => (Before(q, k) => Before(q, k)')
      BY <3>4 DEF HappenedAt, Before, TypeOK
    <3>6. CASE k # q.key
      <4>1. q'.read[k] = q.read[k]
        BY <2>2, <3>5, <3>6
      <4> QED BY <1>1, <2>4, <3>5, <3>6, <4>1 DEF ReadOK
    <3>7. CASE k = q.key
      <4>1. n <= lives[k]
        BY <2>2, <3>7, SnapshotsDiffer DEF LoopsOK, LoopOK
      <4>2. n = 1
        BY <1>2, <3>1, <4>1, BoundsAreNats
      <4>3. q'.read[k] = Happened(k) /\ q'.read[k] # NotShown
        BY <1>2, <2>2, <2>3, <3>2, <3>5, <3>7, <4>2
      <4>4. HappenedAt(q, k) <= Happened(k)
        BY <2>4 DEF ReadOK
      <4>5. HappenedAt(q, k)' <= Happened(k)'
        BY <1>1, <3>5, <4>4
      <4>6. q'.read[k] = Happened(k)'
        BY <1>1, <4>3
      <4> QED BY <1>0, <1>1, <4>3, <4>5, <4>6 DEF ReadOK
    <3> QED BY <3>6, <3>7
  <2> QED BY <2>3, <2>5, <2>6
<1> QED BY <1>3, <1>4, <1>5, <1>6, <1>7 DEF SnapshotStep

\* Every step keeps what has been read between what was and what is.
LEMMA RunningInvStable == RunningInv /\ [Next]_vars => RunningInv'
<1> SUFFICES ASSUME RunningInv, [Next]_vars PROVE RunningInv'
  OBVIOUS
<1>1. TypeInv'
  BY TypeInvStable DEF RunningInv
<1>2. CASE Next
  <2>1. CountsAll'
    BY <1>2, CountsAllStable DEF RunningInv
  <2>2. ASSUME NEW s \in Snapshots, NEW k \in Counters,
               ReadsCounters(snapshots[s])', ~Dropped(k)'
        PROVE  ReadOK(snapshots[s], k)'
    <3>1. CASE Begin(s) \/ SnapshotStep(s)
      BY <2>2, <3>1, MoverReads DEF RunningInv
    <3>2. CASE ~(Begin(s) \/ SnapshotStep(s))
      <4>1. snapshots'[s] = snapshots[s]
        <5>1. CASE \E r \in Snapshots : Begin(r) \/ SnapshotStep(r)
          <6>1. PICK r \in Snapshots : Begin(r) \/ SnapshotStep(r)
            BY <5>1
          <6>2. r # s
            BY <3>2, <6>1
          <6> QED BY <6>1, <6>2 DEF Begin, SnapshotStep, Pick, Drop, Keep, Read, Drain, Forget,
                 BeginHistograms, Answer, Goto, Return, RunningInv, TypeInv, TypeOK
        <5>2. CASE ~\E r \in Snapshots : Begin(r) \/ SnapshotStep(r)
          BY <1>2, <5>2 DEF Next, Increment, Register, Idle
        <5> QED BY <5>1, <5>2
      <4> QED BY <1>2, <2>2, <4>1, OthersRead DEF RunningInv
    <3> QED BY <3>1, <3>2
  <2> QED BY <1>1, <2>1, <2>2 DEF RunningInv, ReadsBetween
<1>3. CASE UNCHANGED vars
  BY <1>1, <1>3 DEF vars, RunningInv, CountsAll, Happened, ReadsBetween, ReadsCounters, InHand,
     Dropped, ReadOK, HappenedAt, Before
<1> QED BY <1>2, <1>3

\* The two counters of a pair are read at two moments, in either order, while jobs
\* start and finish; the difference is still between the jobs begun before the
\* snapshot less all that have ended by now, and those that ran in it at some time,
\* for as long as neither counter was dropped for being idle.
THEOREM RunningAlwaysNear == Spec => []RunningIsNear
<1>1. Init => RunningInv
  <2> SUFFICES ASSUME Init PROVE RunningInv
    OBVIOUS
  <2>1. 1 \in Lives /\ TypeInv
    BY InitTypes, BoundsAreNats
  <2>2. CountsAll
    BY <2>1, KeysDiffer DEF Init, CountsAll, Happened
  <2>3. ReadsBetween
    BY DEF Init, ReadsBetween, ReadsCounters, InHand, NoSnapshot
  <2> QED BY <2>1, <2>2, <2>3 DEF RunningInv
<1>2. RunningInv => RunningIsNear
  <2> SUFFICES ASSUME RunningInv, NEW s \in Snapshots, CountersRead(s),
                      \A k \in Counters : ~Dropped(k)
               PROVE  /\ snapshots[s].begun - ended <= Running(s)
                      /\ Running(s) <= begun - snapshots[s].ended
    BY DEF RunningIsNear
  <2> DEFINE q == snapshots[s]
             value(k) == IF q.read[k] = NotShown THEN 0 ELSE q.read[k]
  <2>1. q.pc = "counters" /\ q.todo = {} /\ ReadsCounters(q)
    BY DEF CountersRead, ReadsCounters
  <2>2. q \in Snapshot
    BY <2>1, ReaderInUse DEF RunningInv, TypeInv
  <2>3. ASSUME NEW k \in Counters
        PROVE  /\ value(k) \in Nat /\ HappenedAt(q, k) <= value(k) /\ value(k) <= Happened(k)
               /\ HappenedAt(q, k) \in Nat /\ Happened(k) \in Nat
    <3>1. ReadOK(q, k) /\ ~Before(q, k)
      BY <2>1 DEF RunningInv, ReadsBetween, Before
    <3>2. /\ HappenedAt(q, k) \in Nat /\ q.read[k] \in 0..NotShown /\ Happened(k) \in Nat
      BY <2>2, ReadsAreNats, HappenedIsNat DEF RunningInv, TypeInv
    <3> QED BY <3>1, <3>2, BoundsAreNats DEF ReadOK
  <2>4. /\ HappenedAt(q, "started") = q.begun /\ Happened("started") = begun
        /\ HappenedAt(q, "finished") = q.ended /\ Happened("finished") = ended
    BY DEF HappenedAt, Happened
  <2>5. Running(s) = IF value("finished") > value("started") THEN 0
                     ELSE value("started") - value("finished")
    BY DEF Running, Merge
  <2>6. /\ value("started") \in Nat /\ value("finished") \in Nat
        /\ q.begun \in Nat /\ q.ended \in Nat
        /\ q.begun <= value("started") /\ value("started") <= begun
        /\ q.ended <= value("finished") /\ value("finished") <= ended
    BY <2>3, <2>4, KeysDiffer
  <2>7. begun \in Nat /\ ended \in Nat /\ ended <= begun
    BY HappenedAreNats DEF RunningInv, TypeInv
  <2> HIDE DEF value
  <2>8. PICK started \in Nat, finished \in Nat :
          started = value("started") /\ finished = value("finished")
    BY <2>6
  <2>9. Running(s) = IF finished > started THEN 0 ELSE started - finished
    BY <2>5, <2>8
  <2>10. /\ q.begun <= started /\ started <= begun
         /\ q.ended <= finished /\ finished <= ended
    BY <2>6, <2>8
  <2>11. CASE finished > started
    BY <2>6, <2>7, <2>9, <2>10, <2>11
  <2>12. CASE ~(finished > started)
    BY <2>6, <2>7, <2>9, <2>10, <2>12
  <2> QED BY <2>11, <2>12
<1> QED BY <1>1, <1>2, RunningInvStable, PTL DEF Spec

-----------------------------------------------------------------------------
(* What becomes of a sample. *)

\* A histogram whose summary is about to be removed has had nothing of its present
\* life drained into it.
NotDrained ==
  crossed \/ \A h \in Live(Histograms) : Crosses(h) => count[h][life[h]] <= bucket[h][life[h]]

SamplesInv == TypeInv /\ SamplesAreKept /\ NotDrained

\* The steps in which no sample moves and no summary comes to be about to go.
LEMMA SamplesUntouched ==
  ASSUME SamplesAreKept, NotDrained,
         UNCHANGED <<life, count, bucket, summary, crossed>>,
         \A h \in Histograms : Crosses(h)' => Crosses(h)
  PROVE  SamplesAreKept' /\ NotDrained'
BY DEF SamplesAreKept, NotDrained, Live

\* A snapshot that moves on, other than to forget, is about to remove no summary.
LEMMA MoversCrossNothing ==
  ASSUME TypeOK, NEW s \in Snapshots, NEW q \in Snapshot \cup {NoSnapshot}, q.pc # "forget",
         snapshots' = [snapshots EXCEPT ![s] = q]
  PROVE  \A h \in Histograms : Crosses(h)' => Crosses(h)
<1>1. snapshots'[s].pc # "forget" /\ \A r \in Snapshots \ {s} : snapshots'[r] = snapshots[r]
  BY OneMoves
<1> QED BY <1>1 DEF Crosses

\* The life of a histogram in the registry, and what it holds.
LEMMA LiveHistogram ==
  ASSUME TypeOK, NEW h \in Live(Histograms)
  PROVE  /\ h \in Histograms /\ h \in Keys /\ life[h] \in Lives
         /\ count[h][life[h]] \in Nat /\ bucket[h][life[h]] \in Nat /\ summary[h] \in Nat
<1>1. h \in Histograms /\ h \in Keys /\ life[h] # 0
  BY KeysDiffer DEF Live
<1>2. life[h] \in Lives
  BY <1>1, LifeIsLast, BoundsAreNats
<1> QED BY <1>1, <1>2, CountsAreNats

\* A sample goes into the bucket of its life; a new life has none.
LEMMA RecordingKeepsSamples ==
  ASSUME SamplesInv, NEW t \in Recorders, Increment(t) \/ \E k \in Keys : Register(t, k)
  PROVE  SamplesAreKept' /\ NotDrained'
<1> USE DEF SamplesInv, TypeInv
<1>1. CASE crossed
  <2>1. crossed'
    BY <1>1 DEF Increment, Register
  <2> QED BY <2>1 DEF SamplesAreKept, NotDrained
<1>2. UNCHANGED <<summary, snapshots, crossed>>
  BY DEF Increment, Register
<1>3. \A h \in Histograms : Crosses(h)' = Crosses(h)
  BY <1>2 DEF Crosses
<1>4. ASSUME ~crossed, NEW h \in Live(Histograms)'
      PROVE  /\ count'[h][life'[h]] <= bucket'[h][life'[h]] + summary'[h]
             /\ Crosses(h) => count'[h][life'[h]] <= bucket'[h][life'[h]]
  <2>1. h \in Histograms /\ h \in Keys /\ life'[h] # 0
    BY KeysDiffer DEF Live
  <2>2. CASE Increment(t)
    <3>0. PICK k \in Keys, n \in Lives : k = recorders[t].key /\ n = recorders[t].life
      BY <2>2, HandleHeld
    <3>1. life' = life /\ h \in Live(Histograms)
      BY <2>1, <2>2 DEF Increment, Live
    <3>2. /\ life[h] \in Lives /\ count[h][life[h]] \in Nat /\ bucket[h][life[h]] \in Nat
          /\ summary[h] \in Nat
      BY <3>1, LiveHistogram
    <3>3. /\ count[h][life[h]] <= bucket[h][life[h]] + summary[h]
          /\ Crosses(h) => count[h][life[h]] <= bucket[h][life[h]]
      BY <1>4, <3>1 DEF SamplesAreKept, NotDrained
    <3>4. \/ /\ count'[h][life[h]] = count[h][life[h]]
             /\ bucket'[h][life[h]] = bucket[h][life[h]]
          \/ /\ count'[h][life[h]] = count[h][life[h]] + 1
             /\ bucket'[h][life[h]] = bucket[h][life[h]] + 1
      <4>1. CASE h = k /\ life[h] = n
        BY <2>1, <2>2, <3>0, <4>1, IncrementCounts
      <4>2. CASE ~(h = k /\ life[h] = n)
        BY <2>1, <2>2, <3>0, <3>2, <4>2, IncrementCounts
      <4> QED BY <4>1, <4>2
    <3> QED BY <1>2, <3>1, <3>2, <3>3, <3>4
  <2>3. ASSUME NEW k \in Keys, Register(t, k)
        PROVE  /\ count'[h][life'[h]] <= bucket'[h][life'[h]] + summary'[h]
               /\ Crosses(h) => count'[h][life'[h]] <= bucket'[h][life'[h]]
    <3>1. count' = count /\ bucket' = bucket
      BY <2>3 DEF Register
    <3>2. CASE h = k /\ life[h] = 0
      <4>1. life'[h] = lives[h] + 1 /\ life'[h] \in Lives
        BY <2>3, <3>2, RegisterCounts
      <4>2. life'[h] > lives[h]
        BY <2>1, <4>1, LifeIsLast, BoundsAreNats
      <4>3. count[h][life'[h]] = 0
        BY <2>1, <4>1, <4>2 DEF LivesOK
      <4>4. bucket[h][life'[h]] \in Nat /\ summary[h] \in Nat
        BY <2>1, <4>1, CountsAreNats
      <4> QED BY <1>2, <3>1, <4>3, <4>4
    <3>3. CASE ~(h = k /\ life[h] = 0)
      <4>1. life'[h] = life[h]
        BY <2>1, <2>3, <3>3, RegisterCounts, LifeIsLast
      <4>2. h \in Live(Histograms)
        BY <2>1, <4>1 DEF Live
      <4> QED BY <1>2, <1>4, <3>1, <4>1, <4>2 DEF SamplesAreKept, NotDrained
    <3> QED BY <3>2, <3>3
  <2> QED BY <2>2, <2>3
<1>5. CASE ~crossed
  <2>1. SamplesAreKept'
    BY <1>4, <1>5 DEF SamplesAreKept
  <2>2. NotDrained'
    <3> SUFFICES ASSUME NEW h \in Live(Histograms)', Crosses(h)'
                 PROVE  count'[h][life'[h]] <= bucket'[h][life'[h]]
      BY DEF NotDrained
    <3>1. h \in Histograms
      BY DEF Live
    <3> QED BY <1>3, <1>4, <1>5, <3>1
  <2> QED BY <2>1, <2>2
<1> QED BY <1>1, <1>5

\* The steps of a snapshot that only look, or only judge.
LEMMA LookingKeepsSamples ==
  ASSUME SamplesInv, NEW s \in Snapshots,
         \/ Begin(s) \/ BeginHistograms(s) \/ Answer(s) \/ Keep(s) \/ Read(s)
         \/ \E k \in Keys : Pick(s, k)
  PROVE  SamplesAreKept' /\ NotDrained'
<1> USE DEF SamplesInv, TypeInv
<1> DEFINE q == snapshots[s]
<1>1. UNCHANGED <<life, count, bucket, summary, crossed>>
  BY DEF Begin, BeginHistograms, Answer, Keep, Read, Pick
<1>2. \A h \in Histograms : Crosses(h)' => Crosses(h)
  <2>1. \A r \in Snapshots \ {s} : snapshots'[r] = snapshots[r]
    BY DEF Begin, BeginHistograms, Answer, Keep, Read, Pick, Goto, Return, TypeOK
  <2>2. snapshots'[s].pc # "forget"
    <3>1. CASE Begin(s)
      BY <3>1 DEF Begin, TypeOK
    <3>2. CASE BeginHistograms(s)
      <4>1. q \in Snapshot
        BY <3>2, SnapshotInUse DEF BeginHistograms, CountersRead
      <4> QED BY <3>2, <4>1 DEF BeginHistograms, TypeOK, Snapshot
    <3>3. CASE Answer(s)
      BY <3>3 DEF Answer, TypeOK, NoSnapshot
    <3>4. CASE Keep(s)
      <4>1. q \in Snapshot
        BY <3>4, SnapshotInUse DEF Keep
      <4>2. Goto(s, "take")
        BY <3>4 DEF Keep
      <4>3. snapshots'[s] = [q EXCEPT !.pc = "take", !.gen = 0]
        BY <4>2 DEF Goto, TypeOK
      <4> QED BY <4>1, <4>3 DEF Snapshot
    <3>5. CASE Read(s)
      <4>1. q \in Snapshot
        BY <3>5, SnapshotInUse DEF Read
      <4>2. snapshots'[s].pc = Loop(q.key)
        BY <3>5, <4>1 DEF Read, Return, TypeOK, Snapshot
      <4> QED BY <4>2 DEF Loop
    <3>6. ASSUME NEW k \in Keys, Pick(s, k)
          PROVE  snapshots'[s].pc # "forget"
      <4> DEFINE new == [q EXCEPT !.pc = "judge", !.todo = @ \ {k}, !.key = k,
                                  !.gen = count[k][q.handles[k]]]
      <4>1. q \in Snapshot /\ snapshots' = [snapshots EXCEPT ![s] = new]
        BY <3>6, PickMoves
      <4> QED BY <4>1 DEF TypeOK, Snapshot
    <3> QED BY <3>1, <3>2, <3>3, <3>4, <3>5, <3>6
  <2> QED BY <2>1, <2>2 DEF Crosses
<1> QED BY <1>1, <1>2, SamplesUntouched

\* A histogram that is dropped is in the registry no more, until a new life.
LEMMA DroppingKeepsSamples ==
  ASSUME SamplesInv, NEW s \in Snapshots, Drop(s)
  PROVE  SamplesAreKept' /\ NotDrained'
<1> USE DEF SamplesInv, TypeInv
<1> DEFINE q == snapshots[s]
<1>1. UNCHANGED <<count, bucket, summary, crossed>> /\ life' = [life EXCEPT ![q.key] = 0]
  BY DEF Drop
<1>2. q \in Snapshot /\ q.key \in Keys
  BY KeyInHand DEF Drop, InHand
<1>3. \A h \in Live(Histograms)' :
        h \in Live(Histograms) /\ h \in Histograms /\ life'[h] = life[h] /\ h # q.key
  BY <1>1, <1>2, KeysDiffer DEF Live, TypeOK
<1>4. \A h \in Histograms : h # q.key /\ Crosses(h)' => Crosses(h)
  <2>1. \A r \in Snapshots \ {s} : snapshots'[r] = snapshots[r]
    BY DEF Drop, Goto, Return, TypeOK
  <2>2. snapshots'[s].pc = "forget" => snapshots'[s].key = q.key
    <3>1. CASE q.key \in Counters
      <4>1. Return(s, q.read) /\ q.read \in [Counters -> 0..NotShown]
        BY <1>2, <3>1 DEF Drop, Snapshot
      <4>2. snapshots'[s].pc = Loop(q.key)
        BY <1>2, <4>1, ReturnMoves DEF TypeOK
      <4> QED BY <4>2 DEF Loop
    <3>2. CASE q.key \notin Counters
      <4>1. snapshots'[s] = [q EXCEPT !.pc = "forget", !.gen = 0]
        BY <3>2 DEF Drop, Goto, TypeOK
      <4> QED BY <1>2, <4>1 DEF Snapshot
    <3> QED BY <3>1, <3>2
  <2> QED BY <2>1, <2>2 DEF Crosses
<1>5. SamplesAreKept'
  BY <1>1, <1>3 DEF SamplesAreKept
<1>6. NotDrained'
  BY <1>1, <1>3, <1>4 DEF NotDrained
<1> QED BY <1>5, <1>6

\* The loop that goes back to its head is about to remove no summary any more.
LEMMA ReturnCrosses ==
  ASSUME TypeOK, NEW s \in Snapshots, snapshots[s] \in Snapshot,
         NEW read, Return(s, read)
  PROVE  \A h : Crosses(h)' => Crosses(h)
<1>1. \A r \in Snapshots \ {s} : snapshots'[r] = snapshots[r]
  BY DEF Return, TypeOK
<1>2. snapshots'[s].pc = Loop(snapshots[s].key)
  BY DEF Return, TypeOK, Snapshot
<1> QED BY <1>1, <1>2 DEF Crosses, Loop

\* What leaves the bucket is in the summary, or a step was crossed.
LEMMA DrainingKeepsSamples ==
  ASSUME SamplesInv, NEW s \in Snapshots, Drain(s)
  PROVE  SamplesAreKept' /\ NotDrained'
<1> USE DEF SamplesInv, TypeInv
<1> DEFINE q == snapshots[s]
           d == q.key
           n == q.handles[d]
<1>1. q \in Snapshot /\ d \in Histograms /\ n \in Lives /\ d \in Keys
  BY KeyInHand DEF Drain, InHand
<1>2. /\ life' = life /\ count' = count
      /\ summary' = [summary EXCEPT ![d] = @ + bucket[d][n]]
      /\ bucket' = [bucket EXCEPT ![d][n] = 0]
      /\ crossed' = (crossed \/ Crosses(d))
  BY DEF Drain
<1>3. \A h : Crosses(h)' => Crosses(h)
  BY <1>1, ReturnCrosses DEF Drain
<1>4. CASE crossed'
  BY <1>4 DEF SamplesAreKept, NotDrained
<1>5. CASE ~crossed'
  <2>1. ~crossed /\ ~Crosses(d)
    BY <1>2, <1>5
  <2>2. ASSUME NEW h \in Live(Histograms)
        PROVE  /\ count[h][life[h]] <= bucket'[h][life[h]] + summary'[h]
               /\ h # d => bucket'[h] = bucket[h]
    <3>1. /\ h \in Histograms /\ life[h] \in Lives /\ count[h][life[h]] \in Nat
          /\ bucket[h][life[h]] \in Nat /\ summary[h] \in Nat
      BY LiveHistogram
    <3>2. count[h][life[h]] <= bucket[h][life[h]] + summary[h]
      BY <2>1 DEF SamplesAreKept
    <3>3. bucket[d][n] \in Nat
      BY <1>1, CountsAreNats
    <3>4. CASE h # d
      <4>1. bucket'[h] = bucket[h] /\ summary'[h] = summary[h]
        BY <1>2, <3>1, <3>4 DEF TypeOK
      <4> QED BY <3>2, <4>1
    <3>5. CASE h = d /\ life[h] = n
      <4>1. bucket'[h][life[h]] = 0 /\ summary'[h] = summary[h] + bucket[h][life[h]]
        BY <1>1, <1>2, <3>1, <3>5 DEF TypeOK
      <4> QED BY <3>1, <3>2, <3>5, <4>1
    <3>6. CASE h = d /\ life[h] # n
      <4>1. /\ bucket'[h][life[h]] = bucket[h][life[h]]
            /\ summary'[h] = summary[h] + bucket[d][n]
        BY <1>1, <1>2, <3>1, <3>6 DEF TypeOK
      <4> QED BY <3>1, <3>2, <3>3, <3>6, <4>1
    <3> QED BY <3>4, <3>5, <3>6
  <2>3. Live(Histograms)' = Live(Histograms)
    BY <1>2 DEF Live
  <2>4. SamplesAreKept'
    BY <1>2, <2>2, <2>3 DEF SamplesAreKept
  <2>5. NotDrained'
    BY <1>2, <1>3, <2>1, <2>2, <2>3 DEF NotDrained
  <2> QED BY <2>4, <2>5
<1> QED BY <1>4, <1>5

\* The summary that is removed had no sample of the present life.
LEMMA ForgettingKeepsSamples ==
  ASSUME SamplesInv, NEW s \in Snapshots, Forget(s)
  PROVE  SamplesAreKept' /\ NotDrained'
<1> USE DEF SamplesInv, TypeInv
<1> DEFINE q == snapshots[s]
           d == q.key
<1>1. q \in Snapshot /\ d \in Histograms
  BY KeyInHand DEF Forget, InHand
<1>2. /\ UNCHANGED <<life, count, bucket, crossed>>
      /\ summary' = [summary EXCEPT ![d] = 0]
  BY DEF Forget
<1>3. \A h : Crosses(h)' => Crosses(h)
  BY <1>1, ReturnCrosses DEF Forget
<1>4. Crosses(d)
  BY DEF Forget, Crosses
<1>5. NotDrained'
  BY <1>2, <1>3 DEF NotDrained, Live
<1>6. SamplesAreKept'
  <2> SUFFICES ASSUME ~crossed, NEW h \in Live(Histograms)
               PROVE  count[h][life[h]] <= bucket[h][life[h]] + summary'[h]
    BY <1>2 DEF SamplesAreKept, Live
  <2>1. /\ h \in Histograms /\ count[h][life[h]] \in Nat
        /\ bucket[h][life[h]] \in Nat /\ summary[h] \in Nat
    BY LiveHistogram
  <2>2. CASE h = d
    <3>1. count[h][life[h]] <= bucket[h][life[h]]
      BY <1>4, <2>2 DEF NotDrained
    <3>2. summary'[h] = 0
      BY <1>1, <1>2, <2>2 DEF TypeOK
    <3> QED BY <2>1, <3>1, <3>2
  <2>3. CASE h # d
    <3>1. summary'[h] = summary[h]
      BY <1>2, <2>1, <2>3 DEF TypeOK
    <3> QED BY <3>1 DEF SamplesAreKept
  <2> QED BY <2>2, <2>3
<1> QED BY <1>5, <1>6

\* Every step keeps the samples.
LEMMA SamplesInvStable == SamplesInv /\ [Next]_vars => SamplesInv'
<1> SUFFICES ASSUME SamplesInv, [Next]_vars PROVE SamplesInv'
  OBVIOUS
<1>1. TypeInv'
  BY TypeInvStable DEF SamplesInv
<1>2. CASE \E t \in Recorders : Increment(t) \/ \E k \in Keys : Register(t, k)
  BY <1>1, <1>2, RecordingKeepsSamples DEF SamplesInv
<1>3. CASE \E s \in Snapshots : Begin(s) \/ SnapshotStep(s)
  BY <1>1, <1>3, LookingKeepsSamples, DroppingKeepsSamples, DrainingKeepsSamples,
     ForgettingKeepsSamples DEF SamplesInv, SnapshotStep
<1>4. CASE Idle
  <2>1. UNCHANGED <<life, count, bucket, summary, snapshots, crossed>>
    BY <1>4 DEF Idle
  <2> QED BY <1>1, <2>1 DEF SamplesInv, SamplesAreKept, NotDrained, Live, Crosses
<1>5. CASE UNCHANGED vars
  BY <1>1, <1>5 DEF vars, SamplesInv, SamplesAreKept, NotDrained, Live, Crosses
<1> QED BY <1>2, <1>3, <1>4, <1>5 DEF Next

\* A sample recorded through the registry's handle is in the bucket or in the
\* summary, however many snapshots drain and drop at a time, until one of them
\* drains into a summary that another is about to remove.
THEOREM SamplesAlwaysKept == Spec => []SamplesAreKept
<1>1. Init => SamplesInv
  <2> SUFFICES ASSUME Init PROVE SamplesInv
    OBVIOUS
  <2>1. Live(Histograms) = {}
    BY KeysDiffer DEF Init, Live
  <2> QED BY <2>1, InitTypes DEF SamplesInv, SamplesAreKept, NotDrained
<1>2. SamplesInv => SamplesAreKept
  BY DEF SamplesInv
<1> QED BY <1>1, <1>2, SamplesInvStable, PTL DEF Spec
=============================================================================
