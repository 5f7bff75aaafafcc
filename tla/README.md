# Formal specifications of aode-relay

TLA+ models of the relay in `src/`, the TLC runs that check them on small
instances, and proofs, checked by TLAPS, of what holds for every size.
`PROJECT.json` maps each definition to the lines it models.

    tlc -workers 2 -config SubsBlock.cfg SubscriptionsMC     # one run
    tlapm SubscriptionsProofs.tla                            # one module of proofs

## 1. The system

The relay is an ActivityPub actor to which servers subscribe with a Follow. What
a subscriber announces is announced again to all the others; its Deletes, Updates
and the like are forwarded as they are. HTTP handlers (`routes/`) only check a
request, change little and put a job on an in-memory queue; jobs (`jobs/`) do the
rest. State that survives a restart is in sled trees (`db.rs`); State, the breakers
and the job storage live in memory. Each HTTP worker thread starts job workers of
its own (`main.rs`, `jobs.rs`), all over the same database, so that several jobs
about one actor run at a time, and nothing locks a row between two awaits.

| Component | State it keeps | Operations | Talks to |
|---|---|---|---|
| Inbox (`routes/inbox.rs`) | none | `inbox`, `handle_follow`, `handle_undo`, `handle_announce`, `handle_forward` | Db, actor cache, State, job queue |
| Subscription jobs (`jobs/apub/{follow,undo,reject}.rs`) | none | `perform` | Db, deliveries, queries |
| Lists (`db.rs`, `admin/routes.rs`) | trees of allowed and blocked domains, connected ids | `add_blocks`, `remove_blocks`, `add_allows`, `remove_allows`, `is_allowed` | inbox, verifier |
| Fan-out (`jobs/apub/{announce,forward}.rs`, `jobs/deliver_many.rs`) | none | `perform` of Announce, Forward, DeliverMany | State, Db, Deliver |
| State (`data/state.rs`, `data/node.rs`) | object cache (LRU), node configurations | `cache`, `is_cached`, `inboxes_without`, `is_receive_only`, configuration setters | inbox, fan-out, admin API |
| Requests (`requests.rs`, `jobs/deliver.rs`) | a breaker per authority | `should_try`, `fail`, `succeed`, `do_fetch`, `do_deliver`, `reset_breaker` | every outgoing request |
| Verifier and actor cache (`middleware/verifier.rs`, `data/actor.rs`) | trees of actors and key ids | `verify`, `get`, `get_no_cache`, `add_connection` | Requests, inbox, Follow |
| Profiles (`data/node.rs`, `jobs/{process_listeners,instance,nodeinfo,contact}.rs`) | info, instance and contact rows | the queries and their schedule | Requests, media cache, pages |
| Media cache (`data/media.rs`) | id to URL, URL to id | `get_uuid`, `store_url`, `get_url` | QueryInstance, the media route |
| Last-online (`data/last_online.rs`, `jobs/record_last_online.rs`) | a buffer of times, tree last-seen | `mark_seen`, `take`, `mark_last_seen` | Requests, admin API |
| Metrics collector (`collector.rs`) | a registry of counters, gauges and histograms, summaries | `register_*`, `snapshot`, `present` | everything that records, admin API |
| Job queue (background-jobs, external) | jobs waiting, running, to be retried | queue, take, retry | everything |
| Telegram, admin client, extractors, pages, spawner, configuration | none that another part depends on | | |

### What is hard, and what makes each component correct

*Subscriptions and lists.* The inbox reads the lists and the connection, then
queues; a job connects or disconnects later, in up to six awaits, each of which may
fail and have the whole job run again. An edit of the lists walks over the
connected ids with no transaction, removes as it goes and writes the lists
afterwards. A server that is blocked at the wrong moment therefore does stay
connected. What must hold in spite of it: the sweep leaves nobody behind who was
connected when it passed; a blocked actor which is out, and has no Follow left
from before, cannot come in; each Follow job ends in a connection and each Undo
job in none; each connected id has the row without which nothing is sent to it.

*Fan-out.* The listeners are read once and used some awaits later; the object cache is
looked at by the handler and filled by the job. No object may go to the server it
lives on; nobody who stays and filters nothing may be left out; the copies a server
gets must be accounted for by activities and failed steps; an object in the cache is
not announced again.

*The two together.* A post passes the same checks as a Follow and its targets are read
later still. A block must in the end cut its actor off in both directions, and once it
has, nothing that goes on elsewhere may undo it.

*Breakers.* `should_try` and the write that follows the answer are separated by the
request itself. The attempts on a dead server must stay bounded, a breaker must not
stay open for good, and a delivery's retries must end.

*Keys.* A signature is checked with a key that may have been replaced, and Follow jobs
write old snapshots of an actor over newer rows. A signature by the present key must
never be found wrong; a replaced key must stop working in the end.

*Profiles and media.* Two jobs write the contact of one server, each skips its work when
other rows are fresh, and a failure between two awaits leaves fresh rows behind that
hide what was not done. Rows must be renewed for as long as the server answers, and
each media id in use must lead to its own picture.

*Last-online times.* `RecordLastOnline` takes the buffer out of memory before it writes
it, each HTTP thread runs such a job, and the write overwrites what is there. Only a
failed write, a restart or an overtaken job may lose a time, and only an overtaken job may set a time back.

*Collector.* A snapshot reads metrics that go on changing, one after the other, and drops
those that have been idle for five days; several snapshots may be taken at once. What is
shown as running must be off by no more than what began and ended meanwhile, and no sample recorded
through the registered handle may be lost.

`PROJECT.json` lists each of these hazards at its line, with the properties
that would catch it, or the reason none does.

## 2. The modules

| Module | Models | Extends |
|---|---|---|
| `Domains` | domain keys, the prefix scan of `is_allowed`, the URL prefix of `is_connected` | |
| `Listeners` | abstract: who listens, is admitted, is denied | |
| `Subscriptions` | inbox admission, Follow, Undo, Reject, the list edits, restarts | `Domains` |
| `SubscriptionsIntent` | what the README promises of Follow and Undo, as history variables beside it | `Subscriptions` |
| `Ledger` | abstract: what is owed to whom for each accepted activity | |
| `Fanout` | Announce, Forward, DeliverMany, object cache, node configurations | instance of `Ledger` |
| `Relay` | the inbox for posts, and `Subscriptions` and `Fanout` over one database | `Subscriptions`, an instance of `Fanout` |
| `Breakers` | a breaker and its callers | |
| `LastOnline` | when a server was last heard of: buffer, jobs, tree | `Breakers` |
| `Keys` | one actor's key, the cached row, the verifier, the inbox's second look-up | |
| `Profiles` | Listeners, the three queries, the rows, the media trees | |
| `Collector` | the metrics registry, snapshots, idle metrics, the presented counters | |
| `*MC`, `Samples` | instances for TLC | |
| `*Proofs` | theorems | |

In all of them an action is the code between two awaits (or two operations on a tree,
where a blocking closure runs on another thread), and a request or job is a record with
a `pc` that names its next step. A slot (`RequestSlots`, `JobSlots`, `Workers`, ...) is
one request or job in progress; slots are interchangeable, so the larger of the runs that
check no liveness declare them symmetric. `JobError` of a step is an await that returns an error, after which
the job starts again until `MaxTries` retries are used; `Abandon` is a request whose
handler returns an error or whose client goes away. `Restart` empties what is in memory.

`Subscriptions`. `Receive`, `CheckAllowed`, `CheckConnected` and `QueueJob` are the
handler `inbox`: `is_allowed` and `is_connected` are two reads, made at different moments.
`AddConnection`, `RemoveConnection` and the steps after them are the `perform`s.
`StartEdit` and `SweepOne` are the iteration over `connected_by_domain`, in any order
of the ids; `Block`, `Unallow`, `Unblock`, `Allow`, `Disallow` write one tree
each. `late` is a history variable: the listeners whose connection an edit could
not see any more. A server is an authority, a sequence of labels, so that the
comparisons of `Domains` are the code's and not a given relation.

`Fanout`. A server stands for its actor, inbox and authority. `Churn` is what
`Subscriptions` does to the listeners, cut down to "one joins or leaves". The random
filter of `apply_filter` is a throw of a dice with `Faces` sides; the comparison
with the probability is the code's. The cache is the sequence of its entries, least
recently used first.

`Ledger` is `Fanout` without its machinery. It counts, for each sender and object, the
activities that are *open* (nobody has looked yet who listens), and for each server the copies
that are *owed* and those *served* that a failure may yet repeat. An `Accept` opens one, `Address`
makes it owed to the listeners but the sender and the object's home, `Serve` turns one that is owed into
one that is served, with a copy or, when the server's configuration filters it, without. Only a failed
step moves anything back (`Reopen`, `Repeat`) or away (`GiveUp`), and a `Restart` loses it all. In
Fanout the counts are the slots: open are the requests and the jobs that have yet to read the inboxes, owed
are the inboxes in a job's or a DeliverMany's list that it has still to come to, served those it has passed.

`Subscriptions.Meet` is any other activity: whatever comes of it, its actor has been saved.

`Relay`. `ReceivePost`, `CheckPost` and `AcceptPost` are the same handler for an
activity that is to be relayed; past its checks it is `Fanout`'s `Accept`. The connected ids of
`Subscriptions` are the `listening` of `Fanout`, so that each of its steps is a `Churn` for
Fanout, and each step of Fanout's jobs leaves Subscriptions alone. `RelayRestart` is both restarts.
A post in progress holds a slot of `PostSlots` from its arrival until its job is queued.

`Breakers`. `last_attempt` is an age in ticks, one beyond `Wait` for all that is
older. An answer is one of five classes, as the three strategies tell them
apart. `window` is a history variable: the failures when the wait was last over.

`LastOnline`. A time is the number of the answer that it belongs to, since only the order of
times matters. `Answered` is `check_response` with both things it does on a 2xx. `Take` and
`MarkLastSeen` are the two halves of the job around its await. `WriteFails` ends a job without
a write, and its retry is another `Take`. `ahead` and `lost` are history: the jobs that
no write has overtaken since their take, and the latest time that was lost.

`Collector`. One pair of counters and one histogram stand for all. A handle that was dropped and
is registered again is a new life of its key; who still holds the old handle records into
nothing. `Pick` reads the generation, `Drop` or `Keep` is `should_store` under Recency's lock,
`Read`, `Drain` and `Forget` are what follows it. Recency and the registry are metrics-util's and are
modelled from how the code uses them. `begun` and `ended` of a snapshot, and `crossed`, are history.

`Keys`. A key has a number, which a server raises when it replaces the key, and a key
id, which it may keep. A fetch reads the served document; saving it is a later
step, so that a document may be old when it is saved.

`Profiles`. A server names its contact in its instance or in its nodeinfo document, or
answers with nothing of use. The two requests that a query makes in a row are
merged into one step, for nothing else is read between them; an error of either is
the answer "nothing". Ids are taken in turn where the code draws UUIDs. Duplicate
queued jobs are taken together, because a second one differs only in running later.

## 3. The runs

| Run | Instance | Shows |
|---|---|---|
| `subs_block` | one actor, one request at a time, two jobs, one administrator who blocks and unblocks, all four activities, one failure, one retry, one restart | `ListenersHaveActors`, `DeniedListenersAreLate`, `BarredStaysOut`, `ImplementsPromise` |
| `subs_restricted` | restricted mode, an actor on `a.b.test`, edits of `b.test` and of the single label `test`, separately and at once, Follow and Undo, two failures with one retry, fair | `TypeOK`, `DeniedListenersAreLate`, `ScanAgreesWithNames`, `BarredStaysOut`, `FollowJoins`, `UndoLeaves` |
| `relay` | two actors, of which one can be blocked and unblocked; a Follow, a post and its fan-out, a restart, fair | `CutOffStays`, `BlockTakesEffect`, `ImplementsFanout` |
| `undo_dropped` | one Follow, one Undo | a finding, see 5 |
| `follow_back_missing` | both kinds of Follow | a finding |
| `fanout` | three servers, one object, two activities, a configuration that refuses the sender below the last face of the dice, one failure, restarts | `NeverSentHome`, `CopiesAccountedFor` |
| `fanout_live` | two servers, two objects and a cache of one, receive-only, one failure, fair | `TypeOK`, `SettledStaysSettled`, `ListenersReceive`, `ReceiveOnlySilencesAnnounces`, `ImplementsLedger` |
| `receive_only_forward` | two servers, Forwards | a finding |
| `requests` | two callers, threshold 2, wait 1 tick, all strategies, one retry, two recording jobs, two answers, failing writes, restarts, fair | `RecordTypeOK`, `AttemptsBounded`, `WritesAdvance`, `AnswersAccountedFor`, `TriesAgain`, `CallsEnd`, `AnswersAreRecorded` |
| `keys` | two requests, two key ids, one replacement, 2 ticks to a refetch | `CurrentKeyVerifies`, `OldKeysExpire` |
| `profiles` | one server, two pictures, one worker, one fault anywhere | `TypeOK`, `AvatarsResolve`, `ProfilesAreRenewed` |
| `collector` | two snapshots, one recording thread, three jobs or a histogram with two samples a life, five idle days once | `TypeOK`, `RunningIsNear`, `SamplesAreKept` |

### Why these bounds

Every hazard above needs two things in progress and a third that changes what they
rely on, and the instances have those. A race over one actor needs the actor's own
jobs, so one actor suffices for Subscriptions. In `subs_restricted` its domain is below both
of the listed names, so that it is allowed by the one entry when the other goes; one of them is of a single label, which
the prefix scan treats differently. Whatever several actors can do to each other in Subscriptions is
in the theorems, which are for any number. Three servers in Fanout are the
sender, the home of the object and a third. A cache of one entry with two objects
is the smallest that evicts. `Threshold`, `Wait`, `Refetch` and `Outdated` (10, a
day, 30 minutes and ten minutes in the code) only need to be reached and left behind.
`MaxFailures` is far enough beyond the threshold for two bursts of calls: the third burst
repeats the second. With one
worker, two pictures and one fault no more than three media ids can be drawn, so
`MaxIds = 3` never stops a job. `MaxKey = 1`: a signature is by the present key or by
an older one, and the proof covers any number.

Two workers in `profiles` (the code has two maintenance workers per thread, `jobs.rs:75`)
make its temporal property too large for a run; the races of two jobs for a picture's id are
covered by the theorem `AvatarsAlwaysResolve`, which is for any number of workers.

`relay` has a temporal property over two components and is therefore the smallest of
each: no failing steps, one post, which is a Forward, and `Meet` covers the activities that are refused. Its posts are
what the block has to cut off; with a second actor there is someone to send them to and someone to send.
What it checks of safety is proved for every size, and failing steps are in the runs of the two parts.

Two answers and two recording jobs are the least with which one job can overtake another. In `collector`
three jobs are the least with which a job that runs all through a snapshot goes uncounted: one that finished before, so
that there is a counter of the finished, the one that runs on, and one that starts and finishes between the two reads.
Two samples in one life are the least with which one is recorded between `get_generation` and the drop. One idle period
is the least that starts a second life of a metric. The constraint `JobsOrSamples` leaves out behaviours with both
jobs and samples, which share no state but the place of the snapshot; the theorems are about them too.

The deadlock check is on in every run.

### Fairness, and why the code justifies it

- A job that a worker has taken is polled to its end: `WF(JobStep)`, `WF(ManyStep)`,
  `WF(CallStep)`, `WF(Step)` in Keys. Each await in it is on sled, on the
  queue or on a request with a client timeout, and errors are separate actions that
  end or restart the job.
- The loop of an edit runs on a blocking thread to its end: `WF(EditStep)`.
- A handler is polled until it answers, or is dropped: in `relay`, `WF` of a request's steps together with
  `Abandon`, and of `PostStep`, which includes `DismissPost`. The bound on job slots can keep a post waiting that the code would queue at
  once, for its storage has no such bound; `SF(QueuePost)` says it is not passed over for ever.
- `every` starts each `RecordLastOnline` again: `WF(Take)`; and it ends: `WF(RecordStep)`, in a write
  or in a failure.
- Time passes: `WF(Tick)`.
- `Listeners` is started again by `every` each five minutes: `WF(Listeners)`.
- The job library passes no waiting job over for ever: `SF(Take)` per query. This is strong
  because the one worker is taken and free in turn. It is an assumption about
  background-jobs, whose code is not in the repository.

Nothing is assumed of arriving requests, of servers' answers, of
administrators, of failures or restarts. `FollowJoins`, `UndoLeaves` and `ListenersReceive`
hold while failures stay below the retry limit: the first two say so themselves, so that
their run has more failures than that, and the instance of the third has
`MaxErrors <= MaxTries`. They hold without restarts, which lose the jobs. `BlockTakesEffect` holds
through restarts.

## 4. The proofs

Each theorem assumes only the named assumption of its module on the constants
(`SubscriptionsAssumption`, `FanoutAssumption`, ...), all of which TLC evaluates, and,
for `Domains`, nothing but that names are sequences of at least one label.

| Module | Theorem | Argument |
|---|---|---|
| `SubscriptionsProofs` | `TypeCorrect` | each action |
| | `ListenersAlwaysHaveActors` | `RowsInv`: every request past the actor look-up and every job is about an actor with a row, and rows are never removed |
| | `DeniedListenersAlwaysLate` | `LateInv`: while an edit is past an actor and the actor's domain is still to be written, the actor is out or late (`SweepLeavesNobody`). Without it a write of the lists could turn a listener into a denied one of which nothing is known |
| | `KeepsPromise` | refinement: listeners are the connected ids, admitted are the actors with a Follow past `is_allowed` or in a job, denied is what `is_allowed` would answer now. Each step is an `Admit`, `Join`, `Settle`, `Leave`, `Relist` or a stutter |
| | `BarredAlwaysStaysOut` | from the actions, with the same mapping |
| | `ScanAlwaysAgreesWithNames` | `ScanIsExact`, for the lists only ever hold names |
| `DomainsProofs` | `ScanIsExact` | the range the scan starts from holds every matching key when names have two labels or more; a name of one label is in it for an authority of one label only |
| `FanoutProofs` | `NothingSentHome` | `HomeInv`: the targets of each job and of each DeliverMany leave out the object's home from the step that computes them on |
| | `SettledAlwaysStaysSettled` | the only way for an Announce to begin is past `is_cached` |
| | `CopiesAlwaysAccountedFor` | `CopiesInv`: each accepted activity and each failed step pays for one copy for each server, which is either made or still due from one request, job or DeliverMany. `CopiesAccountedFor` alone says nothing of what is due and is not inductive |
| | `KeepsLedger` | refinement, under `HomeInv`: a step changes one slot of each kind at most, and two finite sets that differ in one element differ by one in size (`CountsDiffer`). So each step moves the counts as one step of `Ledger` does or not at all (`QueueJob`, `QueueMany`, `ThrowDice` and `CacheObject` hand on what they have). That `left` stays within `to` is what lets a DeliverMany that is run again owe exactly those it had served |
| | `ReceiveOnlyAlwaysSilencesAnnounces` | `Unheard`: a job past the check is of another server or kind, and so is each DeliverMany. It is kept for as long as the server is receive-only, for only `CheckReceiveOnly` lets an Announce past |
| | `TypeCorrect` | `Put` keeps the cache injective (`RemovesOne`) and within `Capacity` (`PutKeepsCache`): what it drops when the cache is full it drops before it appends |
| `RelayProofs` | `RelayIsSubscriptions`, `RelayIsFanout` | each step of `Relay` is a step of the one and a step or a stutter of the other; a step that connects or disconnects is a `Churn` |
| | `CutOffAlwaysStays` | `RelayIsSubscriptions` carries the invariants of Subscriptions over; `Carried` types what is under way; then each step keeps an actor that is cut off out of the inboxes a job reads, and its posts from passing the inbox |
| `RequestsProofs` | `RecordingImplementsBreakers` | each step is one of Breakers or leaves it alone |
| | `RecordTypeCorrect` | over the type invariant of Breakers |
| | `WritesAlwaysAdvance`, `AnswersAlwaysAccountedFor` | `TimesInv`: with both of them `BufferIsLatest`, that what is in the buffer is later than all that was ever taken from it. Without it a new take could be older than the row |
| | `TypeCorrect`, `AttemptsAlwaysBounded` | `BurstInv`: with the count, `WindowIsFresh`, which says what the failures may have become since the wait was over |
| `KeysProofs` | `TypeCorrect`, `CurrentKeyAlwaysVerifies` | `SignedInv`: a request signed with the present key holds the present key from the moment it fetches, for a document fetched after the signature is at least as new, and a replacement makes the signature one by an old key |
| `ProfilesProofs` | `TypeCorrect`, `AvatarsAlwaysResolve` | `MediaInv`: the id a job holds leads to its picture too, and the tree of ids only grows |
| `CollectorProofs` | `TypeCorrect` | `TypeInv`: that a key never has more lives than `Lives` numbers needs `LivesOK`, by which it takes idle days to end a life; that no count passes its bound needs `CountsOK`, which leaves room for what the threads with a handle are about to record; and `LoopsOK` says that a snapshot has a handle for each key it is still to come to |
| | `RunningAlwaysNear` | `RunningInv`: `CountsAll`, that a counter in its first life has counted all that happened, and `ReadsBetween`, that what a snapshot has read lies between what had happened when it began and what has by now. So the difference is at least the jobs begun before less those ended by now and at most those begun by now less those ended before. `RunningIsNear` speaks only of a snapshot that has read both |
| | `SamplesAlwaysKept` | `SamplesInv`: with it `NotDrained`: nothing of a histogram's present life has been drained into a summary that is about to be removed, unless a snapshot overlapped the one that removes it |

So a block of a single label (`test`) sweeps every actor under it, but `is_allowed` does not
find it for `a.b.test`, which may follow again at once.

Every invariant and every action property that a passing run checks is also a theorem, and so are the three
refinements that one checks and `ReceiveOnlySilencesAnnounces`, which says
under a condition for ever what never happens, and nothing of what must.

Only model-checked: what must eventually happen under fairness (`FollowJoins`, `UndoLeaves`,
`ListenersReceive`, `TriesAgain`, `CallsEnd`, `OldKeysExpire`, `ProfilesAreRenewed`, `BlockTakesEffect`,
`AnswersAreRecorded`), for the proof system handles neither fairness nor ENABLED. No theorem is
about a recursive definition, since induction over data is out of the provers' reach; that is why the cache's `Others` is written with
`RemoveAt`.

## 5. Where code and documentation disagree

- `undo_dropped`. The README says an Undo Follow makes the relay stop listening to the actor. An
  Undo that comes while the Follow before it is still a job finds no connection, is
  answered with 202 and dropped (`routes/inbox.rs:194`); the Follow then connects.
- `follow_back_missing`. The README says a Follow of the relay's actor is returned. It is not if
  the server is already connected, as after a Follow Public (`jobs/apub/follow.rs:42`).
- `receive_only_forward`. `data/node.rs:24` says that a receive-only server's activities are all
  dropped. Forward never asks (`jobs/apub/forward.rs:46`); only Announce does.

Each is a run that TLC finds violated.

## 6. What is left out

- The job library: heartbeats and job timeouts, the order in which workers take jobs, its
  backoff times. What the relay relies on of it is in the actions of each module.
- Loss of sled writes that were not flushed before a crash.
- Signatures, digests, JSON, rendering, wording: data that no property tells apart.
- Telegram (calls the same four operations as the admin API), the admin
  client, extractors, pages, spawner, configuration: no state another part depends on.
- Two actors of one server sharing an inbox, each of which gets a copy.
- The start: a private key that cannot be read is replaced by a new one (`data/state.rs:110`), once, before anything else runs.
- In `Collector`, gauges, which are read as counters are, and quantiles.

### What the models show that no document mentions

None of these contradicts a statement of the repository, so none is a finding; the properties state what holds in
spite of them.

- An Undo that fails after it has removed its connection is run again in full (`jobs/apub/undo.rs:34`): the retry removes
  a connection made since, and otherwise finds none and never sends the Undo Follow. `UndoLeaves` asks only that the
  actor ends up disconnected.
- A last-seen time goes backwards when a job's write is overtaken by that of a job that took the buffer
  later (`db.rs:310`); the next answer repairs it. `WritesAdvance` is about jobs that were not overtaken.
- A listener whose connection is made while an edit passes stays connected though denied (`late`), until its
  domain is blocked again or it leaves. `BlockTakesEffect` excepts it.
- "Running" can show 0 while a job runs all through the snapshot, when started is read before and finished after
  another job that starts and finishes in between (`collector.rs:229`). `RunningIsNear` gives the bound that holds.
- A sample recorded between `get_generation` and the drop of its histogram (`collector.rs:268`), or through a handle
  just dropped, is never drained. `SamplesAreKept` is about the registered handle only.
- A counter of finished jobs that is dropped for being idle while the one of started jobs is not
  leaves "running" showing all that were ever started.
- A snapshot that overlaps one which is just dropping an idle histogram may lose the samples recorded since.

## 7. Plan

1. Shared inboxes: an actor and its inbox as two things in `Fanout`, with `Ledger` counting inboxes.
2. Two actors in `Subscriptions` with `is_connected`'s URL prefix in play (`b.test`, `b.tester`).
3. The theorems of `Fanout` stated of `Relay` too, through `RelayIsFanout`.
