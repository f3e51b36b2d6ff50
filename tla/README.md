# litekvd in TLA+

litekvd serves a litekv store over HTTP: one node leads, the others follow it
over a replication stream, a write can be made to wait until followers have it,
and a controller promotes a follower when the leader is gone. This directory
models the parts of it in which processes, requests and machines act on each
other, checks the models with TLC on small instances, and proves the central
safety properties with TLAPS for every value of the constants.

- [The system](#the-system): its parts, their state, how they interact
- [Modules](#modules): which module models which part, and how
- [Runs](#runs): what is checked, with which bounds, and what it shows
- [Fairness](#fairness)
- [What the code does not keep](#what-the-code-does-not-keep)
- [Proofs](#proofs)
- [Not modelled](#not-modelled)
- [Plan](#plan)

## The system

| part | source | state | operations |
|---|---|---|---|
| Registry of followers | `server/acks.go` | `followers.at`: id -> position; the `changed` channel | `attach`, `detach`, `ack`, `wake`, `count`, `await`; `POST /v1/replicate/ack` |
| Writes | `server/keys.go`, `batch.go`, `role.go` (`mayWrite`, `wrote`) | none of their own | store, read the position, wait for `-wait-for` followers, answer 204, 202 or an error |
| Leader's end of a stream | `server/replica.go` | a handler per stream: id, position, snapshot in hand; a lock on the response; a watcher and a heartbeat | `streamReplica`: accept, attach, send a snapshot, `db.Follow`, divergence, detach |
| Follower | `server/follower.go` | id, `latest`, `nudge`, one connection, its idle timer, the wait | `run`, `stream`, `take`, `tell`, `telling`, `Close` |
| Role | `server/role.go` | `role.leader`, `role.stop` under one lock | `Follow`, `enlist`, `stopFollowing`, `Promote`, `mayWrite`, `status` |
| Reads by position | `server/role.go` (`notStale`, `staleness`, `waitFor`), `keys.go` | none; a goroutine per waiting read | ask the store whether it has got somewhere, wait, refuse, read |
| Controller's Lease | `cmd/litekv-controller/lease.go` | `held`, `seenVersion`, `seenAt`; the Lease object | `acquire`, `stale`, `dropLease` |
| Controller's rounds | `cmd/litekv-controller/controller.go`, `kube.go` | `unreachableSince`; the write Service and the serving labels | `once`, `ask`, `decide`, `choose`, `failover`, `promote`, `enlist`, `follow`, `tidy` |
| Records over HTTP | `server/keys.go`, `batch.go`, `scan.go`, `ndjson.go`, `errors.go` | none | parse, encode, map an error to a status |
| Process | `main.go`, `server/server.go` | the HTTP server, the `streams` channel, the Writer | start, signals, `CloseStreams`, `Shutdown`, `Close`, and the deferred calls |
| Storage engine | dependency (`go.mod`) | the log, the term, the fence | `Position`, `Applied`, `Apply`, `ApplySnapshot`, `Follow`, `Promote`, `Term` |

How they meet. A write handler stores the record and then sleeps on a channel
that the registry closes whenever an entry changes. Registry entries are put in
and taken out by stream handlers, one per connection, and moved forward by
acknowledgements, which are separate HTTP requests made by a goroutine of the
Follower other than the one that applies. The Follower belongs to the role of
its node: a promotion takes it from the role under the lock and stops it outside
the lock, while writes and requests to follow are in flight. The controller
reads `/v1/status` of every node, decides, and calls `/v1/promote` and
`/v1/follow`; other controllers are kept away by the Lease.

What is hard about it, and the properties that answer it:

- *Two handlers for one follower.* A follower gives up a connection long before
  the leader knows. Its next stream attaches while the old handler is still
  there, and the old one detaches when it ends: `RegisteredIsServed`.
- *Acknowledgements overtake each other*, overtake an attach, arrive after a
  detach, or not at all: `RegistryNeverRewinds`, `RegistryBacked`,
  `AcksAreHonest`.
- *A wake between a count and a sleep*: `NoLostWakeup`, `WritesAreReached`.
- *A snapshot resets the store first*, and can break off half way:
  `RegistryBacked`, `StreamIsContiguous`, `PromiseKept`.
- *A promise to a client rests on all of these at once*, registry, streams,
  stores and write handlers: `CopiesKeepThePromise`.
- *Two goroutines write one response*, behind a lock and a buffer, to a client
  that may be slow, gone, or gone silent: `FramesStayWhole`,
  `ResponseIsLeftAlone`, `DeadConnectionEnds`, `EverythingArrives`.
- *Silence has to be told from a slow frame*, and a retry from a storm:
  `WorkingConnectionIsKept`, `BacksOff`.
- *A role handed over in two steps*: `RoleIsTheFollower`,
  `EveryFollowerHasAStopper`, `OwnFollowerEndsFirst`, `StopsEnd`.
- *A process that ends in the middle of all of it*: `StoreClosesAlone`,
  `NoneTurnedAway`, `AcceptedIsStored`, `StreamsEnd`, `ShutdownEnds`.
- *A position handed out by one node and asked for at another*, across
  promotions and resets, with a wait that may be cut off: `ReadYourWrites`,
  `PositionsAgree`, `ReadsEnd`.
- *Bodies that arrive in pieces, too long or broken off*, and bytes that are not
  text: `AllOrNothing`, `BlamesTheRightThing`, `RoundTrip`.
- *A Lease whose holder and watcher measure time from different moments*, with
  writes that are applied after their sender gave up: `FreshIsHolder`,
  `EntitledIsHolder`, `HandsOverInTime`, `SeizedOnlyWhenSilent`.
- *A round acts on what it saw*; nodes die, return, and answer or not, and API
  calls fail between its steps: `AckedSurvives`, `OneLeaderPerTerm`,
  `LeaderIsNeverEnlisted`, `Settles`; and, as a theorem, `GraceIsItsOwnRun`.

`PROJECT.json` lists the hazards one by one, each at the line where it bites.

## Modules

`Positions` is the order of replication positions. A position is a term and a
sequence number; log number and offset are opaque to this repository, which
hands them back to the engine as a cookie. `reaches` is the leader's order
(`acks.go`) and `further` the controller's (`controller.go`).

`SemiSync` composes the registry, the write handlers, the leader's stream
handlers and the Followers, for one leader at a fixed term.

| variable | code |
|---|---|
| `seq`, `fenced`, `closed` | `db.Position()`, `db.Fenced()`, whether `CloseStreams` was called |
| `at` | `followers.at`; ids absent from its domain are not registered |
| `conn`, `pipe` | the handler `streamReplica` of each connection, and the frames sent on it and not read |
| `name`, `reading`, `taking`, `applied` | a Follower's id, connection, half-taken snapshot, and `db.Applied()` |
| `latest`, `nudge`, `posting`, `posts` | `Follower.latest`, the token in `Follower.nudge`, the post `telling` waits for, requests in flight |
| `pc`, `want`, `answer` | where `wrote` and `await` are, the position waited for, the status |
| `owner`, `peak`, `counted`, and `base` in a frame | history: who made an id up, the furthest a store got, who was counted, where a batch starts |

Each action is a critical section or the code between two points where another
goroutine, node or message can come in. `Count` is one turn of `await`'s loop:
the count and the taking of the channel are one section of the lock. The closing
of that channel (`woken`) is part of every action that calls `wake`. `Accept`
and `Attach` are apart because nothing holds a lock between the checks of
`streamReplica` and the registration; `Attach` and `SendSnapshot` are apart
because the code registers first. `End` and `Detach` are apart because a handler
may learn of its client's going, and its deferred `detach` run, at any later
time. `Restart` keeps the store and changes the id. Frames are atomic here, and
when a Follower gives a connection up is left open; both are `Stream`'s.

`Role` models one process: the role's lock, the Followers it can start, and the
requests in flight. `TakeStop` is the locked half of `stopFollowing`, `Cancel`
and `Waited` the two halves of `Follower.Close` outside the lock. `EnlistCheck`,
`AskTerm`, `CompareTerms` and `StartFollower` are the four steps of
`POST /v1/follow`; only the last is under the lock. The store is its term.

`Lease` models `acquire` as a beginning (which reads the clock), a GET and a
PUT, with time between them. The Lease object is a compare-and-swap on its
resource version. A PUT nobody waits for any more (`late`) may be applied at any
later time. One variable `time` stands for all clocks: only differences between
readings of one clock are used, so offsets cannot matter; the clocks are assumed
to run at one rate. What the object says it lasts is `LeaseSeconds`, the lease
duration cut to whole seconds (`lease.go:39`); it is a constant, as every controller
of a release is started with one `-lease-duration`. `fresh` is the check of `choose`,
half a lease duration; `entitled` is what a controller may count on whatever a GET
takes, the written seconds less one GET.

`Failover` models rounds of any number of controllers over a cluster of nodes.
A round looks piece by piece: `Look` lists the pods, `Answer` is one node's answer
to `ask`, in any order, and `ReadService` reads whom the write Service names. Then
it goes on in steps of one call each, and the cluster, the Lease and the other
controllers move between any two of all these. Who dies meanwhile leaves an address
at which nobody answers (`pods`), the pod that takes its place being elsewhere.

Replication is summarised: a store is the sequence of writes it holds, and one write
or one snapshot arrives per step. A replica that has nothing is registered at the
position of its first snapshot before any of it has come (`coming`), and `credited`
is what the leader's registry counts a follower for: the writes it holds, or those of
that snapshot. A follower that died counts until its pod is back. The Lease is the
variable `holder`, which may move at any moment; `Lease` shows that a round that
passes the freshness check of `choose` has held it throughout, and `fresh` is cleared
when it moves. `since` is `unreachableSince`, a clock of each controller's own that
only its own rounds clear. A promotion is a request (`Promote`, `Repromote`) and its
arrival (`PromoteArrives`), with nothing to bound the time between them, as its client
has no timeout; it dies with the node it was sent to. A move of the Service that is
refused may have been made all the same (`Point`). `Listed` is the order in which the
API server lists the pods, by name, and `choose` takes the first of those that got
furthest. Unreachable time is an age in ticks, capped at `Grace`.

`Stream` is one replication connection, byte side up. A frame is a header and
the pieces of its payload (`writeFrame`, `frameFrom`); `Lock`, `Write`,
`WriteChunk` and `Flush` are the steps of `stream.frame` for either of the two
goroutines that call it. `buffer` is what net/http holds until a flush, `wire`
what the network holds. `Accept` to `BeatingWait` are the handler and its two
deferred calls, `Watch` the goroutine that merges four channels into `until`,
`Beat` and `BeatEnds` the heartbeat. The Follower reads a piece at a time
(`Read`, `takesHeader`, `takesPayload`), applies, and returns from `stream` for
any of the reasons the code has; `longerWait` is the switch of `run`. Time is a
count of ticks, and goroutines that can run do so before the next one:
heartbeat, idle timer, backoff and the network's delay are measured in them.
`AtRest` says what each goroutine waits for when none can go on. `FollowFails` is
every error of `db.Follow`: a position that was merged away is answered with a
snapshot, if one can be spooled, and anything else ends the stream.
`FrameChannel` is what the connection promises, and `FramesStayWhole` is the
refinement: the frames on their way are those that are out and not yet read.

`Shutdown` extends `Role` with the rest of the process: the Writer's queue,
streams, and `run` from the signal (or a listener that fails) to the exit.
`Shutdown` may give up at any time; `Close` runs twice, once called and once
deferred; `Stopping` is `Role`'s `TakeStop`, `Cancel` and `Waited` for each of
the two calls.

`Reads` models `notStale` over a cluster. A store is the sequence of writes it
holds; its position is its term and their number. `Check` and `Answer` are apart,
because nothing holds the store between the question and the read; `AwaitEnds` is
the return of `db.Await`; `Fire` and `Done` are the goroutine that closes `until`.
`Replicate`, `StartSnapshot`, `EndSnapshot` and `Promote` are what the other modules
establish about stores, a step each. `Enlist` is as permissive as `role.go:168`: a
leader may be put behind any node that is not on an older term, one that follows and
one on its own term included.

`Records` models the handlers of one key, of a batch and of a range. A body is a
sequence of lines of some size; `ReadBody` hands the Scanner any number of bytes
with any error the reader can have, `Grow` is the Scanner's limit, `AddLine` and
`RefuseLine` a turn of `parseBatch`'s loop, `Parsed` its end. Bytes are text or
not; `onTheWire` and `fromTheWire` say what becomes of them. `statusOf` is the
table of `errors.go`, for the errors a handler here can meet.

`CopiedLog` is what semi-synchronous replication promises a client: a log, copies
of it that only move forward, and answers that are final, a 204 only while as
many copies as were asked for hold the write. `Promised` maps the leader's
position, the stores, the positions waited for and the statuses of `SemiSync` to
it, and `CopiesKeepThePromise` is the refinement.

`Handover` is what `Lease` promises: one controller may act at a time, and it
has stopped before another starts. `Acting` and `Entitled` map a Lease state to it,
by `choose`'s check and by the margin; `HandsOver` and `HandsOverInTime` are the
refinements.

`MCSemiSync`, `MCRole`, `MCLease`, `MCFailover` and `MCRecords` give the
instances their initial stores, bodies, queries and symmetry; `Stream`,
`Shutdown` and `Reads` need nothing a configuration cannot say. `RegistryProofs` (of `Positions` and `SemiSync`),
`LeaseProofs`, `ShutdownProofs` (of `Role` and `Shutdown`), `ReadsProofs`,
`FailoverProofs`, `StreamProofs` and `RecordsProofs` hold theorems, and
`SequenceLemmas` what several of them need of sequences.

Definitions that stand for the engine, for Kubernetes or for the network are
marked `external` in the map of `PROJECT.json`; they are modelled from how this
repository uses them.

## Runs

Passing runs. Every property has at least one mutant of the code, listed in
`PROJECT.json`, that its run refutes.

| run | instance | shows |
|---|---|---|
| `semisync_registry` | 1 node, 2 ids, 2 stream slots, 1 write after 1 stored record, 2 posts in flight, 3 faults out of a dropped connection, a post given up (and lost, or applied later), a restart, `CloseStreams`; stores that start empty, behind, or with a newer term; divergence | `RegisteredIsServed`, `RegistryBacked`, `AcksAreHonest`, `NoLostWakeup`, `StreamIsContiguous`, `RegistryNeverRewinds` |
| `semisync_promise` | 2 nodes that start current, `-wait-for 2`, 2 writes, 3 slots (an overlap for one of the nodes), a drop or a failed post, no restart, no divergence | `PromiseKept` (behind a 204 there are `-wait-for` stores that hold the write), `CopiesKeepThePromise` |
| `semisync_live` | 1 node, 1 slot, 2 writes, drops, `CloseStreams`, divergence, no failed posts | `WritesAreReached` |
| `stream` | 1 follower that starts empty or with a batch, 2 batches, snapshots of 2 chunks, a heartbeat shorter than the idle limit, delays and slow chunks that add up to more than it, 1 fault out of a reset, a silent link, a failed dial, a refusal, a `db.Follow` that fails, a fenced batch and `CloseStreams` | `ResponseIsLeftAlone`, `WorkingConnectionIsKept`, `BacksOff`, `FramesStayWhole`, `DeadConnectionEnds`, `StreamsEnd`, `EverythingArrives` |
| `role_all` | 1 promotion, 1 close, 2 requests to follow either of 2 leaders, 1 write, a node started with `-leader` | `RoleIsTheFollower`, `EveryFollowerHasAStopper`, `OwnFollowerEndsFirst`, `StopsEnd` |
| `shutdown` | the same process with 1 promotion, 1 request to follow, 1 write and 1 stream in flight, both calls of `Close`, a `Shutdown` that may give up | `NoneTurnedAway`, `AcceptedIsStored`, `StoreClosesAlone`, `ShutdownEnds` |
| `reads` | 3 nodes, 2 writes, 1 read with or without a wait, 1 failover, snapshots where stores have diverged, a store that closes | `PositionsAgree`, `ReadYourWrites`, `ReadsEnd` |
| `records` | 2 requests, 4 byte values of which one is not text, a batch limit of 5 bytes with bodies of 2 to 9, a scan limit of 3, a store that may be closed or fenced at any moment | `TypeOK`, `BlamesTheRightThing`, `RoundTrip`, `AllOrNothing` |
| `lease_held` | 2 controllers, a lease duration of 5 ticks written as 4, GETs of up to 1, one late PUT, one restart | `FreshIsHolder`, `EntitledIsHolder`, `HandsOverInTime`, `SeizedOnlyWhenSilent` |
| `failover_acked` | 3 nodes, 2 controllers, a Lease that moves at any moment, 1 write, 1 death, every live node answers, one move of the Service refused or unheard, a dead pod returns between rounds, no grace | `AckedSurvives`, `OneLeaderPerTerm`, `LeaderIsNeverEnlisted` |
| `failover_settles` | 3 nodes, 1 controller, 1 write, 2 deaths anywhere in a round, though not of the first leader once it follows, 1 missed probe or refused call (not the one that moves the Service), return at any moment, no grace | `Settles` |

The type invariant of every module is a theorem (below); `records`, where it
bounds a buffer, is the run that repeats one.

The bounds, and why they are enough:

- *Streams.* Two slots are what it takes for an old handler to overlap its
  follower's next stream; a third would be a second overlap of the same kind.
  Two posts in flight are what it takes for one to overtake another: `telling`
  sends one at a time, so a second one exists only after the first failed or its
  node restarted, and each of those is a fault.
- *Faults.* Three in `semisync_registry`, two in `semisync_live` and one in
  `semisync_promise`: a fault can fall inside the recovery from another, as a
  restart after a lost post or a drop during the redial after a drop.
- *Sequence numbers.* A follower one record behind and a write give batches of
  one and of two records, and a snapshot with a batch after it. One frame in
  transit per stream is enough to let the handler run ahead of its reader.
- *Role.* Two stoppers are what it takes for one to find the role already taken
  by the other; two requests to follow both pass the idempotence check before
  either follows. A second Follower can be started while the first still ends.
- *Lease.* One holder and one watcher are what it takes to seize a Lease; the
  proof covers any number. The ticks let a holder be silent for a whole lease
  duration, and be seized from, within the run.
- *Failover.* Two followers are what it takes for one of them to be behind, and
  `WaitFor = 1` what puts an acknowledged write on only one of the two. Pods are in
  an order, so only controllers are symmetric. Two controllers are what it takes for
  a round to outlast its Lease. Two terms are one failover after the first;
  `failover_settles` has a third, for the promotion of a write target that died and
  came back following. With a grace of none every promotion a longer grace would
  allow is allowed, and more; what the grace is for is the theorem `GraceRuns`
  and `FailoverGrace.cfg`, where nothing is written and two nodes are enough.
  `failover_acked`, `FailoverGrace.cfg`, `FailoverStoodBy.cfg` and `FailoverSelf.cfg` look at
  states without their labels (`WithoutLabels`): what a round reads of a label decides
  only which labels it writes.
- *Stream.* A heartbeat that comes between the header and the payload of a batch,
  and between two chunks, needs one frame of each kind and two chunks; a capacity
  of a few pieces is what it takes for a write to block. One fault at a time, at
  any moment: the recovery from it runs through every wait up to the cap.
- *Shutdown.* One of each kind of request is in flight when it begins, at any of
  its steps; two calls of `Close` are all there are. The proofs put no bound on
  the requests.
- *Reads.* Three nodes let a write, the read of it and a promotion be on three
  different ones; two writes let a store hold one and not the other, and two stores
  diverge. A snapshot that nobody needed is `ReadsReset.cfg`, and the proofs put no
  bound on those either.
- *Records.* A limit of 5 bytes and lines of 2, 3, 5 and 6 put a line, a newline
  and the end of a body just before, at and after the limit, and a starting
  buffer of half of it makes the Scanner grow once. Two requests are a range and
  the batch it is posted back as, or a batch and what changes under it.

Deadlock is not checked: all of these systems stop for good when the bounded
writes, faults and ticks are used up.

`semisync_live` leaves out overlapping streams and lost posts on purpose. With
an overlap an old handler can take a live stream out of the registry, and that
is what `SemiSyncOldHandler.cfg` shows; a lost last post on a quiet store is
accepted by `telling`'s own comment and turns a 204 into a 202.
`semisync_promise` leaves out empty followers, restarts and divergence on
purpose. `semisync_fresh` reports the first and `SemiSyncTwice.cfg` what becomes of the second.
The third leads to the first: a follower whose position was merged away is sent
a snapshot and resets its store to take it, and if that connection drops it
dials again with an empty store.

One run is expected to find a violation, of the sentence of the repository that its
finding in `PROJECT.json` quotes:

| run | the code | the counterexample |
|---|---|---|
| `semisync_fresh` | `replica.go:506` | An empty follower is registered at the position of a snapshot of which nothing has been sent. A write whose record is in that snapshot is answered 204; no follower holds anything. |

## Fairness

- `SemiSync!Fairness`: handlers, the Follower's loop, `telling` and the HTTP
  server's handling of posts go on when they can. Goroutines that are runnable
  run, `run` redials after every stream, and requests that were sent and not lost
  are handled. Faults are not fair, and neither is the timeout of a write: it may
  come at any time or never matter, so `WritesAreReached` is not earned by it.
- `Role!FairSpec`: the handlers of promotions and closes run, and a goroutine
  whose context is cancelled ends. The second is what `Follower.stream` does: its
  request has that context, and `db.Apply` of the batch in hand is finite.
- `Failover!FairSpec`: pods are recreated (Kubernetes), replicas redial
  (`Follower.run`), records that are stored are sent, `run`'s ticker starts
  rounds, rounds go on, and time passes. Writes, deaths and moves of the Lease
  are not fair.
- `Stream!FairSpec`: goroutines that can run do (`Prompt`), time passes, a chunk
  that fits is written, bytes that have arrived are read, and TCP gives up a
  connection that delivers nothing. The last is what the code's comments count
  on too ("about fifteen minutes"); without it a follower that asks a silent
  leader would wait for ever.
- `Shutdown!FairProcess`: `run` goes on, and so does every handler but the one
  that asks another node for its term; bodies end or run into `ReadTimeout`,
  waits for followers into `-wait-timeout`. `GaveUp` is not fair: the process
  ends without counting on `-shutdown-timeout`.
- `Reads!FairSpec`: handlers run, timers fire, and a `select` with a case that is
  ready takes it. Nothing of the cluster is fair: a read is answered whether its
  store gets there or not.
- `Lease` and `Records` have no liveness property and no fairness.

Assumptions named as constants: `SlowReturn` (a dead pod comes back between
rounds rather than within one), `Missable` and `MaxMisses` (which calls of a
round may go wrong, and how often), `MaxLatency` (how long a GET takes),
`EmptyStores` (the replicas have had no snapshot yet), `MayDiverge`, `Faults`, `ApplyTime` and `ChunkGap` (how long a store and a disk
may take), `SlowFollowers`, `Closable`. Each of them is dropped in some run or in
a configuration of the next section, which shows what it stands between.
`SlowReturn` stands between `failover_acked` and a lost write: without it the
old leader can return between the look and the promotion, and acknowledge a
write with the replica that is not promoted. `EnlistedDies` stands between
`failover_settles` and `FailoverStranded.cfg`. A snapshot whose file ends early is
a step of `Stream!SpecShort` only, and `StreamShort.cfg` what it does.

## What the code does not keep

Beside that run, the models refute other sentences of the repository.
Each has a configuration here, or one with the change that is named, and a property
in the module; run it with `tlc -config <cfg> <module>` to see the steps.

| configuration | module | property | what happens | the sentence |
|---|---|---|---|---|
| `SemiSyncTwice.cfg` | `MCSemiSync` | `EachNodeCountsOnce` | A follower restarts before the leader notices; its old id is still registered, and one node counts as two. | `follower.go:201` "the leader forgets the old one either way" |
| `SemiSyncOldHandler.cfg` | `MCSemiSync` | `StreamingIsRegistered` | A connection drops; the follower redials and attaches; the handler of the dropped connection ends and deletes the id. The stream goes on, and its acknowledgements are a stranger's. | `acks.go:54` "followers is the registry: who is streaming" |
| `StreamUnheard.cfg` | `Stream` | `HeardOrDropped` | The leader takes the request and says nothing, not even a status: the idle timer is set only after it. | README.md:639, a follower that hears nothing for `-idle` drops the connection |
| `StreamAll.cfg` with `ApplyTime = 5`, `Faults = {}` | `Stream` | `WorkingConnectionIsKept` | The store takes longer than `-idle` over one batch; nobody reads meanwhile, and the timer ends a connection that works. | `follower.go` `Idle`, "a bound on silence and not on a frame" |
| `StreamShort.cfg` | `Stream` | `FramesStayWhole` | A snapshot file ends early, the lock is released with the payload unfinished, and the heartbeat's next frame is read as the rest of it. | `replica.go:249` "the stream ends rather than being left out of step" |
| `RoleWriteEnlist.cfg` | `MCRole` | `WrittenOnlyWhileLeading` | `mayWrite` is asked before the body is read; the node is enlisted; the write is stored. | `role.go:30` "the failure this file exists to prevent" |
| `RoleWritePromote.cfg` | `MCRole` | `NoWriteBesideFollower` | A promotion clears the role, and then waits for the Follower: a write is taken into a log the Follower still applies to. | the same |
| `RoleBehind.cfg` | `MCRole` | `NeverBehindAnOlderTerm` | A promotion falls between the comparison of terms and `Follow`. | README "It refuses, with a 409, to follow a node whose term is below its own" |
| `ShutdownUnderABatch.cfg` | `Shutdown` | `NeverUnderABatch` | `Shutdown` gives up on a request to follow; `Close` finds no Follower; the request starts one; the store closes under it. | `main.go:313` "closes the store under a batch the follower was in the middle of applying" |
| `ReadsReset.cfg` | `Reads` | `NeverWithoutIt` | A replica passes the check, a snapshot resets its store, and the read finds nothing: 404. | `role.go` `notStale`, "says so rather than answering with what it has" |
| `ReadsCookie.cfg` | `Reads` | `CookieCoversItsWrite` | The node is enlisted and its log replaced between storing a write and asking for its position: the client is given a position of the new leader's. | `role.go:390` "at or after the write, never before it" |
| `RecordsExact.cfg` | `MCRecords` | `NeverTooLargeWithinTheLimit` | One line of exactly `-max-batch` bytes without a newline fills the Scanner's buffer, which is an error before the end is seen. | `batch.go:90` "a body is at most max bytes, so a line cannot honestly be longer" |
| `RecordsStray.cfg` | `MCRecords` | `OneValueOnALine` | `More` says no at a closing brace, so a line with `}` and anything after its object is taken. | `ndjson.go:156` "A second JSON value on the line is refused" |
| `LeaseDefaults.cfg` with `INVARIANT FreshIsHolder` | `MCLease` | `FreshIsHolder` | With a 15 s lease and the API client's 10 s timeout: a first GET takes 10 s, sees a renewal made meanwhile and dates it from before the GET (`lease.go:121`). The watcher seizes the Lease after the 15 s it counts, while the holder finds it fresh. | `controller.go:53` "stops acting before its Lease could be handed on" |
| `LeaseHeld.cfg` with `PROPERTY GivenBackIsTaken` | `MCLease` | `GivenBackIsTaken` | `dropLease` writes a time in the past; `stale` looks at the version only, which has just changed, and waits a whole duration. | `lease.go:127` "so that another controller can take over in the next second" |
| `FailoverAcked.cfg` with `EmptyStores = TRUE` | `MCFailover` | `AckedSurvives` | An empty follower is registered at its snapshot's position, the write is answered 204 on the strength of it, the leader dies before the snapshot is through, and the empty follower is promoted: `semisync_fresh` and what follows from it. | `controller.go:331` "promoting a caught-up follower cannot lose one" |
| `FailoverAcked.cfg` with `Missable = {"probe"}` | `MCFailover` | `AckedSurvives` | The replica that acknowledged misses one probe, and the other is promoted. | the same |
| `FailoverAcked.cfg` with `MaxCrashes = 2` | `MCFailover` | `OneLeaderPerTerm` | A promoted node dies before the Service is pointed at it; nobody has heard of its term, and the next promotion reaches the same one. | `role.go:248` "two stores on the same term" |
| `FailoverStranded.cfg` | `MCFailover` | `Settles` | The old leader returns, is enlisted, takes the new leader's term with its records, restarts from a template without `-leader`, and leads on that very term. `enlist` wants a strictly older one and leaves it leading for good (`controller.go:469`). | `controller.go:434` "comes back reporting role=leader on an old term" |
| `FailoverHalfway.cfg` | `MCFailover` | `Settles` | The promotion succeeds, the move of the Service is refused, and the old leader answers again: nothing remembers the promotion, and there are two leaders for good. | `controller.go:370` "Promote first, then move the traffic" |
| `FailoverLate.cfg` | `MCFailover` | `PromotedByTheHolder` | The freshness check comes before a request that no timeout bounds: the promotion arrives when another controller holds the Lease. `FailoverAcked.cfg` passes beside it: the other controller chooses the same node, by the order of the pods. | `controller.go:342` "Acting on a lease most of the way to expiring is how two controllers come to overlap" |
| `FailoverStoodBy.cfg` | `MCFailover` | `GraceIsARun` | A controller finds the leader silent and starts its clock; the Lease goes to another controller, which finds the leader well; the Lease comes back, one probe fails, and the first controller promotes at once: a round without the Lease returns before anything can clear its clock (`controller.go:126`). `FailoverGrace.cfg` is what is left, `GraceIsItsOwnRun`, and passes. | `controller.go:61` "Reset the moment it answers again, which is what makes -grace a run of failures rather than an aggregate of them" |
| `FailoverSelf.cfg` | `MCFailover` | `LeaderIsNeverEnlisted` | A round reads that `a` leads on an older term than the write target `b`, and loses the Lease. `b` dies, another controller promotes `a` and points the Service at it; the first round then tells `a` to follow the Service (`controller.go:497`). It takes two deaths. | `controller.go:458` "must never be told to follow anything" |
| `FailoverChain.cfg` | `MCFailover` | `NoChaining` | The role is asked when a stream starts and never again: an enlisted leader goes on serving. | `replica.go:394` "there is no chaining in the protocol" |

## Proofs

`tlapm <module>.tla` checks each module that holds theorems.

Every theorem is about every value of the constants, but for the assumption each
module names (`SemiSyncAssumption` and so on) and the premise a theorem states:
`Steady`, `OneDeath`, `HeardInTime`, `MinBackoff > 1`.

*`SequenceLemmas`.* When one sequence is where another begins (`Within`), and
definitions by recursion along a sequence. A recursive function is a `CHOOSE`, so
nothing follows from it until something satisfies its equation: `Recursion` says
that something does, and `StaysIn` what its values have in common. Both rest on
induction stated of a set (`Counts`), which the provers can instantiate where
they cannot an operator.

*`RegistryProofs`, positions.* `reaches` is reflexive, transitive and total, and `further`
is its strict converse (`FurtherIsNotReached`): the controller ranks candidates
by the order the leader counts acknowledgements in.

*`RegistryProofs`, types.* `Typed`: `Spec => []TypeOK`, from `SemiSyncAssumption` alone.
`TypeOK` is inductive as it stands because it ties ids to `owner`: whoever is in
the registry, has a handler or has a post on its way is an id some node made up.

*`RegistryProofs`, the registry.* One inductive invariant, `Backed`, gives the four properties
of the registry. `RegistryBacked` alone is not inductive, and each conjunct
added repairs one step:

| conjunct | needed for |
|---|---|
| `Owns`: the id of a Follower, of its handler and of what it posts is its own | an acknowledgement says something about the node whose id it carries |
| `UnderPeak`: `applied` and a stream's starting point lie under `peak` | `Attach` with a position the follower dialled with |
| `AcksAreHonest` | `Acknowledge` |
| `FromIsBacked`: what a handler would register is applied or is the snapshot it holds | `Attach` after `Accept` took a snapshot; `Diverged` |
| `RegistryBacked` | the property |

`EntryMove` is the lemma the preservation rests on: an entry of the registry
leaves, stays, becomes the starting point of a handler that attaches, or becomes
an honest acknowledgement. `HandlerMove` is its counterpart for streams.
`Served` is inductive with `TypeOK`: only `Attach` creates an entry, and the
handler that does is then attached; an entry loses its last handler only in
`Detach`, which deletes it. `NeverRewinds` follows from `EntryMove`, since `ack`
and `attach` change an entry only to a later one. `NoWakeupIsLost` needs that the
registry is finite (`FiniteRegistry`, itself an invariant), so that counting
followers means something: every step that makes more followers reach a position
wakes every sleeper.

*`RegistryProofs`, the promise.* `Contiguous` and `PromiseKeeps`. The first rests on `InOrder`, an
invariant of the pipes: a slot has at most one reader (`OneReader`), nothing is on
it before its handler has sent something, and then each batch starts where the
frame before it ends, the first one where the reader's store is or will be once
the snapshot in hand is taken, and the handler's own position is the end of the
last (`InStep`). Whoever takes over a slot finds it empty, which is why a stale
handler cannot leave a gap.

`PromiseKeeps` has a premise on the constants, `Steady`: finitely many nodes, no
restart, no divergence, no store that starts empty. Each of the last three is
needed: `SemiSyncTwice.cfg` and the run `semisync_fresh` break the promise with a
restart and with an empty store, and after a divergence the store is reset in the
same way. Drops, lost and late posts and overlapping streams are all allowed. The
invariant adds to `Backed` and `InOrder`:

| conjunct | needed for |
|---|---|
| `Plain`: no snapshot is sent, and no store is behind its own peak; every batch on its way moves forward, from a term that is not newer | a store that was counted still holds the write |
| `OneIdEach`: a node goes by one id | ids counted are nodes counted (`CountedHold`, by an injection) |
| `Finished`: an answer is the last thing that happens to a write | what was promised is not changed afterwards |

`Copies` is the refinement of `CopiedLog`, under the same premise. It adds two
conjuncts: `Open`, that a write under way has no answer, and no place before it has
asked for one, and `Cut`, that every batch on its way ends within the leader's log,
on the leader's term. A batch that is applied is then a step of one copy along the log
(`FollowerCopies`), a 204 that is given is backed by the copies that were counted
(`WriteCopies`), and every step of the registry or of a stream is a stutter.

*`LeaseProofs`.* `EntitledHolds`: whoever renewed the Lease in a round that began
less than the written seconds, less one GET, ago is the controller the Lease names,
for any number of controllers, any timing, and a GET of any length. The inductive
invariant `Known`:

| conjunct | needed for |
|---|---|
| `Stamps`: nothing was stamped in the future, and a GET under way has not outlasted `MaxLatency` | `Get`: the watch starts at most a GET before the version was seen |
| `Versions`: nobody knows of a version the Lease has not had | `Put`, `LatePut`: a version written just now is one nobody has seen |
| `HeldThenRenewed`: a holder has held the Lease no later than it was renewed, and what it may yet write renews it later still | a silent Lease has no fresh holder |
| `SeenAfterRenewed`: who remembers the present version saw it no earlier than `MaxLatency` before it was written | the watcher's count is too high by at most a GET |
| `TakenWhenSilent`: who is about to write over another's Lease found it silent for long enough | the step in which the Lease changes hands |

`SlowToSeize` is the action property from the same invariant. `HandsOnInTime` is the
refinement: a controller becomes entitled only in the step that writes the Lease
(`NobodyStartsToAct`), and at that step nobody is (`NobodyWasActing`, from
`TakenWhenSilent`), so every step is a `Take`, a `Leave` or a stutter of `Handover`.
None of these has a premise on how long a GET takes. What the code counts is half a
lease duration, which lies within the margin where half a lease duration and a GET
fit into the written seconds; the lemmas `FreshHolds` and `HandsOn` say that then
`FreshIsHolder` and `HandsOver` hold too. The shipped defaults, 15 s and 10 s, are
outside of that: `LeaseDefaults.cfg` keeps `EntitledIsHolder`, and with `FreshIsHolder`
in its place is violated.

*`ShutdownProofs`, the role.* `Typed`, `RoleAgrees`, `OneStopperEach` and `OwnEndsFirst`, for any
number of promotions, closes and requests to follow. The inductive invariant
`RoleInv`:

| conjunct | needed for |
|---|---|
| `RoleIsTheFollower` | the property; `TakeStop` clears both |
| `StartedSomewhere`: every Follower was started against an address | `StartFollower` sets a leader that is one |
| `TakenIsOwned`: what a request took is not the role's, nor another request's | two `TakeStop`s never cancel one Follower |
| `TakenEnds`: how far a taken Follower has ended, by how far its request is | `RaiseTerm` comes after `Waited`, and `Waited` after the Follower is done |
| `AliveIsOwned`: a Follower that lives is the role's or some request's | `EveryFollowerHasAStopper` |

*`ShutdownProofs`, the process.* `ProcessIsANode`: `ProcessSpec => Spec`. The
process is a refinement of `Role`, so what is proved of a role holds until the
process has exited. `WriterInv` then ties the queue, the Writer and the stage of `run`
together: the Writer is closed after the requests were waited for, and emptied
before the store closes. It gives `Stored` and `NobodyTurnedAway`. `ClosesAlone`
adds `CloseInv` (`run` is past stopping the Follower only when every call of
`Close` that has begun has ended) and `WaitedInv` (where everybody was waited
for, no promotion or enlistment changes the role any more, and once a `Close` has
begun the role holds no Follower).

*`ReadsProofs`.* A position means something on another node because terms do:
`ReadsInv` is `TypeOK` and

| conjunct | needed for |
|---|---|
| `OneLeader`: one node leads a term, and a store that is being reset follows one that is not behind it | `Promote`, `EndSnapshot` |
| `Histories`: of two whole stores on one term, one is where the other begins, and the leader's is the longer | `PositionsAgree`; `Replicate` extends a store by what the leader has next |
| `StoredThere`: a write is in every whole store on its term that is as long as its position | a sequence number finds the write it was given for |
| `Carried`: a read carries the cookie of a write that was answered | `Check`, `AwaitEnds` |

`ShowsYourWrites` is about positions that are honest: those asked of a store that
held the write. A node that is enlisted between storing a write and asking for
its position hands out another kind, and the premise of `ReadYourWrites` says so;
`ReadsCookie.cfg` shows that it cannot be dropped.

*`FailoverProofs`.* `Typed` and `GraceRuns` have no premise. `NoAckIsLost`,
`TermsTellLeadersApart` and `EnlistSparesTheLeader` are for any number of nodes,
controllers, writes and terms, any grace, rounds that look piece by piece, a Lease
that moves at any moment, promotions that arrive at any later one and API calls that
are refused or not heard of, under `OneDeath`:

| premise | without it |
|---|---|
| one node dies at most | `OneLeaderPerTerm`: two promotions reach one term; `FailoverSelf.cfg`: the leader is told to follow itself |
| `"probe" \notin Missable`: a node that is up answers | the replica that acknowledged is not among the candidates |
| `SlowReturn`: a dead pod is not back before the round that saw it gone is over | it acknowledges a write with a replica that is not promoted |
| `RequireWaitFor \/ WaitFor > 0` | a failover of a cluster whose 204 means the leader alone |
| `~EmptyStores`: the replicas have had their first snapshot | a 204 that counts a follower with nothing, which is then promoted |

The counterexamples are the variants of `FailoverAcked.cfg` in the table of the
section before this one. A cluster goes through three stages: the first leader leads;
another node was promoted and the Service still names the first; the Service names the
promoted one. `FailoverInv` says what holds in each, with the types:

| conjunct | needed for |
|---|---|
| `NodesInv`: one node is down at most, one is promoted at most, and then somebody died | no second promotion; `OneLeaderPerTerm` |
| `StreamsInv`: who replicates does so from where the Service leads; a first snapshot is under way only once the Service has moved, and is of a term no newer than the node's it now names | `Replicate` adds acknowledged writes and takes none away; what is `credited` is held, or is on a store that is whole |
| `TermsInv`: none but a promoted node has a term until the Service names it, and none is ahead of it then | a promotion reaches a term nobody has |
| `StoresInv`: until then a store is where the first leader's begins, as far as its position says | of two positions, the further one has all the writes of the other (`ElectedHolds`) |
| `AckedInv`: until a promotion some replica has each acknowledged write; after it the promoted node does while the first is down | the candidate that is chosen has them all (`ArriveStep`), and the Service may be moved to it (`PointStep`) |
| `ElectedInv`: as long as the first leader is down, whoever is promoted is the node a round would elect | every promotion in flight is for it |
| `Viewed`, `Asked`: what a controller has heard so far is still so, as far as it will act on it, or its round is not fresh any more | a look that takes time: `Answer`, `ReadService` |
| `Decided`, `Acts`: whom it finds the best is `Elected`; who is to be enlisted is the old leader; the one the Service is to be moved to was promoted | `Enlist`, `PromoteArrives`, `Point` |

`Elected(n)` says of the nodes alone that `n` is the one to promote: it leads
already, or nobody does and it is the first in the list of those that got
furthest. There is one such node, so any number of promotions may be in flight, from
controllers that have lost the Lease too: all of them are for it, and it raises its
own term at each. That takes a total order of the candidates: where ties fell to any
of them, two controllers would promote two nodes to one term, which the mutant
`isBestInAnyOrder` of `failover_acked` shows. That two rounds list the pods in one
order is the assumption (`FailoverAssumption`); the API server lists a namespace's
pods by name.

`GraceRuns` ties each controller's clock to the rounds in which it found the leader
well (`ClockInv`): a clock that runs is no older than the last of them. It says
nothing of the rounds of others, and cannot: `failover_stood_by` is what the code does
when the Lease goes away and comes back. Nor is the clock about one leader: where the
Service is moved by another controller in between, it runs on over the new one.

*`StreamProofs`.* `Typed`, `NobodyWritesOn` and the refinement `FramesArriveWhole`
hold for chunks, capacities, delays and faults of any number. `StreamInv` is the
types and

| conjunct | needed for |
|---|---|
| `TurnsInv`: who is not sending has nothing to write and not the lock, and no heartbeat outlives its handler | `ResponseIsLeftAlone`; `Lock`, `Write` |
| `EndsInv`: where the leader's end of a connection can be, by where the Follower's is | `Read`, `Accept`, `Redial` begin and end with an empty line |
| `TodoInv`: what is left to be written is the end of one frame, and all of it until the lock is held | `Lock` |
| `LineInv`: what is being read, the pieces on their way and what the holder of the lock has yet to write are consecutive | the refinement: a frame that is complete at the Follower is the first that was complete on the way |

`inFlight`, by which a connection is mapped to `FrameChannel`, is a recursive
function over the pieces on their way; the lemmas about `lastPieces` say what it
comes to after a piece is added, aged or read. `NeverAtOnce` is `BacksOff` and has
the premise `MinBackoff > 1`: half of a wait is fixed and the rest is drawn, and
with a shortest wait of one unit of the clock the half of it would be none; the
code's unit is a nanosecond.

`WorksOn` is `WorkingConnectionIsKept`, with `HeardInTime` as its premise: a
heartbeat, the pause between two chunks and the network's delay together are
shorter than the idle limit, and so is the time the store takes over a batch. The
premise is tight: TLC finds a connection that works and is dropped when the three
add up to the idle limit, and when `ApplyTime` reaches it. It is an argument about
how long a follower can have heard nothing, and time passes only in `Tick`, where
every goroutine rests:

| conjunct | needed for |
|---|---|
| `HandInv`: who is sending has the end of one frame in hand, or the lock | a writer at rest waits for the other, for room or for the disk, and for nothing else |
| `BufferInv`: what is not flushed yet is of the frame in hand, and two pieces at most | no piece is held back while its sender waits for something else |
| `BeatInv`: the heartbeat goes on until there is a reason to stop | there is a beat to come while a stream is served |
| `QuietInv`: how long the follower has heard nothing, by what is on the wire: a piece on its way is no older than its delay, an empty wire no older than the leader's `silence` | `cut` comes only after `Idle` |

*`RecordsProofs`.* `Typed`, `BlamesRightly`, `ComesBack` and `WholeOrNot`, for any
number of requests, any bytes, any bodies in any pieces, any limits. `RecordsInv`
is the types and, of every request,

| conjunct | needed for |
|---|---|
| `InPlace`: the Scanner is at the end of a line, or of what it was given when its reader failed in the middle of one; an error it has is what the body deserves | a token is the rest of what there is of one line (`TokenIs`, `TokenTaken`); a buffer that is full without a newline is a line too long (`GrowOn`) |
| `SoFar`, `Whole`: what was added to the batch is what the lines up to that place are meant as, none of them says nonsense, and each is within the limit | `AllOrNothing`: a body that ended has been read to its end, each line in its place |
| `Blames`: what a client is told is the fault of a line or of the whole | `BlamesTheRightThing` |
| `CopyInv`: a body that was copied from a range is that range's, as it was sent | `RoundTrip`, with `OneComesBack` and `AllComeBack`: a pair that is encoded and decoded is the same pair |

`Effect`, `matches`, `over`, `upTo` and `meant` are recursive functions, unfolded
a step at a time by `Bytesum`, `Further`, `Sayings`, `EffectOfBatch`, `MatchesOf`
and `OverPairs`.

Only model-checked: liveness (`WritesAreReached`, `StopsEnd`, `Settles`,
`DeadConnectionEnds`, `StreamsEnd`, `EverythingArrives`, `ShutdownEnds`,
`ReadsEnd`), which is out of the prover's reach, and `FreshIsHolder`
as far as it goes beyond the margin. Every other safety invariant, action property and refinement that a
run checks is stated by a theorem. The theorems
put no bound on nodes, controllers, streams, ids, requests, posts or writes;
`MaxSeq`, `MaxPipe`, `MaxPosts`, `MaxFaults`, `MaxTerm` and the like are constants
in guards and may be any naturals.

## Not modelled

- *Streams without an id*: they never enter the registry.
- *Server wiring, metrics, flags*: options and their defaults, routing, the
  bearer token and the Prometheus text are pure I/O or counters under one mutex.
- *`-dry-run` and tokens of the controller*: nothing changes state under them.
- *Crash of the store*: what the engine keeps over a crash with each sync policy
  is outside this repository; a store survives whole.
- *Escaping inside a JSON string, and the text of messages*: `Records` knows
  which bytes are text, not how they are spelt.
- *Clocks that run at different rates*: `Lease` has one time for all.
- *Helm chart, drills and the mutation tool*: no run-time state. The chart decides
  who is born leading, and that is in `Failover`'s `Return`.

## Plan

Written: `Positions`, `SemiSync` with `CopiedLog`, `Role`, `Lease` with
`Handover`, `Failover`, `Stream` with `FrameChannel`, `Shutdown`, `Reads` and
`Records`, with the proofs above. What the models leave out is in the section before
this one.
