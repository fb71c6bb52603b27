# strfry in TLA+

strfry is a nostr relay: clients send it signed events over websockets, ask for
stored ones with filters, and stay subscribed to new ones. Events live in an LMDB
database that several threads of the relay, and several commands run beside it,
share. This directory holds TLA+ modules translated from the C++ code, TLC
configurations that check them on small instances, and TLAPS proofs.

Paths below are relative to the repository (`src/` is its source directory).

## The system

| Part | State | Operations | Talks to |
|---|---|---|---|
| Event store (`events_write.cpp`, `events_db.cpp`, `golpe.yaml`) | table Event with its id, deletion, replace, expiration and tag indices; levIds are LMDB's next integer keys | `writeEvents`, `deleteEvents` | called by writer, cron, delete, import, sync |
| Packed events (`events_parse.cpp`, `PackedEvent.h`) | none | JSON to the indexed summary of an event | Ingester, WriterPipeline |
| Negentropy trees (`NegentropyFilterCache.h`, `cmd_negentropy.cpp`) | stored filters, a modification counter, a tree per filter, a cached filter list per thread | freshen, insert, erase, add, build | every write transaction |
| Cron (`RelayCron.cpp`) | levIds chosen in the last scan | delete expired and old ephemeral events | store |
| Ingester (`RelayIngester.cpp`) | inbox, a read snapshot per batch | parse, verify, refuse, dispatch | writer, ReqWorker, Negentropy |
| Writer (`RelayWriter.cpp`) | inbox, batch | drop events of closed connections, write policy, write, answer | store, plugin, websocket |
| ReqWorker (`RelayReqWorker.cpp`, `QueryScheduler.h`, `DBQuery.h`) | running queries, registry per connection, sets of levIds sent | add, remove, run one time slice | ReqMonitor, websocket |
| ReqMonitor (`RelayReqMonitor.cpp`, `ActiveMonitors.h`) | `currEventId`, monitors, inverted indices | catch up, install, remove, process new events | websocket, `EphemeralSubTracker` |
| Negentropy thread (`RelayNegentropy.cpp`) | a view per connection and id, a `QueryScheduler` | NEG-OPEN, NEG-MSG, NEG-CLOSE, fill, seal and reconcile | websocket, trees |
| DBQuery (`DBQuery.h`) | cursors, candidate queue, sent sets | start a filter, collect, scan, pause | ReqWorker, Negentropy thread, delete, sync |
| Write policy plugin (`PluginEventSifter.h`) | a process, two pipes, the FILE buffer | acceptEvent | writer, sync, stream, router |
| WriterPipeline (`WriterPipeline.h`) | two inboxes, `numLive`, shutdown flags | write, flush, validate, batch | import, stream, sync, router |
| `strfry sync` (`cmd_sync.cpp`) | ids to upload and to request, two windows | onMessage, doExit | pipeline, plugin, another relay |
| `strfry stream` (`cmd_stream.cpp`, `WSConnection.h`) | the connection, `downloadedIds`, `currEventId` | connect again, receive, forward | pipeline, plugin, another relay |
| `strfry router` (`cmd_router.cpp`) | stream groups with their connections, `currEventId` | load the file, connect, upload | pipeline, plugins, other relays |
| Filters (`filters.h`) | sorted tables of values | doesMatch | everything that queries |
| Websocket thread, start-up, dictionaries | | | see *Not modelled* |

Threads exchange messages through FIFO inboxes that a thread empties at once
(`pop_all`). A connection is always served by the same Ingester, ReqWorker and
ReqMonitor thread. There is one writer.

What makes this hard: decisions are taken in one transaction and carried out in
another (cron, the Ingester's duplicate check, a paused query); levIds serve as
time stamps and must never be used twice; a subscription moves between two threads
while events are committed; a CLOSE chases the subscription through them; batches
hold events that replace, delete or duplicate each other; raw pointers in the
monitor indices; counters moved by several threads; two maps, of views and of
queries, that must agree about the same id; relays and plugins that answer late, out
of order or never; a configuration that is applied half-way. `PROJECT.json` lists each
hazard with its line and the properties that would catch it.

## Modules

    PackedEvent <- EventStore <- StoreRefinement <- MCEventStore
                                               <- EventStoreProofs
    PackedEvent <- AbstractStore       (instantiated by StoreRefinement)
    PackedEvent <- Filters <- ActiveMonitors <- MCActiveMonitors, ActiveMonitorsProofs
                   Filters, FilterSet <- DBScan <- MCDBScan, DBScanProofs
    ReqPipeline <- MCReqPipeline, ReqPipelineProofs
    NegentropyViews <- MCNegentropyViews, NegentropyViewsProofs
    EventIngress <- MCEventIngress, EventIngressProofs
    WriterPipeline <- SyncCommand                      <- WriterCommands
    WriterPipeline, PluginEventSifter <- StreamCommand <-
    WriterCommands <- MCWriterCommands, WriterCommandsProofs
    Router <- MCRouter, RouterProofs

A definition named `Mut...` is a wrong version of the definition that follows it,
the way a plausible bug would make it; no specification uses one. They serve to show
that each property notices such a bug.

**PackedEvent.** The kind classes and `nostrJsonToPackedEvent`: which events are
refused, which tags are kept, the virtual `d` tags, the expiration of ephemeral
events. `ReplaceKey` and `Deletes` are the keys of the replace and deletion
indices. Tag values carry their length so that the size limits are real.

**EventStore.** `db` is the table Event, a set of `[levId, ev]`; a new levId is one
above the highest stored, as LMDB's append gives it. A write transaction works on
`wdb`/`wtrees` and replaces `db`/`trees` at `CommitWrite`. LMDB's exclusive write
lock is the guard that no other writing transaction runs between `BeginWrite` and
the end of it. `WriteDuplicate`, `WriteDeleted`, `WriteReplaced` and `WriteEvent`
are the outcomes of one round of the loop in `writeEvents`. `Crash` throws the
open transaction and all memory away. `CronScan`/`CronDelete` and
`DeleteScan`/`DeleteApply` are the two transactions of cron and of `strfry delete`;
`NegentropyAdd` and `NegentropyBuild` the commands. `cache` is the writer's
`NegentropyFilterCache`; cron and delete make a fresh one each time. A stored filter
may have a limit: the queries of build and of delete stop at it (`QueryResults`: the
newest matches, ties in any order), while writers look at matching alone. What a tree
is to hold depends on when it was added (`from`, the most recent levId then; an event
that takes over a levId freed by `strfry delete` counts as older) and on whether it was
built (`built`). An array of filters among the stored ones makes
`freshenCache` throw: for the writer the batch fails, in cron nothing catches it and
the relay ends (`CronThrows`, a `Restart` like a crash). `Spec` is the relay with cron
and the negentropy commands, `SpecWithDelete` adds `strfry delete`.

**ReqPipeline.** The life of REQ, COUNT and CLOSE through Ingester, ReqWorker and
ReqMonitor, with the database changing below. Each REQ is a generation `g`;
`subs[g]` is the `Subscription` and its `DBQuery` (`full`, `cur`: the two sent
sets; `buf`: candidates collected by a paused scan), `running`, `reg`, `dead` are
the `QueryScheduler`, `mons`, `curr` the monitor, `wq`, `mq` the inboxes and
`wb`, `mb` the batches being handled with their snapshots `wtxn`, `mtxn`.
`SliceQuery(S)` is one call of `DBQuery::process`: it handles some of the events due
and pauses, or finishes filters. The order of events inside a slice is left open,
so what is shown holds for any scan order. `out[g]` is what was sent.
`Watcher` is the file change monitor: after a commit it eventually posts DBChange.

**Filters, ActiveMonitors.** A filter's optional fields are sets with at most one
member. `lookups` is the five monitor sets in one: an entry names the key, the
monitor and the position of the filter it points to, so an entry whose monitor is gone
is a dangling pointer; its value is the `latestEventId` of the item.
`Process`, `ProcessMonitorSet(e)`, `NextSet` and `Notify` are `process`: one set after
the other in the code's order, the items of a set one at a time and in any order, as
the hash map gives them. `Snapshot` moves `latestEventId`, the most recent levId of
the round, which new monitors start from: so a monitor may be ahead of the event that
`process` is at, and `ahead` records which are. `kindRefcounts` and `catchAllCount`
are the `EphemeralSubTracker`. Each call on it takes the lock by itself, so each is a
step: `Untrack` for the entries `removing` holds, then `Track` for those in `adding`, and
between any two of them an ingester may ask `HasSubscribersForKind`. The module is one
ReqMonitor thread; the others do the same with indices of their own and add to the
same counts.

**EventIngress.** An EVENT message from the websocket to its OK: the Ingester's
checks in order, the batch it gathers for the writer, the writer's filter of closed
connections (`closedConns`, known only for the batch at hand; `Skip` drops an event of
one), the write policy, the write and its failure. The write takes the batch in order
of time, one event per step on `wdb`; an event takes away in the same transaction what
it supersedes or deletes, which is the relation `Beats` here (EventStore has the rules
behind it). Cron and other processes remove events between transactions. `ever` and
`removed` are the history that a true answer is compared with.

**AbstractStore, StoreRefinement.** The store as its users may think of it: a set of
events that changes by transactions; putting an event takes away at once whatever it
supersedes or deletes; outside of transactions only what has expired disappears.
`StoreRefinement` maps EventStore onto it: `stored` is the events of `db`, `work`
those of `wdb` while the writer is writing. There are no levIds, indices, sort order
or deletions by levId in it, so the refinement says that none of these shows.

**NegentropyViews.** The Negentropy thread. `views` and `reg`/`running`/`dead` are the two
structures keyed by connection and id; the k-th message handled has number k, which names
the subscription, query and view it opens. A filter has the client's own `limit`, capped
by `maxSyncEvents + 1`; a query hands over the newest matches first, by `CreatedAt`, and
stops at the limit. An array of filters in one NEG-OPEN is left out. A round of the thread
reads one snapshot, so the database changes between rounds only. `handleReconcile` is
reduced to whether the payload parses. Two outcomes end the process: `bad_variant`, the
exception nobody catches, and `undefined`, the write to a view that `handleReconcile` has
just removed (RelayNegentropy.cpp:182).

**DBScan, FilterSet.** One query: the constructor's choice of index and keys, a cursor
per key with its resume point, `collect` with its jumps, the candidate word of 40 bits
of time and the scan index, the queue with refill and merge, the limit, the two sent
sets and a pause at the top of any round. The database changes while the query is
paused. The keys of tags and of author-kind pairs are numbers that keep them apart
(`TagKey`, `PubkeyKindKey`), as the bytes of an index key do; `CreatedLimit` is 2^40 in
the code. `Merge` is `std::merge`. ReqPipeline and NegentropyViews use what is checked
here: a slice hands over some of the events due, and none other. The loop inside
`collect` (DBQuery.h:42-86), which jumps from one record to the next, is one step: what
it takes is modelled, that it ends is not shown. FilterSet is the binary
search of `FilterSetBytes::doesMatch` over all small tables and candidates, `Halve`
being one round of its loop; strings are sequences of bytes, compared as
`std::string_view` does.

**WriterPipeline.** `write` and `flush`, the validator and the writer thread. The
increment of `numLive` and the push after it are two steps, as they are in the code,
and so are the validator's shutdown flag and its marker. `wait()` delays its caller
for at most 50 ms whatever happens and is left out.

**SyncCommand, StreamCommand, PluginEventSifter, WriterCommands.** Three commands over the
pipeline; `WriterCommands` starts one of them beside other processes that store and remove
events. *sync*: the other relay is a script of reconciliation rounds plus the answers it
owes; `Transfer` is the end of every message handler, where both windows are refilled and
the exit is decided. The ids to send and to ask for are sets: which of them go next is
left open. *stream*: one thread runs the loop and sleeps inside the handler of a
disconnection; `fresh` is what lies above `currEventId`, and `lost` what the loop took
from there while it had no connection. *plugin*: `acceptEvent` as spawn, `stat`, write,
`poll`, `fgets` and compare, with the process, its two pipes and the FILE buffer between
them. The process loads the script at a moment of its own, answers, prints something else,
a malformed answer or two answers, or dies; its command or script changes at any time.
Requests are numbered per process, which the code does not do: so an answer can be told
from one to an earlier request about the same event. `extra` records that a process has
printed an answer too many, `raced` that its script was modified while it was being
started. sync calls the same `acceptEvent`; there its outcome is a property of the event.

**Router.** The constructor's load (`Start`) and `run()`, from which on the files are
watched (`Run`), are two steps; `unseen` records an edit that nobody was told of.
`reconcileConfig` goes over the groups in the order of the file, `configure` has the
places where it throws (`HalfConfigured`): no dir, a filter that does not compile, a
plugin that is no string or no urls, a url that is no string; then `tryConnects` and its
timer, `connOpen`, `connClose`, uploads. Sockets are external objects: connecting, open or
closed, at most `MaxSockets` for a url at a time. A connection whose group was changed by
a load that failed is marked `stale`, for as long as it is held. What an upload sends is
`Ascending`, the new events in the order of their levIds.

## Runs

| Run | Question | States | Seconds |
|---|---|---|---|
| store_writes | Does the store implement the abstract one, with batches in any order, failing or interrupted, and cron between them? Does it keep one version per address, honour deletions, account for what was acknowledged, never reuse a levId, and remove in the end what expired? | 116 000 | 34 |
| store_trees | Do the trees hold stored matches only, all written since they were added, all there are once built without a limit, whichever process writes or deletes? | 2.6 million | 73 |
| req_delivery | Does a subscription get each match once, on the right side of EOSE? Is COUNT right, with overlapping filters, removals and the cap and limits of its own? | 360 000 | 30 |
| req_lifecycle | Is nothing left of a closed subscription, is every REQ answered, every new match delivered? | 360 000 | 40 |
| dbscan | Does a query hand over each filter's matches newest first up to the limit, without losing a cursor, and end? Does the binary search decide membership? | 122 000 | 43 |
| monitors_index | Are indices, recipients and, between any two calls on the tracker, reference counts exact? | 154 000 | 7 |
| neg_views | Does a query fill no view but its own, is a sealed view exact up to the client's limit, is every NEG-OPEN answered? | 553 000 | 83 |
| ingress | Is each event answered at most once, is a true OK true though batches supersede and delete their own events, is each event answered while its connection stays? | 1.2 million | 190 |
| commands | import and sync: does flush mean stored, do the windows neither stall nor overrun, does exit 0 mean done, do both end? stream: is nothing sent back to where it came from, no change slept through? plugin: is every answer the one to this request, of the plugin in force, and every error its own? | 397 000 | 100 |
| router | Is what is dropped closed, what is held subscribed as configured, each new event uploaded once? Does the router end up as its file says? | 1.4 million | 104 |

Each of these passes. `CHECK_DEADLOCK FALSE` is set where the bounded number of
requests or batches lets the system come to rest.

**Bounds.** The event sets hold one event for each role the code tells apart: two versions
with the same time stamp (the lower id wins), a third later version, a deletion request
that names an event of its author and one of another author in vain, an expiring and an
ephemeral event. Three events in a batch and two batches let an event meet its neighbour,
an older version in the batch and one in the database, and let a batch commit between
cron's scan and its deletion. One crash is enough, as nothing survives it but the
database. The request runs have two pauses per query: a worker runs two slices in the
snapshot in which it meets a new query, so only the second pause lets the query see a
later snapshot. Two events, each written before, during or after the query, and one
removal are enough for a filter with a limit that ends after the first match, followed by
one without, and for a count on either side of the cap of one. Two subscription ids with a
limit of one, or three with two, reach the limit. Two connections are needed only where
one is closed and the other must not notice. Symmetry is used for the events of
req_delivery, which the model only compares, and in no run with liveness. `MaxModCounter`
4 lets filters be added and built, one of them twice; one of the filters has a limit of
one, fewer than match it.

neg_views: three messages are an open, its replacement or close, and an open after
that; a limit of one and one that is never reached; an event that is stored later and is
older. ingress: an ephemeral event and the deletion of it, in one batch or with either
stored first, an event without an id and a protected one, over two connections, and one
disturbance: a write that fails, an event removed by others or a change of the
subscriptions. dbscan: the scan depths 1
and 2 (5 to 50 and ten times that in the code), three pauses and one removal make
every cursor run dry, be refilled and resume at a key that is gone; the groups
reach each of the indices, the products above and below `SmallProduct`, and index-only
scans; time stamps have 2 bits, so that the scan index sits right above the largest.
Byte values 0, 1 and 200 cover the sign bit, lengths 0 to 2 the empty string and
prefixes. commands: uploads beyond the window of two, downloads beyond the batch of
two, rounds that report an id twice, an event others store and remove; for stream two
events offered, each maybe twice, so that the plugin is asked about the same event again, and
one disturbance: a lost connection, a failed attempt, a fault of the plugin, a modified
script or another command. router: files that throw at each
place, before or behind a group that loads, one of them put right by another; two
edits, so that a right file follows a wrong one, one failure, two events.

**Fairness.** The threads of the relay loop for ever, so each of their steps is
weakly fair: `WriterStep`, `CronScan`/`CronDelete` (a repeating timer), the worker, the
monitor, the file watcher, the ingesters, the Negentropy thread, and time (`Tick`).
The scheduler runs its queries in turn, so a query of DBScan goes on; its fairness is
written without ENABLED, which is slow to evaluate there. `Progress` of
WriterCommands is one weakly fair action for all the steps a process owes, since each
of them uses up work; it includes the other relay's answers to sync, which has no
timeout, and not its events. Router writes the fairness of its loop, of time and of
connection attempts as one formula in the same way. Attempts to connect may fail, but the
bound on failures stands for "not all of them". Clients, operators, other
processes, failures and crashes owe nothing.

## Disagreements between code and text

Two runs expect a violation; the counterexample is the program's own behaviour.

- **req_delete**: `strfry delete` removes the most recent event, whose levId is then
  reused, which the comments in cron and `writeEvents` take care to avoid. The event
  under the reused levId is not sent to subscriptions that had passed it; the README
  says all events added are scanned. (`LevIdsAdvance`, too, holds of
  `Spec` and not of `SpecWithDelete`: cron may then remove an unexpired event that took
  over the levId it had chosen. The abstract store has no operator who deletes, so
  `Implements` is stated of `Spec`.)
- **router_repair**: `configure` assigns the direction and the filter before it throws at the
  urls (cmd_router.cpp:84-113). The file put right then finds nothing changed, does not
  reconnect, and connections stay subscribed with the filter from before both, against
  docs/router.md:15 and :83. `Subscribed`, `UploadsExact` and `Converges` name the
  exception (`stale`).

Others were met while modelling and have no run of their own; the models have the
code's behaviour, and the properties say where they make an exception for it:

- events_write.cpp:99, RelayWriter.cpp:99: a second copy in a batch of an event that was
  refused as deleted or replaced is answered `true`, "duplicate: have this event".
- cmd_stream.cpp:103, WSConnection.h:44: an event that `stream` looks at while it has no
  connection is handed to `send`, which only logs, and is never sent, though stream
  reconnects; README.md:150 says new events are posted. `ChangesForwarded` counts it as
  `lost`.
- PluginEventSifter.h:48: `RunningPlugin` reads the modification time of the script after it
  has spawned it. A script modified in between is recorded with its new time, and the process
  goes on with the old one; docs/plugins.md:13 says it is reloaded upon the next write
  attempt. `DecisionFresh` makes the exception (`raced`).
- RelayNegentropy.cpp:205: a NEG-OPEN answered from a tree leaves a paused memory query of the
  same id running, though docs/negentropy.md:35 says the existing subscription is
  first closed; its next slice throws "bad variant" (:131), outside of any handler, which ends
  the relay. `QueryOwnsView` shows that no other sequence of messages leads there.
- ActiveMonitors.h:209, RelayIngester.cpp:96: subscriptions that select ephemeral
  events by id, author or tag are not counted, so those events are refused as ones
  "with no subscribers". `TrackerExact` says exactly which ones are counted.
- cmd_negentropy.cpp:53, :98: `negentropy add` refuses a filter with `since` or `until` and
  takes one with `limit`. `build` stops at the limit while writers insert every match, so
  the tree is neither all matches nor the newest ones. `TreesExact` makes the exception.
- NegentropyFilterCache.h:61: `negentropy add` accepts a JSON array of filters, which
  the filter cache cannot compile; every later write fails, and the next expired event
  makes cron end the relay.
- ActiveMonitors.h:60-75: replacing a subscription takes its counts off the tracker and
  adds the new ones under separate locks. An ingester that looks in between refuses an
  ephemeral event that both versions ask for.
- PluginEventSifter.h:48: when the `stat` of a plugin just spawned fails, the constructor
  throws and the process is left behind with its pipes open.
- docs/negentropy.md:63 says a subscription is closed after NEG-ERR; a NEG-OPEN answered
  from a tree adds its view after the error (RelayNegentropy.cpp:212).
- RelayNegentropy.cpp:182: when the first message of a memory view does not
  reconcile, `handleReconcile` removes the view and `onComplete` then writes to it.
- cmd_router.cpp:290, :416: an edit of the file between the constructor's load and the start
  of the watcher is not noticed until the next one; `Converges` makes the exception
  (`unseen`).
- cmd_router.cpp:151: a connection that opens after its url was removed is neither
  tracked nor closed; `NoOrphans` shows it is never subscribed and never sent an event.

## Proofs

Every theorem holds for all values of the constants under the named assumptions of
the modules, which TLC evaluates in each run. Where one states a property of a run, the
run shows it on a small instance and the theorem for every instance.

| Module | Theorems of | Proves |
|---|---|---|
| EventStoreProofs | `SpecWithDelete`; `LevIdsAdvance` and `Implements` of `Spec` | `TypeOK`, `OneVersion`, `DeletionsHold`, `Unique`, `NoUnprocessedDeletion`, `TreesExact`, `CacheCoherent`, `AcknowledgedAccounted`, `LevIdsAdvance`, `Implements` (EventStore implements AbstractStore) |
| ReqPipelineProofs | `Spec`, without `strfry delete` | `SentOnce`, `EoseSplits`, `NothingMissed`, `NoZombies`, `CountExact` |
| ActiveMonitorsProofs | `Spec` | `LookupsExact`, `TrackerExact`, `NotifiesExactly` |
| DBScanProofs | `Spec`; `SearchExact` for every finite set of values | `NewestFirst`, `OutstandingExact`, `SearchExact` |
| NegentropyViewsProofs | `Spec` | `QueryOwnsView`, `SealedExact` |
| EventIngressProofs | `Spec` | `AnsweredOnce`, `OkTruthful` |
| WriterCommandsProofs | `Spec` | `FlushedMeansStored`, `WindowsExact`, `SyncComplete`, `NoEcho`, `DecisionFresh`, `ErrorsJustified` |
| RouterProofs | `Spec` | `NoOrphans`, `Subscribed`, `UploadsExact` |

(`TypeOK`, `Unique` and `CacheCoherent` are no properties of a run: the theorems say
more than a run would.) The fairness in a `Spec` plays no part in the proofs.

**Assumptions.** Bounds are natural numbers, sets that the code iterates over are
finite, records have the fields the code reads. Beyond that: an event's id determines
it and is not among its own e-tags, both because it is a hash (`EventsAssumption`); a
REQ has at least one filter and no event gets the levId `MAX_U64` (`ReqAssumption`,
the guard of `Write`); the shutdown marker of the pipeline is no event and a batch is
not empty (`PipelineAssumption`); sync's low mark is below its high mark
(`SyncAssumption`); a configuration that loads has filters that compile
(`RouterAssumption`); distinct tags and author-kind pairs have distinct keys
(`KeyAssumption`: the key is the value's bytes, or the author's and the kind's); a time
stamp is below `CreatedLimit` and a scan depth is not 0 (`ScanAssumption`).

**The store.** The properties speak of the committed table, but a transaction builds
the next one step by step, so none is inductive alone. `StoreInv` adds `WriterInv`,
which says the same of the table and trees under construction while the writer is
`writing`, that nothing collected for deletion is left between events, and that the
cached filters are the stored ones; and `Good`, which gathers `OneVersion`,
`DeletionsHold`, `Unique` and the fact that levIds are bounded, without which
"the most recent levId" need not exist. `OnlyVersion` is the heart: with one version
per address, the last entry of a replace key is the only one, so comparing with it alone,
as `checkReplaceable` does, is enough. `InsertGood` shows that inserting an event and
deleting what it collected keeps `Good`; `InsertExact` and `EraseExact` do it for the
trees: a new tree is owed nothing, since `from` is the most recent levId; an event that
is written goes into every tree it matches; and what build finds without a limit is
everything. For `LevIdsAdvance`, `LevInv` adds that the open transaction holds a levId at
least as high as the committed ones, and that the levIds cron has chosen are
below the most recent one, which is why deleting them in a later transaction is safe.
`AcknowledgedAccounted` needs the history of the batch: what was written and is no
longer in the working table was deleted or superseded by an event written after it.

**The refinement.** `RefInv` adds `CronInv`: whatever is stored under a levId that cron
holds has expired, though other events were written and removed since the scan; it
rests on `LevInv`. A step of EventStore then is a step of AbstractStore or leaves it
alone: `WriteEvent`, with the deletions it collected, is one `Put`; a commit publishes
the work; the deletions of cron are an expiry of expired events.

**Subscriptions.** `ReqInv` places each subscription: in the worker's inbox, running,
on its way to the monitor, monitored or gone, in one place only (`PlaceInv`), and says for
each place what was sent and what is still due (`GenInv`): while the query runs, nothing
above its start; on its way to the monitor, everything up to `latest` and nothing
above; monitored, everything up to `curr`. `SnapInv` says that a snapshot of a batch is an
earlier state of the database in which no levId means another event, which is where
`strfry delete` must be excluded; `CurrInv` that `currEventId` is behind only while a
DBChange is to come; `OverInv` that what is left of a closed subscription has a CLOSE
behind it in the same queue, which is why the order of messages between the threads
matters. For `CountExact`, `CountedInv` describes the larger sent set of a counting query:
it has every stored event that a finished filter without a lower limit matches, or more
than the cap; as long as nothing was removed, it has nothing else. A levId names one
event, so counting levIds counts events (`ByLevId`, `ToLevId`). A filter with a `limit`
below the cap counts no further than its limit, hence the two bounds in the property.

**Queries.** What a filter has handed over is right only at its end, so `ScanInv` says
where every match is in between. For each cursor (`CursorInv`): its candidates in the queue
are behind its position; a stored match with the cursor's key is ahead of its position,
queued, or handed over; a cursor that is not at its end has a candidate queued. That last part
is what makes the order right: all a cursor has not read is older than what it has queued
(`Pending`), so the head of the queue is the newest match left in any of them. The
queue has no duplicates and is in order once all cursors are initialised (`QueueInv`), and
nothing queued is newer than what was handed over (`OrderInv`). When a pause lets events be
removed, the positions stay and the statement about *stored* matches gets weaker only. The
lemmas: a match has one of the constructor's keys (`MatchHasKey`), an index-only scan needs
no second look at the event (`IndexOnlyExact`), `collect` takes exactly the next records of
the key (`CollectExact`), merging and sorting keep what they are given (`MergeExact`,
`SortExact`).

**The binary search.** The loop of `SearchLoop` keeps that no value before `first` is
greater than the candidate and every value from `first + count` on is; `count` falls in
each round. Where such an argument needs induction on a number, the proof takes the least
counterexample (`LeastNumber`, `UpTo`, `Iteration`), since the prover cannot instantiate
the library's induction rules.

**The monitor indices.** Sets of filter pointers and counts have to add up, so `CountsInv`
carries that they are finite; the counts are those of the entries in the indices without
the ones still to be added and with the ones still to be taken off, and no entry is in
both roles, which is why each call moves a count by exactly one. `LookInv` describes
`process` half-way: a monitor that was behind is marked as up to date exactly if it is
among the recipients, once, and then it matches; and an item that was passed, or is
marked, and matches has its monitor marked. With `MatchIsVisited` (an event that a filter
matches is looked up under one of the filter's keys) nothing is missed at the end.
`AheadInv` is what the two marks need beside each other: an item ahead of `process` was
installed so, with its monitor.

**Negentropy.** `NegInv` relates the scheduler and the views, two maps with the same
keys that different calls change: registered queries are those that may still
run, each has its own memory view or lost it to a tree, and the view has collected what
the query delivered. `OrderInv` adds for `SealedExact` that nothing a query is still due is
newer than what it has delivered; an event written since its NEG-OPEN is above its
`latest`, as the most recent event is never removed.

**Events to the writer.** `IngInv` follows a message: it is in one queue only, once, and
not answered yet; the further it got, the more checks it has passed. `StoreInv` of that
module accounts for what was ever stored: it is there, was removed by others or is beaten by an
event that was stored, and inside a transaction the same holds of what it sees and has
inserted. A thread answers `true` only from such events or ones they beat (`Known`).

**Commands.** Pipeline, plugin, stream and sync each have an invariant on their own
variables; a step of a command is a step of each of them or leaves them alone
(`PipelineSteps`, `PluginSteps`). For the pipeline, `numLive` is the number of events in its
queues, in the hands of its threads and about to be pushed (`CountInv`), and every event
read is in one of those places or accounted for; the shutdown marker is always last. For
sync, the counters are cardinalities of what is in flight, and whatever was reported is
sent, asked for, waiting or gone. For the plugin, every line on its way is of the
process that runs and the script it has loaded (`SourceInv`), which is the one that `stat`
saw or will see unless it was modified in between (`ScriptInv`); and a process that has printed
no answer too many owes at most one, to the request that waits (`OweInv`).

**The router.** `SockInv` says of a held socket that its REQ is the group's filter, unless
the group is `stale`, and that it was sent exactly what lies between its opening and
`currEventId`; of any other socket, that it has neither. `GroupInv` says that a group's
compiled filter is the one of its `filterStr` or that `filterStr` does not compile,
since `configure` compares only the strings.

**Only model-checked.** Liveness and whatever rests on fairness or ENABLED, which the
prover does not handle: `EveryReqAnswered`, `EventuallyDelivered`, `EveryEventAnswered`,
`EveryOpenAnswered`, `CommandEnds`, `ChangesForwarded`, `Converges`, `ExpiredRemoved`,
`QueryEnds` and the like. Every invariant and every action property of a passing run is
proved.

## Not modelled

- Graceful shutdown and the HTTP side of the websocket thread: the process ends, and
  nothing is kept. (Shutdown is completed by a disconnection; with no connection open
  nothing completes it, RelayWebsocket.cpp:317.) Receipt, answers and disconnections
  are part of the modules that handle them.
- Compression dictionaries and `Decompressor`: they change how a payload is stored,
  not which.
- export, scan, info, compact, monitor: read and print.
- Relay start-up, metrics, landing page, logging, JSON wording, signatures and hashes
  (an event is valid or not), compilation of filters from JSON.
- `--fried` import of packed events made elsewhere: its input is not parsed, so a
  file could hold packed events that no event packs to. `strfry import` does not check
  time stamps either; that a time stamp fits into 40 bits, as DBScan assumes, rests on the
  relay's check.
- The negentropy library's reconciliation and B-tree, uWS, LMDB's pages.
- `WSConnection::close`, which nothing calls.

## Plan

No safety property of a passing run is left to prove. What could follow: graceful
shutdown of the websocket thread with the connections it waits for, and the compilation
of filters from JSON with its size limits.
