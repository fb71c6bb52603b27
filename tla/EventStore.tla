------------------------------ MODULE EventStore ------------------------------
(***************************************************************************)
(* The LMDB event store of strfry and everything that writes to it:        *)
(*   - the writer thread: one write transaction per batch of events,       *)
(*     writeEvents (events_write.cpp) called from RelayServer::runWriter;  *)
(*   - the cron thread that removes expired and ephemeral events           *)
(*     (RelayCron.cpp), in a read transaction followed by a write one;     *)
(*   - the command `strfry delete`, another process, also in two           *)
(*     transactions (cmd_delete.cpp);                                      *)
(*   - the command `strfry negentropy add|build` (cmd_negentropy.cpp).     *)
(*                                                                         *)
(* LMDB has one write transaction at a time and gives readers the last     *)
(* committed state.  The writer's transaction is modelled one event of the *)
(* batch per step on a working copy (wdb, wtrees); the other transactions  *)
(* do one loop without intermediate observers and are single actions.      *)
(***************************************************************************)
EXTENDS PackedEvent, FiniteSets

CONSTANTS
    Events,             \* the packed events that may arrive
    Filters,            \* the filters `strfry negentropy add` is called with
    EphemeralLifetime,  \* cfg().events__ephemeralEventsLifetimeSeconds
    StartNow, MaxNow,   \* the clock runs from StartNow to MaxNow
    MaxBatchSize,       \* bound: events per batch
    MaxBatches,         \* bound: batches received
    MaxModCounter,      \* bound: negentropyModificationCounter
    MaxCrashes          \* bound: crashes of the relay process

ASSUME EventsAssumption ==
    /\ \A e \in Events : /\ e.id \in Nat /\ e.created \in Nat
                         /\ e.kind \in Nat /\ e.expiration \in Nat
    /\ \A e, f \in Events : e.id = f.id => e = f   \* the id is a hash
    /\ \A e \in Events : e.id \notin ETags(e)      \* of the tags too

ASSUME BoundsAssumption ==
    /\ EphemeralLifetime \in Nat /\ StartNow \in Nat /\ MaxNow \in Nat
    /\ EphemeralLifetime <= StartNow
    /\ MaxBatchSize \in Nat /\ MaxBatches \in Nat /\ MaxModCounter \in Nat
    /\ MaxCrashes \in Nat

VARIABLES
    db,          \* table Event: set of [levId, ev]
    filters,     \* table NegentropyFilter: treeId -> filter
    trees,       \* the negentropy BTrees: treeId -> set of events
    modCounter,  \* Meta.negentropyModificationCounter
    pc,          \* the writer: "idle", "writing", "done", "failed"
    evs,         \* newEvents: the batch, sorted
    status,      \* EventToWrite::status of each
    idx,         \* i
    toDelete,    \* levIdsToDelete
    wdb, wtrees, \* the writer's uncommitted copy of db and trees
    cache,       \* the writer's NegentropyFilterCache
    cronIds,     \* expiredLevIds, between the two transactions of the cron
    delIds,      \* levIds, between the two transactions of `strfry delete`
    built,       \* history: trees that were populated by `negentropy build`
    from,        \* history: treeId -> the most recent levId when it was added
    now, batches, crashes

store  == <<db, filters, trees, modCounter, built, from>>
writer == <<pc, evs, status, idx, toDelete, wdb, wtrees, cache, batches>>
vars   == <<store, writer, cronIds, delIds, now, crashes>>

-----------------------------------------------------------------------------
(* Lookups *)

LevIds(d) == {r.levId : r \in d}

\* getMostRecentLevId: 0 when there is no event.
MostRecentLevId(d) ==
    CHOOSE m \in LevIds(d) \cup {0} : \A n \in LevIds(d) : n <= m

\* lookupEventById, eventExistsById
EventExists(d, ev) == \E r \in d : r.ev.id = ev.id

\* Mutant: the deletion index is not consulted.
MutDeletionStored(d, ev) == FALSE

\* lookup_Event__deletion
DeletionStored(d, ev) == \E r \in d : Deletes(r.ev, ev)

\* The entries of the replace index under ev's key.
ReplaceEntries(d, ev) ==
    {r \in d : HasD(r.ev) /\ ReplaceKey(r.ev) = ReplaceKey(ev)}

\* The one entry checkReplaceable looks at: the last of the key.
LastReplaceEntry(d, ev) ==
    CHOOSE r \in ReplaceEntries(d, ev) :
        \A s \in ReplaceEntries(d, ev) : s.levId <= r.levId

-----------------------------------------------------------------------------
(* Negentropy trees: a filter's kinds, authors and limit are optional, each *)
(* modelled as a set with at most one member.                              *)

EmptyFilter == [array |-> FALSE, kinds |-> {}, authors |-> {}, limit |-> {}]

\* NostrFilter::doesMatch
DoesMatch(f, ev) == /\ \A ks \in f.kinds : ev.kind \in ks
                    /\ \A as \in f.authors : ev.pubkey \in as

\* What a DBQuery of f may hand over of the entries it matches: all, or the
\* newest `limit` of them, in any order among equal created_at.
QueryResults(f, matches) ==
    IF f.limit = {} THEN {matches}
    ELSE {S \in SUBSET matches :
            /\ \A e \in S, x \in matches \ S : e.ev.created >= x.ev.created
            /\ \A n \in f.limit : IF Cardinality(matches) <= n THEN S = matches
                                 ELSE Cardinality(S) = n}

EmptyCache == [counter |-> 0, filters |-> <<>>]

\* freshenCache cannot compile a filter that is a JSON array.
FreshenThrows(c) ==
    c.counter # modCounter /\ \E i \in DOMAIN filters : filters[i].array

\* freshenCache; when it throws, the filters before the array are in the
\* cache, and its counter is not touched.
Freshen(c) ==
    IF c.counter = modCounter THEN c
    ELSE IF FreshenThrows(c)
    THEN [counter |-> c.counter,
          filters |-> SubSeq(filters, 1,
                             (CHOOSE i \in DOMAIN filters :
                                /\ filters[i].array
                                /\ \A j \in 1..(i-1) : ~filters[j].array) - 1)]
    ELSE [counter |-> modCounter, filters |-> filters]

\* The trees updateNegentropy visits for ev: through the kind index, or
\* because the filter has no kinds.
TreesOf(fs, ev) ==
    {i \in DOMAIN fs : /\ fs[i].kinds = {} \/ \E ks \in fs[i].kinds : ev.kind \in ks
                       /\ DoesMatch(fs[i], ev)}

TreesInsert(fs, ts, ev) ==
    [i \in DOMAIN ts |-> IF i \in TreesOf(fs, ev) THEN ts[i] \cup {ev} ELSE ts[i]]

TreesErase(fs, ts, gone) ==
    [i \in DOMAIN ts |-> ts[i] \ {ev \in gone : i \in TreesOf(fs, ev)}]

\* deleteEventBasic for each levId that is still there.
Without(d, levIds) == {r \in d : r.levId \notin levIds}

Victims(d, levIds) == {r.ev : r \in {s \in d : s.levId \in levIds}}

-----------------------------------------------------------------------------
Init ==
    /\ db = {}
    /\ filters = <<EmptyFilter>>   \* dbCheck
    /\ trees = <<{}>>
    /\ modCounter = 1
    /\ built = {1} /\ from = <<0>>
    /\ pc = "idle" /\ evs = <<>> /\ status = <<>> /\ idx = 1 /\ toDelete = {}
    /\ wdb = {} /\ wtrees = <<>>
    /\ cache = EmptyCache
    /\ cronIds = {} /\ delIds = {}
    /\ now = StartNow
    /\ batches = 0 /\ crashes = 0

-----------------------------------------------------------------------------
(* The writer *)

BatchSorted(s) ==
    \A i \in 1..(Len(s) - 1) :
        \/ s[i].created < s[i+1].created
        \/ s[i].created = s[i+1].created /\ s[i].id <= s[i+1].id

\* Whatever the arrival order, writeEvents works on the sorted batch: the
\* sorted sequences are all the batches it can see.
Batches ==
    {s \in UNION {[1..n -> Events] : n \in 1..MaxBatchSize} : BatchSorted(s)}

\* txn_rw, then the entry of ctx: freshenCache, which may throw.
BeginWrite(s) ==
    /\ pc = "idle"
    /\ batches < MaxBatches
    /\ batches' = batches + 1
    /\ evs' = s
    /\ status' = [i \in DOMAIN s |-> "Pending"]
    /\ idx' = 1
    /\ toDelete' = {}
    /\ cache' = Freshen(cache)
    /\ pc' = IF FreshenThrows(cache) THEN "failed" ELSE "writing"
    /\ wdb' = db /\ wtrees' = trees
    /\ UNCHANGED <<store, cronIds, delIds, now, crashes>>

IsDuplicate(i) ==
    EventExists(wdb, evs[i]) \/ (i # 1 /\ evs[i].id = evs[i-1].id)

\* Mutant: no tie-break on the id.
MutIsReplaced(ev) ==
    /\ Versioned(ev)
    /\ ReplaceEntries(wdb, ev) # {}
    /\ ev.created < LastReplaceEntry(wdb, ev).ev.created

\* checkReplaceable: Replaced when the stored version wins ...
IsReplaced(ev) ==
    /\ Versioned(ev)
    /\ ReplaceEntries(wdb, ev) # {}
    /\ ~Supersedes(ev, LastReplaceEntry(wdb, ev).ev)

\* Mutants: the older version is kept; it is collected although it wins.
MutReplacedNone(ev) == {}
MutReplacedAlways(ev) ==
    IF Versioned(ev) /\ ReplaceEntries(wdb, ev) # {}
    THEN {LastReplaceEntry(wdb, ev).levId} ELSE {}

\* ... otherwise the stored version is to be deleted.
ReplacedLevIds(ev) ==
    IF Versioned(ev) /\ ReplaceEntries(wdb, ev) # {} /\ ~IsReplaced(ev)
    THEN {LastReplaceEntry(wdb, ev).levId} ELSE {}

\* Mutant: anybody may delete.
MutDeletionTargets(ev) ==
    IF IsDeletion(ev.kind)
    THEN {r.levId : r \in {s \in wdb : s.ev.id \in ETags(ev)}}
    ELSE {}

\* collectDeletionTargets
DeletionTargets(ev) ==
    IF IsDeletion(ev.kind)
    THEN {r.levId : r \in {s \in wdb : s.ev.id \in ETags(ev) /\ s.ev.pubkey = ev.pubkey}}
    ELSE {}

\* What levIdsToDelete holds after the checks on ev.
Collected(ev) == toDelete \cup ReplacedLevIds(ev) \cup DeletionTargets(ev)

Skip(newStatus) ==
    /\ status' = [status EXCEPT ![idx] = newStatus]
    /\ idx' = idx + 1
    /\ UNCHANGED <<store, pc, evs, toDelete, wdb, wtrees, cache, batches,
                   cronIds, delIds, now, crashes>>

WriteDuplicate ==
    /\ pc = "writing" /\ idx \in DOMAIN evs
    /\ IsDuplicate(idx)
    /\ Skip("Duplicate")

WriteDeleted ==
    /\ pc = "writing" /\ idx \in DOMAIN evs
    /\ ~IsDuplicate(idx)
    /\ DeletionStored(wdb, evs[idx])
    /\ Skip("Deleted")

\* An event that loses to the stored version.  Leftover deletions would be
\* the "unprocessed deletion" error.
WriteReplaced ==
    /\ pc = "writing" /\ idx \in DOMAIN evs
    /\ ~IsDuplicate(idx)
    /\ ~DeletionStored(wdb, evs[idx])
    /\ IsReplaced(evs[idx])
    /\ status' = [status EXCEPT ![idx] = "Replaced"]
    /\ toDelete' = Collected(evs[idx])
    /\ pc' = IF toDelete' # {} THEN "unprocessed" ELSE "writing"
    /\ idx' = idx + 1
    /\ UNCHANGED <<store, evs, wdb, wtrees, cache, batches, cronIds, delIds, now, crashes>>

\* Insert under the next levId, then carry out the deletions.
WriteEvent ==
    /\ pc = "writing" /\ idx \in DOMAIN evs
    /\ ~IsDuplicate(idx)
    /\ ~DeletionStored(wdb, evs[idx])
    /\ ~IsReplaced(evs[idx])
    /\ LET ev     == evs[idx]
           entry  == [levId |-> MostRecentLevId(wdb) + 1, ev |-> ev]
           after  == wdb \cup {entry}
           doomed == Collected(ev)
       IN  /\ wdb' = Without(after, doomed)
           /\ wtrees' = TreesErase(cache.filters, TreesInsert(cache.filters, wtrees, ev),
                                   Victims(after, doomed))
    /\ status' = [status EXCEPT ![idx] = "Written"]
    /\ toDelete' = {}
    /\ idx' = idx + 1
    /\ UNCHANGED <<store, pc, evs, cache, batches, cronIds, delIds, now, crashes>>

CommitWrite ==
    /\ pc = "writing" /\ idx \notin DOMAIN evs
    /\ db' = wdb
    /\ trees' = wtrees
    /\ pc' = "done"
    /\ UNCHANGED <<filters, modCounter, built, from, evs, status, idx, toDelete,
                   wdb, wtrees, cache, batches, cronIds, delIds, now, crashes>>

\* LMDB refuses a put or the commit (map full, I/O error): the transaction is
\* dropped, the catch clause answers every event with a write error.
WriteError ==
    /\ pc = "writing"
    /\ pc' = "failed"
    /\ UNCHANGED <<store, evs, status, idx, toDelete, wdb, wtrees, cache,
                   batches, cronIds, delIds, now, crashes>>

\* All responses are sent; the writer waits for the next batch.
Respond ==
    /\ pc \in {"done", "failed", "unprocessed"}
    /\ pc' = "idle"
    /\ evs' = <<>> /\ status' = <<>> /\ idx' = 1 /\ toDelete' = {}
    /\ wdb' = {} /\ wtrees' = <<>>
    /\ UNCHANGED <<store, cache, batches, cronIds, delIds, now, crashes>>

-----------------------------------------------------------------------------
(* The cron thread *)

\* generic_foreachFull over the expiration index, in a read transaction.
Expired(ev) ==
    /\ ev.expiration # 0
    /\ ev.expiration <= now
    /\ ev.expiration = 1 => ev.created <= now - EphemeralLifetime

\* Mutants: the most recent event too; ephemeral events never.
MutExpiredRecent == {r.levId : r \in {s \in db : Expired(s.ev)}}
MutExpiredTagged ==
    {r.levId : r \in {s \in db : Expired(s.ev) /\ s.ev.expiration # 1
                                 /\ s.levId # MostRecentLevId(db)}}

ExpiredLevIds == {r.levId : r \in {s \in db : Expired(s.ev) /\ s.levId # MostRecentLevId(db)}}

CronScan ==
    /\ cronIds = {}
    /\ cronIds' = ExpiredLevIds
    /\ cronIds' # {}
    /\ UNCHANGED <<store, writer, delIds, now, crashes>>

\* Mutant: the trees are forgotten.
MutDeleteEvents(levIds) == db' = Without(db, levIds) /\ UNCHANGED trees

\* deleteEvents with a fresh filter cache, in its own write transaction: when
\* the filters cannot be compiled the transaction is dropped.
DeleteEvents(levIds) ==
    IF FreshenThrows(EmptyCache)
    THEN UNCHANGED <<db, trees>>
    ELSE /\ db' = Without(db, levIds)
         /\ trees' = TreesErase(Freshen(EmptyCache).filters, trees, Victims(db, levIds))

CronDelete ==
    /\ cronIds # {}
    /\ pc # "writing"
    /\ ~FreshenThrows(EmptyCache)
    /\ DeleteEvents(cronIds)
    /\ cronIds' = {}
    /\ UNCHANGED <<filters, modCounter, built, from, writer, delIds, now, crashes>>

\* The relay process ends and is started again: the committed tables are all
\* that is left of it.
Restart ==
    /\ pc' = "idle"
    /\ evs' = <<>> /\ status' = <<>> /\ idx' = 1 /\ toDelete' = {}
    /\ wdb' = {} /\ wtrees' = <<>>
    /\ cache' = EmptyCache
    /\ cronIds' = {}
    /\ UNCHANGED <<store, delIds, now, batches>>

\* An array among the filters: what freshenCache throws leaves the timer's
\* callback, where nothing catches it, and takes the relay with it.
CronThrows ==
    /\ cronIds # {}
    /\ pc # "writing"
    /\ FreshenThrows(EmptyCache)
    /\ Restart
    /\ UNCHANGED crashes

-----------------------------------------------------------------------------
(* Commands run by the operator, in processes of their own *)

\* Every event of the database that matches the filter, up to --age, or the
\* newest of them when the filter has a limit.
DeleteScan(f, until) ==
    /\ delIds = {}
    /\ \E S \in QueryResults(f, {s \in db : DoesMatch(f, s.ev) /\ s.ev.created <= until}) :
         delIds' = LevIds(S)
    /\ delIds' # {}
    /\ UNCHANGED <<store, writer, cronIds, now, crashes>>

DeleteApply ==
    /\ delIds # {}
    /\ pc # "writing"
    /\ DeleteEvents(delIds)
    /\ delIds' = {}
    /\ UNCHANGED <<filters, modCounter, built, from, writer, cronIds, now, crashes>>

\* `strfry negentropy add`: refused when the filter is there already.  The
\* new tree is empty.
NegentropyAdd(f) ==
    /\ pc # "writing"
    /\ modCounter < MaxModCounter
    /\ \A i \in DOMAIN filters : filters[i] # f
    /\ modCounter' = modCounter + 1
    /\ filters' = Append(filters, f)
    /\ trees' = Append(trees, {})
    /\ from' = Append(from, MostRecentLevId(db))
    /\ UNCHANGED <<db, built, writer, cronIds, delIds, now, crashes>>

\* `strfry negentropy build`: inserts what a query of the filter finds, which
\* stops at the filter's own limit (`add` refuses since and until only).
BuildFound(t) == QueryResults(filters[t], {s \in db : DoesMatch(filters[t], s.ev)})

NegentropyBuild(t) ==
    /\ pc # "writing"
    /\ modCounter < MaxModCounter
    /\ modCounter' = modCounter + 1
    /\ \E S \in BuildFound(t) : trees' = [trees EXCEPT ![t] = @ \cup {r.ev : r \in S}]
    /\ built' = built \cup {t}
    /\ UNCHANGED <<db, filters, from, writer, cronIds, delIds, now, crashes>>

-----------------------------------------------------------------------------
(* Environment *)

Tick ==
    /\ now < MaxNow
    /\ now' = now + 1
    /\ UNCHANGED <<store, writer, cronIds, delIds, crashes>>

\* The relay process dies at any point.
Crash ==
    /\ pc \in {"writing", "done"} \/ cronIds # {}
    /\ crashes < MaxCrashes
    /\ crashes' = crashes + 1
    /\ Restart

WriterStep ==
    \/ WriteDuplicate \/ WriteDeleted \/ WriteReplaced \/ WriteEvent
    \/ CommitWrite \/ WriteError \/ Respond

\* The relay and `strfry negentropy`.
Next ==
    \/ \E s \in Batches : BeginWrite(s)
    \/ WriterStep
    \/ CronScan \/ CronDelete \/ CronThrows
    \/ \E f \in Filters : NegentropyAdd(f)
    \/ \E t \in DOMAIN filters : NegentropyBuild(t)
    \/ Tick
    \/ Crash

\* The same with `strfry delete` in use.
NextWithDelete ==
    \/ Next
    \/ \E f \in Filters, until \in StartNow..MaxNow : DeleteScan(f, until)
    \/ DeleteApply

Spec == Init /\ [][Next]_vars

SpecWithDelete == Init /\ [][NextWithDelete]_vars
\* The relay's own threads keep running; operators and clients owe nothing.
FairSpec ==
    /\ Spec
    /\ WF_vars(WriterStep)
    /\ WF_vars(CronScan)
    /\ WF_vars(CronDelete)
    /\ WF_vars(Tick)

-----------------------------------------------------------------------------
(* Properties *)

Entries == [levId : Nat \ {0}, ev : Events]

\* Every variable has its type, and the writer's copies are only there while
\* a batch is in hand.
TypeOK ==
    /\ db \subseteq Entries /\ wdb \subseteq Entries
    /\ filters \in Seq(Filters \cup {EmptyFilter})
    /\ trees \in Seq(SUBSET Events) /\ Len(trees) = Len(filters)
    /\ modCounter \in Nat \ {0}
    /\ built \subseteq DOMAIN filters
    /\ from \in Seq(Nat) /\ Len(from) = Len(filters)
    /\ pc \in {"idle", "writing", "done", "failed", "unprocessed"}
    /\ evs \in Seq(Events)
    /\ status \in Seq({"Pending", "Written", "Duplicate", "Replaced", "Deleted"})
    /\ Len(status) = Len(evs)
    /\ idx \in 1..(Len(evs) + 1)
    /\ toDelete \subseteq Nat /\ cronIds \subseteq Nat /\ delIds \subseteq Nat
    /\ wtrees \in Seq(SUBSET Events)
    /\ pc = "writing" => Len(wtrees) = Len(filters)
    /\ cache.counter \in Nat
    /\ now \in Nat /\ batches \in Nat /\ crashes \in Nat

\* One stored version per (pubkey, first d-tag, kind) of a replaceable or
\* parameterized-replaceable kind, although checkReplaceable only looks at
\* the last entry of the replace index and deletes after inserting.
OneVersionIn(d) ==
    \A r, s \in d : Versioned(r.ev) /\ HasD(s.ev) /\ ReplaceKey(r.ev) = ReplaceKey(s.ev)
                     => r = s
OneVersion == OneVersionIn(db)

\* A deletion request (kind 5) that is stored keeps its author's targets out,
\* whichever came first and also when both are in one batch (writeEvents,
\* collectDeletionTargets and the check of the deletion index).
DeletionsHoldIn(d) == \A r, s \in d : ~Deletes(r.ev, s.ev)
DeletionsHold == DeletionsHoldIn(db)

\* No event is stored under two levIds, and no levId holds two events.
UniqueIn(d) == \A r, s \in d : r.ev.id = s.ev.id \/ r.levId = s.levId => r = s
Unique == UniqueIn(db)

\* A negentropy tree never holds an event that is not stored or that its
\* filter does not match.  It has every match written since it was added, and
\* once built from a filter without a limit every match there is: the writer,
\* the cron thread and the commands each keep the trees in step through their
\* own filter cache (NegentropyFilterCache::ctx).  A filter with a limit of
\* its own limits `build` and not the writers: such a tree lacks the older
\* events build passed over, for good.
MatchingIn(d, f) == {r.ev : r \in {s \in d : DoesMatch(f, s.ev)}}
TreesExactIn(d, ts) ==
    \A t \in DOMAIN filters :
        /\ ts[t] \subseteq MatchingIn(d, filters[t])
        /\ \A r \in d :
             /\ DoesMatch(filters[t], r.ev)
             /\ r.levId > from[t] \/ (t \in built /\ filters[t].limit = {})
             => r.ev \in ts[t]
TreesExact == TreesExactIn(db, trees)

\* A filter cache whose counter is current has the current filters: the only
\* thing freshenCache compares is negentropyModificationCounter.
CacheCoherent ==
    /\ cache.counter <= modCounter
    /\ cache.counter = modCounter => cache.filters = filters

\* writeEvents never reaches its own "unprocessed deletion" error.
NoUnprocessedDeletion == pc # "unprocessed"

\* levIds grow: a committed change only adds events above every levId stored
\* before, and the highest levId in the table never goes down, so that no
\* levId a reader has seen is given to another event.
LevIdsAdvance ==
    [][/\ \A r \in db' \ db : r.levId > MostRecentLevId(db)
       /\ MostRecentLevId(db') >= MostRecentLevId(db)]_db

\* An event acknowledged as written is in the database after the commit, or
\* another event written by the same batch supersedes or deletes it.
Accounted(i) ==
    \/ EventExists(db', evs[i])
    \/ \E j \in DOMAIN evs :
         /\ status[j] = "Written"
         /\ \/ Deletes(evs[j], evs[i])
            \/ /\ Versioned(evs[i]) /\ HasD(evs[j])
               /\ ReplaceKey(evs[i]) = ReplaceKey(evs[j])
               /\ Supersedes(evs[j], evs[i])
AcknowledgedAccounted ==
    [][pc = "writing" /\ pc' = "done"
       => \A i \in DOMAIN evs :
            status[i] = "Written" \/ EventExists(db, evs[i]) => Accounted(i)]_vars

\* An expired event is removed in the end, unless it is the most recent.
ExpiredRemoved ==
    \A e \in Events :
        (\E r \in db : r.ev = e /\ Expired(e) /\ r.levId # MostRecentLevId(db))
        ~> ~EventExists(db, e)
=============================================================================
