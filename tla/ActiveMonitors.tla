---------------------------- MODULE ActiveMonitors ----------------------------
(***************************************************************************)
(* The ReqMonitor thread's index of live subscriptions (ActiveMonitors.h)  *)
(* and the counts of subscribers to ephemeral kinds it shares with the     *)
(* ingester threads (EphemeralSubTracker.h).                               *)
(*                                                                         *)
(* Each filter of a monitor is entered in one of allIds, allAuthors,       *)
(* allTags, allKinds, allOthers, under every value of the field chosen.    *)
(* A filter pointer is a monitor and a position in its group.              *)
(* An event is looked up under each of its fields; what it finds is tried  *)
(* with doesMatch, one filter pointer at a time, in the order of the hash  *)
(* map, which is any order.                                                *)
(*                                                                         *)
(* The indices are the thread's own; the tracker is shared.  Each call on  *)
(* it takes its lock for itself, so an ingester may read the counts        *)
(* between any two of them: those are steps of their own.                  *)
(***************************************************************************)
EXTENDS Filters, FiniteSets

CONSTANTS
    Conns, SubIds,
    Events,     \* packed events that may be written
    Groups,     \* filter groups a subscription may have
    MaxSubs,    \* cfg().relay__maxSubsPerConnection
    MaxLevId    \* bound: events written

\* The keys a filter is entered under: its first field that is given.
Keys(f) ==
    IF f.ids # {} THEN {<<"ids", id>> : id \in UNION f.ids}
    ELSE IF f.authors # {} THEN {<<"authors", a>> : a \in UNION f.authors}
    ELSE IF DOMAIN f.tags # {}
         THEN UNION {{<<"tags", <<n, v>>>> : v \in f.tags[n]} : n \in DOMAIN f.tags}
    ELSE IF f.kinds # {} THEN {<<"kinds", k>> : k \in UNION f.kinds}
    ELSE {<<"others", 0>>}


\* A group has finitely many filters, each with finitely many values.
ASSUME MonitorsAssumption ==
    /\ MaxSubs \in Nat \ {0} /\ MaxLevId \in Nat
    /\ \A g \in Groups : IsFiniteSet(DOMAIN g) /\ \A i \in DOMAIN g : IsFiniteSet(Keys(g[i]))
    /\ \A ev \in Events : ev.tags \in Seq({ev.tags[i] : i \in DOMAIN ev.tags})

VARIABLES
    conns,          \* <<conn, sub>> -> [filters, latest]
    lookups,        \* the five indices: [at, mon, i] -> latestEventId of the item
    kindRefcounts,  \* EphemeralSubTracker: kind -> count
    catchAllCount,
    removing,       \* entries uninstallLookups has still to take off the counts
    adding,         \* entries installLookups has still to count, after those
    levId,          \* levId of the last event given to process
    latestEventId,  \* the most recent levId in the thread's snapshot
    event,          \* the event process is working on: <<>> or <<ev>>
    visit,          \* ... the position in Visits(ev) it is at
    seen,           \* ... the items of the MonitorSet there it has been through
    recipients,     \* ... the monitors to notify
    ahead           \* ... history: the monitors that had caught up with ev before

tracker == <<kindRefcounts, catchAllCount, removing, adding>>
looking == <<event, visit, seen, recipients, ahead>>
vars == <<conns, lookups, tracker, levId, latestEventId, looking>>

Monitors == DOMAIN conns
OfConn(c) == {m \in Monitors : m[1] = c}

EphemeralKinds == {k \in {e.kind : e \in Events} : IsEphemeral(k)}

Idle == event = <<>>

\* The thread is in none of its calls.
Free == Idle /\ removing = {} /\ adding = {}

Init ==
    /\ conns = <<>> /\ lookups = <<>>
    /\ kindRefcounts = [k \in EphemeralKinds |-> 0] /\ catchAllCount = 0
    /\ removing = {} /\ adding = {}
    /\ levId = 0 /\ latestEventId = 0
    /\ event = <<>> /\ visit = 0 /\ seen = {} /\ recipients = <<>> /\ ahead = {}

-----------------------------------------------------------------------------
(* installLookups and uninstallLookups *)

\* The entries for the filters of a monitor
Entries(m, filters) ==
    UNION {{[at |-> k, mon |-> m, i |-> i] : k \in Keys(filters[i])} : i \in DOMAIN filters}

\* Mutant: the tag index is forgotten.
MutErased(gone) ==
    {e \in UNION {Entries(m, conns[m].filters) : m \in gone} : e.at[1] # "tags"}

\* What uninstallLookups erases for the monitors in gone
Erased(gone) == UNION {Entries(m, conns[m].filters) : m \in gone}

\* The entries that are counted: those under an ephemeral kind, and allOthers
Tracked(entries) ==
    {e \in entries : e.at \in {<<"kinds", k>> : k \in EphemeralKinds} \cup {<<"others", 0>>}}

\* A count never goes below 0.
Less(count) == IF count > 0 THEN count - 1 ELSE 0

\* hasSubscribersForKind: the look an ingester takes, in any state
HasSubscribersForKind(kind) == catchAllCount > 0 \/ kindRefcounts[kind] > 0

-----------------------------------------------------------------------------
(* The calls on the tracker, in any order of the entries but removals first *)

\* Mutant: once per kind, not once per filter.
MutUntrack(e) ==
    /\ e \in removing
    /\ removing' = {d \in removing : d.at # e.at}
    /\ IF e.at[1] = "others"
       THEN catchAllCount' = Less(catchAllCount) /\ UNCHANGED kindRefcounts
       ELSE kindRefcounts' = [kindRefcounts EXCEPT ![e.at[2]] = Less(@)]
            /\ UNCHANGED catchAllCount
    /\ UNCHANGED <<conns, lookups, adding, levId, latestEventId, looking>>

\* removeKind, removeCatchAll
Untrack(e) ==
    /\ e \in removing
    /\ removing' = removing \ {e}
    /\ IF e.at[1] = "others"
       THEN catchAllCount' = Less(catchAllCount) /\ UNCHANGED kindRefcounts
       ELSE kindRefcounts' = [kindRefcounts EXCEPT ![e.at[2]] = Less(@)]
            /\ UNCHANGED catchAllCount
    /\ UNCHANGED <<conns, lookups, adding, levId, latestEventId, looking>>

\* addKind, addCatchAll
Track(e) ==
    /\ removing = {}
    /\ e \in adding
    /\ adding' = adding \ {e}
    /\ IF e.at[1] = "others"
       THEN catchAllCount' = catchAllCount + 1 /\ UNCHANGED kindRefcounts
       ELSE kindRefcounts' = [kindRefcounts EXCEPT ![e.at[2]] = @ + 1]
            /\ UNCHANGED catchAllCount
    /\ UNCHANGED <<conns, lookups, removing, levId, latestEventId, looking>>

-----------------------------------------------------------------------------
(* The calls of the ReqMonitor thread, which process does not interrupt *)

\* The thread begins a round with a new snapshot.
Snapshot ==
    /\ Free
    /\ latestEventId < MaxLevId
    /\ latestEventId' = latestEventId + 1
    /\ UNCHANGED <<conns, lookups, tracker, levId, looking>>

\* uninstallLookups and the removal from conns
Uninstall(gone) ==
    /\ Free
    /\ conns' = [m \in Monitors \ gone |-> conns[m]]
    /\ lookups' = [e \in DOMAIN lookups \ Erased(gone) |-> lookups[e]]
    /\ removing' = Tracked(Erased(gone))
    /\ UNCHANGED <<kindRefcounts, catchAllCount, adding, levId, latestEventId, looking>>

\* addSub, for a subscription that is up to date with the snapshot: an older
\* monitor of the same id goes first, also if the new one is then refused.
Replaced(m) == Monitors \cap {m}

AddSubRefused(c, s) ==
    /\ Cardinality(OfConn(c) \ Replaced(<<c, s>>)) >= MaxSubs
    /\ Uninstall(Replaced(<<c, s>>))

AddSub(c, s, filters) ==
    LET m == <<c, s>>
        old == Erased(Replaced(m))
        new == Entries(m, filters)
    IN  /\ Free
        /\ Cardinality(OfConn(c) \ Replaced(m)) < MaxSubs
        /\ conns' = [n \in Monitors \cup {m} |->
                        IF n = m THEN [filters |-> filters, latest |-> latestEventId]
                        ELSE conns[n]]
        /\ lookups' = [e \in (DOMAIN lookups \ old) \cup new |->
                          IF e \in DOMAIN lookups \ old THEN lookups[e] ELSE latestEventId]
        /\ removing' = Tracked(old) /\ adding' = Tracked(new)
        /\ UNCHANGED <<kindRefcounts, catchAllCount, levId, latestEventId, looking>>

\* removeSub: nothing happens when there is no such monitor.
RemoveSub(c, s) == <<c, s>> \in Monitors /\ Uninstall({<<c, s>>})

\* closeConn
CloseConn(c) == OfConn(c) # {} /\ Uninstall(OfConn(c))

-----------------------------------------------------------------------------
(* process *)

\* The keys an event is looked up under, in order
Visits(ev) ==
    <<<<"ids", ev.id>>, <<"authors", ev.pubkey>>>>
    \o [i \in DOMAIN ev.tags |-> <<"tags", <<ev.tags[i].name, ev.tags[i].val>>>>]
    \o <<<<"kinds", ev.kind>>, <<"others", 0>>>>

\* process is called for the events of the snapshot in the order of their levIds.
Process(ev) ==
    /\ Free
    /\ levId < latestEventId
    /\ levId' = levId + 1
    /\ event' = <<ev>> /\ visit' = 1 /\ seen' = {} /\ recipients' = <<>>
    /\ ahead' = {m \in Monitors : conns[m].latest > levId}
    /\ UNCHANGED <<conns, lookups, tracker, latestEventId>>

\* The MonitorSet process is at
MonitorSet(ev) == {e \in DOMAIN lookups : e.at = Visits(ev)[visit]}

\* Mutant: only the item's latestEventId is compared, not the monitor's.
MutUpToDate(e) == lookups[e] >= levId

UpToDate(e) == lookups[e] >= levId \/ conns[e.mon].latest >= levId

\* processMonitorSet, one round of the loop over the items
ProcessMonitorSet(e) ==
    /\ ~Idle
    /\ LET ev == event[1]
           matches == ~UpToDate(e) /\ DoesMatch(conns[e.mon].filters[e.i], ev)
       IN  /\ visit <= Len(Visits(ev))
           /\ e \in MonitorSet(ev) \ seen
           /\ seen' = seen \cup {e}
           /\ lookups' = IF UpToDate(e) THEN lookups ELSE [lookups EXCEPT ![e] = levId]
           /\ recipients' = IF matches THEN Append(recipients, e.mon) ELSE recipients
           /\ conns' = IF matches THEN [conns EXCEPT ![e.mon].latest = levId] ELSE conns
    /\ UNCHANGED <<tracker, levId, latestEventId, event, visit, ahead>>

\* The end of the loop: on to the next key
NextSet ==
    /\ ~Idle
    /\ visit <= Len(Visits(event[1]))
    /\ MonitorSet(event[1]) \subseteq seen
    /\ visit' = visit + 1 /\ seen' = {}
    /\ UNCHANGED <<conns, lookups, tracker, levId, latestEventId, event, recipients, ahead>>

\* The recipients are handed to the callback, and process returns.
Notify ==
    /\ ~Idle
    /\ visit > Len(Visits(event[1]))
    /\ event' = <<>> /\ visit' = 0 /\ recipients' = <<>> /\ ahead' = {}
    /\ UNCHANGED <<conns, lookups, tracker, levId, latestEventId, seen>>

Next ==
    \/ \E c \in Conns, s \in SubIds : AddSubRefused(c, s) \/ RemoveSub(c, s)
    \/ \E c \in Conns, s \in SubIds, g \in Groups : AddSub(c, s, g)
    \/ \E c \in Conns : CloseConn(c)
    \/ \E e \in removing : Untrack(e)
    \/ \E e \in adding : Track(e)
    \/ Snapshot
    \/ \E ev \in Events : Process(ev)
    \/ \E e \in DOMAIN lookups : ProcessMonitorSet(e)
    \/ NextSet
    \/ Notify

Spec == Init /\ [][Next]_vars

-----------------------------------------------------------------------------
(* Properties *)

\* The entries whose calls on the tracker add up to its counts
Counted == (DOMAIN lookups \ adding) \cup removing

\* The indices hold the filters of the live monitors, each under each of its
\* keys, and nothing else: no entry is left of a monitor that is gone (its filter
\* pointer would dangle), and uninstallLookups finds every key it erases.
LookupsExact == DOMAIN lookups = UNION {Entries(m, conns[m].filters) : m \in Monitors}

\* The tracker's counts are those of the filters in the indices, but for the
\* calls still to come, whatever the order of subscribing, replacing, refusing
\* and closing: none is leaked and none is taken back twice, so that whenever
\* an ingester looks it finds a subscriber of an ephemeral kind if a filter for
\* this kind, or for everything, has been counted.  While a subscription is
\* replaced it may look in between, where neither version is counted, and drop
\* an event that both ask for.  (Filters by id, author or tag are never counted,
\* though they may match such an event.)
TrackerExact ==
    /\ catchAllCount = Cardinality({e \in Counted : e.at = <<"others", 0>>})
    /\ \A k \in EphemeralKinds :
         kindRefcounts[k] = Cardinality({e \in Counted : e.at = <<"kinds", k>>})
    /\ \A e \in Counted, k \in EphemeralKinds :
         e.at \in {<<"kinds", k>>, <<"others", 0>>} => HasSubscribersForKind(k)

\* When process has been through the indices, each monitor whose group
\* matches the event is among the recipients once, and no other is: nor is one
\* that was installed with a snapshot that already had the event, which the
\* thread sent to it then.
NotifiesExactly ==
    ~Idle /\ visit > Len(Visits(event[1])) =>
        \A m \in Monitors :
            Cardinality({i \in DOMAIN recipients : recipients[i] = m})
            = IF m \notin ahead /\ GroupMatches(conns[m].filters, event[1]) THEN 1 ELSE 0
=============================================================================
