----------------------------- MODULE ReqPipeline -----------------------------
(***************************************************************************)
(* The life of a subscription.  The ingester turns REQ, COUNT, CLOSE and a *)
(* disconnection into messages for the ReqWorker thread, which runs the    *)
(* stored-events query in time slices (QueryScheduler, DBQuery), sends     *)
(* EOSE and hands the subscription to the ReqMonitor thread, which first   *)
(* catches up with what was written meanwhile and then delivers new events *)
(* on every change of the database (ActiveMonitors).                       *)
(*                                                                         *)
(* Each thread empties its inbox at once and handles the whole batch in    *)
(* one read transaction, that is on the snapshot taken when the batch      *)
(* began.  Subscriptions are numbered in the order of their REQs (their    *)
(* generation): the client cannot tell two generations of a subscription   *)
(* id apart, the properties do.                                            *)
(*                                                                         *)
(* Abstractions: a filter is the set of events it matches and a limit; the *)
(* order in which a scan finds events is left open (a slice sends any      *)
(* events of the query that are due); what one step sends for a            *)
(* subscription is one message with a set of events.                       *)
(***************************************************************************)
EXTENDS Integers, Sequences, FiniteSets

CONSTANTS
    Conns, SubIds,
    Evs,          \* the events that may be written
    Reqs,         \* what a REQ may ask: [count: BOOLEAN, filters: Seq([match, limit])]
    MaxSubs,      \* cfg().relay__maxSubsPerConnection
    MaxCount,     \* cfg().relay__maxFilterLimitCount
    MaxU64,       \* MAX_U64: no event has this levId
    MaxReqs,      \* bound: REQs received
    MaxCloses,    \* bound: CLOSE messages received
    MaxRemovals,  \* bound: events deleted from the database
    MaxPauses     \* bound: times a query is paused

ASSUME ReqAssumption ==
    /\ MaxSubs \in Nat \ {0} /\ MaxCount \in Nat /\ MaxU64 \in Nat \ {0}
    /\ MaxReqs \in Nat /\ MaxCloses \in Nat /\ MaxRemovals \in Nat /\ MaxPauses \in Nat
    /\ \A r \in Reqs : /\ r.count \in BOOLEAN
                       /\ r.filters \in Seq([match : SUBSET Evs, limit : Nat]) \ {<<>>}

VARIABLES
    db,        \* the committed events: set of [levId, ev]
    dirty,     \* data.mdb changed and the file watcher has not reported it yet
    subs,      \* every Subscription/DBQuery so far, by generation
    closed,    \* connections that are gone
    wq,        \* ReqWorker: inbox
    wpc,       \* "wait", "batch" (next message), "slice" (process after addSub)
    wb, wtxn,  \* rest of the batch, snapshot
    running,   \* QueryScheduler::running
    reg,       \* QueryScheduler::conns: generations registered
    dead,      \* DBQuery::dead
    mq, mpc,   \* ReqMonitor: inbox, "wait" or "batch"
    mb, mtxn,
    curr,      \* currEventId
    mons,      \* ActiveMonitors::conns
    out,       \* all that was sent, by the generation it answers
    over,      \* history: generations the client closed
    closes, removals

store   == <<db, dirty, removals>>
worker  == <<wpc, wb, wtxn, running, reg, dead>>
monitor == <<mpc, mb, mtxn, curr, mons>>
client  == <<closed, over, closes>>
vars == <<store, worker, monitor, client, subs, wq, mq, out>>

-----------------------------------------------------------------------------
LevIds(d) == {r.levId : r \in d}

\* getMostRecentLevId
MostRecentLevId(d) ==
    CHOOSE m \in LevIds(d) \cup {0} : \A n \in LevIds(d) : n <= m

\* A filter group matches when one of its filters does.
Matches(filters, ev) == \E i \in DOMAIN filters : ev \in filters[i].match

NewSub(g) == [type |-> "NewSub", gen |-> g]
RemoveSub(c, s) == [type |-> "RemoveSub", conn |-> c, sub |-> s]
CloseConn(c) == [type |-> "CloseConn", conn |-> c]
DBChange == [type |-> "DBChange"]

\* The generations in S that belong to a connection, or to one of its ids.
OfConn(S, c) == {g \in S : subs[g].conn = c}
OfSub(S, c, s) == {g \in OfConn(S, c) : subs[g].sub = s}

\* relay__maxSubsPerConnection is reached: "too many concurrent REQs".
TooMany(S, c) == Cardinality(OfConn(S, c)) >= MaxSubs

\* What is sent to a client: some events, or an answer without events.
Sent(found) == IF found = {} THEN <<>> ELSE <<[type |-> "EVENTS", recs |-> found]>>
Answer(type) == <<[type |-> type, recs |-> {}]>>

Init ==
    /\ db = {} /\ dirty = FALSE /\ removals = 0
    /\ subs = <<>>
    /\ closed = {} /\ over = {} /\ closes = 0
    /\ wq = <<>> /\ wpc = "wait" /\ wb = <<>> /\ wtxn = {}
    /\ running = <<>> /\ reg = {} /\ dead = {}
    /\ mq = <<>> /\ mpc = "wait" /\ mb = <<>> /\ mtxn = {}
    /\ curr = MaxU64
    /\ mons = {}
    /\ out = <<>>

-----------------------------------------------------------------------------
(* Ingester: messages of one connection arrive in order *)

\* The limits of a COUNT are capped one above what it may report.
Capped(req) ==
    [i \in DOMAIN req.filters |->
        [req.filters[i] EXCEPT !.limit =
            IF req.count /\ @ > MaxCount + 1 THEN MaxCount + 1 ELSE @]]

\* ingesterProcessReq.  What is refused there (COUNT disabled, a message that
\* does not parse) leaves no trace; a filter that can never match is one
\* that matches no event.
IngestReq(c, s, req) ==
    /\ c \notin closed
    /\ Len(subs) < MaxReqs
    /\ req.count => MaxCount > 0
    /\ subs' = Append(subs, [conn |-> c, sub |-> s, count |-> req.count,
                             filters |-> Capped(req),
                             latest |-> MaxU64, start |-> MaxU64,
                             fi |-> 1, full |-> {}, cur |-> {}, buf |-> {},
                             cut |-> FALSE, pauses |-> 0])
    /\ wq' = Append(wq, NewSub(Len(subs) + 1))
    /\ out' = Append(out, <<>>)
    /\ UNCHANGED <<store, worker, monitor, client, mq>>

\* ingesterProcessClose
IngestClose(c, s) ==
    /\ c \notin closed
    /\ closes < MaxCloses
    /\ closes' = closes + 1
    /\ over' = over \cup OfSub(DOMAIN subs, c, s)
    /\ wq' = Append(wq, RemoveSub(c, s))
    /\ UNCHANGED <<store, worker, monitor, closed, subs, mq, out>>

\* MsgIngester::CloseConn, sent when the websocket is gone
IngestCloseConn(c) ==
    /\ c \notin closed
    /\ closed' = closed \cup {c}
    /\ over' = over \cup OfConn(DOMAIN subs, c)
    /\ wq' = Append(wq, CloseConn(c))
    /\ UNCHANGED <<store, worker, monitor, closes, subs, mq, out>>

-----------------------------------------------------------------------------
(* The database, as EventStore changes it *)

Commit(ev) ==
    /\ \A r \in db : r.ev # ev
    /\ MostRecentLevId(db) + 1 < MaxU64
    /\ db' = db \cup {[levId |-> MostRecentLevId(db) + 1, ev |-> ev]}
    /\ dirty' = TRUE
    /\ UNCHANGED <<removals, worker, monitor, client, subs, wq, mq, out>>

\* A newer version, a deletion request or the cron thread removes an event,
\* never the most recent one (EventStore, LevIdsAdvance).
Remove(r) ==
    /\ removals < MaxRemovals
    /\ r.levId # MostRecentLevId(db)
    /\ removals' = removals + 1
    /\ db' = db \ {r}
    /\ dirty' = TRUE
    /\ UNCHANGED <<worker, monitor, client, subs, wq, mq, out>>

\* `strfry delete` removes any event.
RemoveAny(r) ==
    /\ removals < MaxRemovals
    /\ removals' = removals + 1
    /\ db' = db \ {r}
    /\ dirty' = TRUE
    /\ UNCHANGED <<worker, monitor, client, subs, wq, mq, out>>

\* Mutant: a change is not reported while the monitor is busy.
MutWatcher ==
    /\ dirty
    /\ dirty' = FALSE
    /\ mq' = IF mpc = "batch" THEN mq ELSE Append(mq, DBChange)
    /\ UNCHANGED <<db, removals, worker, monitor, client, subs, wq, out>>

\* The file watcher reports the changes since its last report as one.
Watcher ==
    /\ dirty
    /\ dirty' = FALSE
    /\ mq' = Append(mq, DBChange)
    /\ UNCHANGED <<db, removals, worker, monitor, client, subs, wq, out>>

-----------------------------------------------------------------------------
(* ReqWorker *)

\* Mutant: always waits for a message.
MutWorkerWake ==
    /\ wpc = "wait"
    /\ wq # <<>>
    /\ wb' = wq /\ wq' = <<>>
    /\ wtxn' = db
    /\ wpc' = "batch"
    /\ UNCHANGED <<store, monitor, client, subs, running, reg, dead, mq, out>>

\* pop_all (or pop_all_no_wait when queries are running), txn_ro
WorkerWake ==
    /\ wpc = "wait"
    /\ wq # <<>> \/ running # <<>>
    /\ wb' = wq /\ wq' = <<>>
    /\ wtxn' = db
    /\ wpc' = "batch"
    /\ UNCHANGED <<store, monitor, client, subs, running, reg, dead, mq, out>>

\* NewSub: QueryScheduler::addSub; a slice follows in any case.
WorkerAdd ==
    /\ wpc = "batch" /\ wb # <<>> /\ Head(wb).type = "NewSub"
    /\ LET g     == Head(wb).gen
           old   == OfSub(reg, subs[g].conn, subs[g].sub)
           kept  == reg \ old
           full  == TooMany(kept, subs[g].conn)
       IN  /\ subs' = [subs EXCEPT ![g].latest = MostRecentLevId(wtxn),
                                   ![g].start = MostRecentLevId(wtxn)]
           /\ dead' = dead \cup old
           /\ reg' = IF full THEN kept ELSE kept \cup {g}
           /\ running' = IF full THEN running ELSE <<g>> \o running
           /\ out' = IF full THEN [out EXCEPT ![g] = @ \o Answer("NOTICE")] ELSE out
    /\ wb' = Tail(wb)
    /\ wpc' = "slice"
    /\ UNCHANGED <<store, monitor, client, wtxn, wq, mq>>

MutRemoveUntold ==
    /\ wpc = "batch" /\ wb # <<>> /\ Head(wb).type = "RemoveSub"
    /\ LET old == OfSub(reg, Head(wb).conn, Head(wb).sub)
       IN  dead' = dead \cup old /\ reg' = reg \ old
    /\ wb' = Tail(wb)
    /\ UNCHANGED <<store, monitor, client, subs, wpc, wtxn, running, wq, mq, out>>

\* RemoveSub: QueryScheduler::removeSub, passed on to the monitor.
WorkerRemove ==
    /\ wpc = "batch" /\ wb # <<>> /\ Head(wb).type = "RemoveSub"
    /\ LET old == OfSub(reg, Head(wb).conn, Head(wb).sub)
       IN  dead' = dead \cup old /\ reg' = reg \ old
    /\ mq' = Append(mq, Head(wb))
    /\ wb' = Tail(wb)
    /\ UNCHANGED <<store, monitor, client, subs, wpc, wtxn, running, wq, out>>

\* CloseConn: QueryScheduler::closeConn, passed on to the monitor.
WorkerClose ==
    /\ wpc = "batch" /\ wb # <<>> /\ Head(wb).type = "CloseConn"
    /\ LET old == OfConn(reg, Head(wb).conn)
       IN  dead' = dead \cup old /\ reg' = reg \ old
    /\ mq' = Append(mq, Head(wb))
    /\ wb' = Tail(wb)
    /\ UNCHANGED <<store, monitor, client, subs, wpc, wtxn, running, wq, out>>

\* A slice is due after an addSub and at the end of the batch.
SliceDue == wpc = "slice" \/ (wpc = "batch" /\ wb = <<>>)

SliceDone == /\ wpc' = IF wpc = "slice" THEN "batch" ELSE "wait"
             /\ wtxn' = IF wpc = "slice" THEN wtxn ELSE {}

\* QueryScheduler::process with nothing to do
SliceIdle ==
    /\ SliceDue
    /\ running = <<>>
    /\ SliceDone
    /\ UNCHANGED <<store, monitor, client, subs, wb, running, reg, dead, wq, mq, out>>

\* ... with a query that was removed meanwhile: it is freed
SliceDead ==
    /\ SliceDue
    /\ running # <<>> /\ Head(running) \in dead
    /\ running' = Tail(running)
    /\ dead' = dead \ {Head(running)}
    /\ SliceDone
    /\ UNCHANGED <<store, monitor, client, subs, wb, reg, wq, mq, out>>

\* Mutant: events written after the query began too.
MutDue(q, f) == {r \in wtxn \cup q.buf : r.ev \in f.match /\ r.levId \notin q.cur}

\* What the scan of the current filter may find in this slice: events of the
\* snapshot, and levIds collected before a pause that are gone by now.  An
\* event that came in after the query began is left to the monitor.
Due(q, f) ==
    {r \in wtxn \cup q.buf : /\ r.ev \in f.match
                             /\ r.levId <= q.latest
                             /\ r.levId \notin q.cur}

\* Mutant: the count is not capped.
MutEnding(q, full) ==
    IF ~q.count THEN Answer("EOSE")
    ELSE <<[type |-> "COUNT", recs |-> {}, count |-> Cardinality(full),
            limited |-> Cardinality(full) > MaxCount]>>

\* onComplete: the count (with "limited" when it was capped), or EOSE
Ending(q, full) ==
    IF ~q.count THEN Answer("EOSE")
    ELSE <<[type |-> "COUNT", recs |-> {},
            count |-> IF Cardinality(full) > MaxCount THEN MaxCount ELSE Cardinality(full),
            limited |-> Cardinality(full) > MaxCount]>>

\* DBQuery::process on the query at the front, as far as one filter goes: the
\* scan finds the entries S; those not found for an earlier filter and still
\* stored are sent.  The filter is finished when its limit is reached or
\* nothing is left; then the next filter follows in the same slice.  An
\* unfinished scan is paused and its query goes to the back.
SliceQuery(S) ==
    /\ SliceDue
    /\ running # <<>> /\ Head(running) \notin dead
    /\ LET g     == Head(running)
           q     == subs[g]
           f     == q.filters[q.fi]
           cur   == q.cur \cup LevIds(S)
           done  == \/ f.limit = 0
                    \/ Cardinality(cur) >= f.limit
                    \/ (Due(q, f) \cap wtxn) \subseteq S
           complete == done /\ q.fi = Len(q.filters)
           fresh == {r \in S \cap wtxn : r.levId \notin q.full}
           full  == q.full \cup LevIds(S)
       IN  /\ S \subseteq Due(q, f)
           /\ f.limit = 0 => S = {}
           /\ f.limit # 0 => Cardinality(cur) <= f.limit
           /\ ~done => q.pauses < MaxPauses
           /\ subs' = [subs EXCEPT
                ![g].full = full,
                ![g].cur = IF done THEN {} ELSE cur,
                ![g].fi = IF done /\ ~complete THEN @ + 1 ELSE @,
                ![g].buf = IF done THEN {} ELSE {r \in Due(q, f) : r.levId \notin cur},
                ![g].cut = @ \/ (done /\ Cardinality(cur) >= f.limit),
                ![g].pauses = IF done THEN @ ELSE @ + 1]
           /\ out' = [out EXCEPT ![g] =
                @ \o (IF q.count THEN <<>> ELSE Sent(fresh))
                  \o (IF complete THEN Ending(q, full) ELSE <<>>)]
           /\ running' = IF complete THEN Tail(running)
                         ELSE IF done THEN running
                         ELSE Append(Tail(running), g)
           /\ reg' = IF complete THEN reg \ {g} ELSE reg
           /\ mq' = IF complete /\ ~q.count THEN Append(mq, NewSub(g)) ELSE mq
           /\ IF done /\ ~complete THEN UNCHANGED <<wpc, wtxn>> ELSE SliceDone
    /\ UNCHANGED <<store, monitor, client, wb, dead, wq>>

-----------------------------------------------------------------------------
(* ReqMonitor *)

\* Mutant: currEventId is not initialised.
MutMonWake ==
    /\ mpc = "wait"
    /\ mq # <<>>
    /\ mb' = mq /\ mq' = <<>>
    /\ mtxn' = db
    /\ mpc' = "batch"
    /\ UNCHANGED <<store, worker, client, subs, curr, mons, wq, out>>

MonWake ==
    /\ mpc = "wait"
    /\ mq # <<>>
    /\ mb' = mq /\ mq' = <<>>
    /\ mtxn' = db
    /\ curr' = IF curr > MostRecentLevId(db) THEN MostRecentLevId(db) ELSE curr
    /\ mpc' = "batch"
    /\ UNCHANGED <<store, worker, client, subs, mons, wq, out>>

\* The message at the head is done; with the last one the snapshot is given up.
MonDone ==
    /\ mb' = Tail(mb)
    /\ mpc' = IF Len(mb) = 1 THEN "wait" ELSE "batch"
    /\ mtxn' = IF Len(mb) = 1 THEN {} ELSE mtxn

\* NewSub: catch up from the subscription's latestEventId, then
\* ActiveMonitors::addSub.
MonAdd ==
    /\ mpc = "batch" /\ Head(mb).type = "NewSub"
    /\ LET g     == Head(mb).gen
           c     == subs[g].conn
           missed == {r \in mtxn : r.levId > subs[g].latest /\ Matches(subs[g].filters, r.ev)}
           kept  == mons \ OfSub(mons, c, subs[g].sub)
           full  == TooMany(kept, c)
       IN  /\ subs' = [subs EXCEPT ![g].latest = MostRecentLevId(mtxn)]
           /\ mons' = IF full THEN kept ELSE kept \cup {g}
           /\ out' = [out EXCEPT ![g] =
                @ \o Sent(missed) \o (IF full THEN Answer("NOTICE") ELSE <<>>)]
    /\ MonDone
    /\ UNCHANGED <<store, worker, client, curr, wq, mq>>

\* RemoveSub: ActiveMonitors::removeSub
MonRemove ==
    /\ mpc = "batch" /\ Head(mb).type = "RemoveSub"
    /\ mons' = mons \ OfSub(mons, Head(mb).conn, Head(mb).sub)
    /\ MonDone
    /\ UNCHANGED <<store, worker, client, subs, curr, wq, mq, out>>

\* CloseConn: ActiveMonitors::closeConn
MonClose ==
    /\ mpc = "batch" /\ Head(mb).type = "CloseConn"
    /\ mons' = mons \ OfConn(mons, Head(mb).conn)
    /\ MonDone
    /\ UNCHANGED <<store, worker, client, subs, curr, wq, mq, out>>

\* Mutant: the monitor's own latestEventId is not compared.
MutPending(g) == {r \in mtxn : r.levId > curr /\ Matches(subs[g].filters, r.ev)}

\* The new events a monitor has not seen and matches (ActiveMonitors::process
\* for every event above currEventId).
Pending(g) ==
    {r \in mtxn : /\ r.levId > curr
                  /\ r.levId > subs[g].latest
                  /\ Matches(subs[g].filters, r.ev)}

MonDBChange ==
    /\ mpc = "batch" /\ Head(mb).type = "DBChange"
    /\ subs' = [g \in DOMAIN subs |->
                  IF g \in mons /\ Pending(g) # {}
                  THEN [subs[g] EXCEPT !.latest = MostRecentLevId(Pending(g))]
                  ELSE subs[g]]
    /\ out' = [g \in DOMAIN out |->
                 IF g \in mons THEN out[g] \o Sent(Pending(g)) ELSE out[g]]
    /\ curr' = MostRecentLevId(mtxn)
    /\ MonDone
    /\ UNCHANGED <<store, worker, client, mons, wq, mq>>

-----------------------------------------------------------------------------
WorkerStep ==
    \/ WorkerWake \/ WorkerAdd \/ WorkerRemove \/ WorkerClose
    \/ SliceIdle \/ SliceDead
    \/ \E S \in SUBSET (IF running = <<>> THEN {}
                        ELSE wtxn \cup subs[Head(running)].buf) : SliceQuery(S)

MonitorStep == MonWake \/ MonAdd \/ MonRemove \/ MonClose \/ MonDBChange

ClientStep ==
    \/ \E c \in Conns, s \in SubIds, req \in Reqs : IngestReq(c, s, req)
    \/ \E c \in Conns, s \in SubIds : IngestClose(c, s)
    \/ \E c \in Conns : IngestCloseConn(c)

Next ==
    \/ ClientStep
    \/ \E ev \in Evs : Commit(ev)
    \/ \E r \in db : Remove(r)
    \/ Watcher
    \/ WorkerStep
    \/ MonitorStep

\* With `strfry delete` in use.
NextWithDelete == Next \/ \E r \in db : RemoveAny(r)

\* The threads and the file watcher keep running; clients and writers owe
\* nothing.
Fairness == WF_vars(WorkerStep) /\ WF_vars(MonitorStep) /\ WF_vars(Watcher)

Spec == Init /\ [][Next]_vars
FairSpec == Spec /\ Fairness
SpecWithDelete == Init /\ [][NextWithDelete]_vars

-----------------------------------------------------------------------------
(* Properties *)

Gens == DOMAIN subs

\* The positions in out[g] of messages of a type.
At(g, type) == {i \in DOMAIN out[g] : out[g][i].type = type}

Delivered(g) == UNION {out[g][i].recs : i \in DOMAIN out[g]}

\* An event is sent at most once for a subscription, whether the query, the
\* catch-up or the monitor finds it.
SentOnce ==
    \A g \in Gens : \A i, j \in DOMAIN out[g] :
        i # j => out[g][i].recs \cap out[g][j].recs = {}

\* EOSE is sent once, before it only what was stored when the query began,
\* after it only what came later.
EoseSplits ==
    \A g \in Gens :
        /\ Cardinality(At(g, "EOSE") \cup At(g, "COUNT")) <= 1
        /\ \A i \in DOMAIN out[g] : \A r \in out[g][i].recs :
             r.levId > subs[g].start <=> \E e \in At(g, "EOSE") : e < i

\* A COUNT is the number of stored events that match, each counted once even
\* if several filters match it, or it says it was capped.  Events written while
\* the query was paused are not counted, events removed meanwhile may be; and
\* of a filter with a limit of its own below the cap, so many are enough.
CountExact ==
    \A g \in Gens : \A i \in At(g, "COUNT") :
        LET m == out[g][i]
            filters == subs[g].filters
            stored == {r \in db : r.levId <= subs[g].start /\ Matches(filters, r.ev)}
            whole  == {r \in stored : \E k \in DOMAIN filters :
                         filters[k].limit > MaxCount /\ r.ev \in filters[k].match}
        IN  /\ m.count <= MaxCount /\ m.count <= subs[g].start
            /\ m.limited => m.count = MaxCount /\ subs[g].start > MaxCount
            /\ ~m.limited => m.count >= Cardinality(whole)
            /\ removals = 0 => IF m.limited THEN Cardinality(stored) > MaxCount
                               ELSE m.count <= Cardinality(stored)

\* Nothing is on its way.
Quiet == wq = <<>> /\ wpc = "wait" /\ running = <<>> /\ mq = <<>> /\ mpc = "wait" /\ ~dirty

\* When everything has been handled, no query and no monitor is left of a
\* subscription the client closed, or of a connection that is gone.
NoZombies == Quiet => mons \cap over = {} /\ reg = {} /\ dead = {}

\* When everything has been handled, a monitored subscription has every
\* stored event that matches, unless a limit cut its query short: the gap
\* between the end of the query and the monitor loses nothing.
NothingMissed ==
    Quiet => \A g \in mons : \A r \in db :
        Matches(subs[g].filters, r.ev) /\ (r.levId > subs[g].start \/ ~subs[g].cut)
        => r \in Delivered(g)

\* Every REQ is answered by EOSE, COUNT or a notice, unless the client closed
\* it or asked again under the same id.
Answered(g) ==
    \/ At(g, "EOSE") \cup At(g, "COUNT") \cup At(g, "NOTICE") # {}
    \/ g \in over
    \/ \E h \in Gens : h > g /\ subs[h].conn = subs[g].conn /\ subs[h].sub = subs[g].sub
EveryReqAnswered == \A g \in 1..MaxReqs : g \in Gens ~> (g \in Gens /\ Answered(g))

\* An event that stays in the database reaches every monitor it matches.
EventuallyDelivered ==
    \A g \in 1..MaxReqs : \A ev \in Evs :
        (\E r \in db : r.ev = ev /\ g \in mons /\ Matches(subs[g].filters, ev)
                       /\ r.levId > subs[g].start)
        ~> \/ g \notin mons
           \/ \A r \in db : r.ev = ev => r \in Delivered(g)
=============================================================================
