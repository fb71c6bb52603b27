----------------------------- MODULE EventIngress -----------------------------
(***************************************************************************)
(* How an EVENT message is answered.  The websocket thread queues it for   *)
(* the ingester thread of its connection; the ingester refuses it or hands *)
(* it to the writer thread at the end of its batch; the writer asks the    *)
(* write policy plugin, writes the batch and answers with OK.              *)
(* Disconnections take the same way, but are handed on at once.            *)
(*                                                                         *)
(* The store is reduced to the set of events it holds, and what takes the  *)
(* place of what in it or deletes it to the relation Beats (EventStore has *)
(* the rest).  Of other writers only the removals are here.  Messages are  *)
(* numbered in the order they arrive.                                      *)
(***************************************************************************)
EXTENDS Integers, Sequences, FiniteSets

CONSTANTS
    Conns,       \* each on an ingester thread of its own
    Events,
    NoId,        \* messages whose event is an object without an id
    Invalid,     \* events that do not verify
    Protected,   \* events with a "-" tag
    Ephemeral,   \* events of an ephemeral kind
    Beats,       \* event -> the events it supersedes or deletes
    Rank,        \* event -> its place in the order by created_at and id
    StartDbs,    \* what may be stored at the start
    MaxMsgs,     \* bound: EVENT messages received
    MaxTroubles  \* bound: write transactions that fail, events removed by cron or other
                 \* processes, changes of the subscriptions to ephemeral kinds

ASSUME IngressAssumption ==
    /\ NoId \subseteq Invalid /\ Invalid \subseteq Events
    /\ Protected \cup Ephemeral \subseteq Events
    /\ Beats \in [Events -> SUBSET Events] /\ \A ev \in Events : ev \notin Beats[ev]
    /\ Rank \in [Events -> Nat] /\ \A ev, x \in Events : Rank[ev] = Rank[x] => ev = x
    /\ \A start \in StartDbs : start \subseteq Events \ (Invalid \cup Protected)
    /\ MaxMsgs \in Nat /\ MaxTroubles \in Nat

VARIABLES
    msgs,        \* EVENT messages so far: [conn, ev]
    answers,     \* what was sent for each: sequence of [ok, why]
    closed,      \* connections that are gone
    iq, ib,      \* per ingester: inbox, rest of the batch
    isnap,       \* ... its read transaction
    ipc,         \* ... "wait" or "batch"
    iout,        \* ... writerMsgs
    wq, wb, wpc, \* writer: inbox, rest of the batch; "wait", "plugin", "write", "respond"
    closedConns, \* connections the batch reports as closed
    proc,        \* newEvents: message numbers
    status,      \* the status of those written so far, or "error" for all
    wdb,         \* the database as the write transaction sees it
    written,     \* the events it has inserted
    db,
    ever,        \* history: events that were ever stored
    removed,     \* history: events others have removed since they were last stored
    accepted,    \* history: events the plugin accepted, or stored at the start
    subscribed,  \* EphemeralSubTracker::hasSubscribersForKind
    troubles

ingester == <<ib, isnap, ipc, iout>>
txn      == <<status, wdb, written>>
writer   == <<wb, wpc, closedConns, proc, txn>>
store    == <<db, ever, removed>>
env      == <<closed, subscribed>>
vars == <<msgs, answers, iq, ingester, wq, writer, store, accepted, troubles, env>>

Init ==
    /\ msgs = <<>> /\ answers = <<>> /\ closed = {}
    /\ iq = [c \in Conns |-> <<>>] /\ ib = [c \in Conns |-> <<>>]
    /\ isnap = [c \in Conns |-> {}] /\ ipc = [c \in Conns |-> "wait"]
    /\ iout = [c \in Conns |-> <<>>]
    /\ wq = <<>> /\ wb = <<>> /\ wpc = "wait" /\ closedConns = {} /\ proc = <<>> /\ status = <<>>
    /\ db \in StartDbs /\ ever = db /\ accepted = db /\ removed = {}
    /\ wdb = {} /\ written = {}
    /\ subscribed \in BOOLEAN
    /\ troubles = 0

AddEvent(m) == [type |-> "AddEvent", msg |-> m, conn |-> msgs[m].conn]
CloseConn(c) == [type |-> "CloseConn", msg |-> 0, conn |-> c]

Answer(m, ok, why) == answers' = [answers EXCEPT ![m] = Append(@, [ok |-> ok, why |-> why])]

-----------------------------------------------------------------------------
(* Websocket *)

Receive(c, ev) ==
    /\ c \notin closed
    /\ Len(msgs) < MaxMsgs
    /\ msgs' = Append(msgs, [conn |-> c, ev |-> ev])
    /\ answers' = Append(answers, <<>>)
    /\ iq' = [iq EXCEPT ![c] = Append(@, [type |-> "ClientMessage", msg |-> Len(msgs) + 1])]
    /\ UNCHANGED <<ingester, wq, writer, store, accepted, troubles, env>>

Disconnect(c) ==
    /\ c \notin closed
    /\ closed' = closed \cup {c}
    /\ iq' = [iq EXCEPT ![c] = Append(@, [type |-> "CloseConn", msg |-> 0])]
    /\ UNCHANGED <<msgs, answers, ingester, wq, writer, store, accepted, troubles,
                   subscribed>>

\* Subscriptions come and go (ActiveMonitors).
Toggle ==
    /\ troubles < MaxTroubles
    /\ troubles' = troubles + 1
    /\ subscribed' = ~subscribed
    /\ UNCHANGED <<msgs, answers, iq, ingester, wq, writer, store, accepted,
                   closed>>

\* Cron, or another process such as `strfry delete`, removes an event.  LMDB has
\* one write transaction at a time.
RemoveEvent(ev) ==
    /\ wpc # "write"
    /\ troubles < MaxTroubles
    /\ troubles' = troubles + 1
    /\ ev \in db
    /\ db' = db \ {ev}
    /\ removed' = removed \cup {ev}
    /\ UNCHANGED <<msgs, answers, iq, ingester, wq, writer, ever, accepted,
                   closed, subscribed>>

-----------------------------------------------------------------------------
(* Ingester threads *)

IngesterPop(c) ==
    /\ ipc[c] = "wait" /\ iq[c] # <<>>
    /\ ib' = [ib EXCEPT ![c] = iq[c]]
    /\ iq' = [iq EXCEPT ![c] = <<>>]
    /\ isnap' = [isnap EXCEPT ![c] = db]
    /\ ipc' = [ipc EXCEPT ![c] = "batch"]
    /\ UNCHANGED <<msgs, answers, iout, wq, writer, store, accepted, troubles, env>>

\* ingesterProcessEvent: the checks, in their order, by how they are answered.
Checks == <<"no subscribers", "NOTICE", "invalid", "protected", "Duplicate">>

\* (An invalid event without an id throws once more while it is reported.)
Fails(check, ev, snap) ==
    \/ check = "no subscribers" /\ ev \in Ephemeral /\ ~subscribed
    \/ check = "NOTICE" /\ ev \in NoId
    \/ check = "invalid" /\ ev \in Invalid
    \/ check = "protected" /\ ev \in Protected
    \/ check = "Duplicate" /\ ev \in snap

Refusals(ev, snap) == {i \in DOMAIN Checks : Fails(Checks[i], ev, snap)}

\* The first check that fails; a duplicate is answered with true.
Refusal(ev, snap) ==
    Checks[CHOOSE i \in Refusals(ev, snap) : \A j \in Refusals(ev, snap) : i <= j]

Refuse(m, check) == Answer(m, check = "Duplicate", check)

\* Mutant: a refused event is passed on as well (no return).
MutIngestEvent(c) ==
    /\ ipc[c] = "batch" /\ ib[c] # <<>> /\ Head(ib[c]).type = "ClientMessage"
    /\ LET m == Head(ib[c]).msg
           r == Refusal(msgs[m].ev, isnap[c])
       IN  /\ iout' = [iout EXCEPT ![c] = Append(@, AddEvent(m))]
           /\ IF Refusals(msgs[m].ev, isnap[c]) # {} THEN Refuse(m, r) ELSE answers' = answers
    /\ ib' = [ib EXCEPT ![c] = Tail(@)]
    /\ UNCHANGED <<msgs, iq, isnap, ipc, wq, writer, store, accepted, troubles, env>>

IngestEvent(c) ==
    /\ ipc[c] = "batch" /\ ib[c] # <<>> /\ Head(ib[c]).type = "ClientMessage"
    /\ LET m == Head(ib[c]).msg
           r == Refusal(msgs[m].ev, isnap[c])
       IN  IF Refusals(msgs[m].ev, isnap[c]) # {}
           THEN Refuse(m, r) /\ iout' = iout
           ELSE iout' = [iout EXCEPT ![c] = Append(@, AddEvent(m))] /\ answers' = answers
    /\ ib' = [ib EXCEPT ![c] = Tail(@)]
    /\ UNCHANGED <<msgs, iq, isnap, ipc, wq, writer, store, accepted, troubles, env>>

\* CloseConn goes to the writer at once, ahead of the events of this batch.
IngestClose(c) ==
    /\ ipc[c] = "batch" /\ ib[c] # <<>> /\ Head(ib[c]).type = "CloseConn"
    /\ wq' = Append(wq, CloseConn(c))
    /\ ib' = [ib EXCEPT ![c] = Tail(@)]
    /\ UNCHANGED <<msgs, answers, iq, isnap, ipc, iout, writer, store, accepted, troubles, env>>

\* dispatchMulti at the end of the batch
IngestDispatch(c) ==
    /\ ipc[c] = "batch" /\ ib[c] = <<>>
    /\ wq' = wq \o iout[c]
    /\ iout' = [iout EXCEPT ![c] = <<>>]
    /\ isnap' = [isnap EXCEPT ![c] = {}]
    /\ ipc' = [ipc EXCEPT ![c] = "wait"]
    /\ UNCHANGED <<msgs, answers, iq, ib, writer, store, accepted, troubles, env>>

-----------------------------------------------------------------------------
(* Writer thread *)

WriterPop ==
    /\ wpc = "wait" /\ wq # <<>>
    /\ wb' = wq /\ wq' = <<>>
    /\ closedConns' = {wq[i].conn : i \in {j \in DOMAIN wq : wq[j].type = "CloseConn"}}
    /\ wpc' = "plugin"
    /\ UNCHANGED <<msgs, answers, iq, ingester, proc, txn, store, accepted, troubles, env>>

\* Mutant: a closed connection takes the events of the others with it.
MutFiltered(msg) == msg.type = "CloseConn" \/ closedConns # {}

\* Messages that are filtered out: only events are kept, and not those of
\* connections the same batch reports as closed.
Filtered(msg) == msg.type = "CloseConn" \/ msg.conn \in closedConns

Skip ==
    /\ wpc = "plugin" /\ wb # <<>> /\ Filtered(Head(wb))
    /\ wb' = Tail(wb)
    /\ UNCHANGED <<msgs, answers, iq, ingester, wq, wpc, closedConns, proc, txn, store,
                   accepted, troubles, env>>

\* PluginEventSifter::acceptEvent returns Accept (or there is no plugin).
Accept ==
    /\ wpc = "plugin" /\ wb # <<>> /\ ~Filtered(Head(wb))
    /\ proc' = Append(proc, Head(wb).msg)
    /\ accepted' = accepted \cup {msgs[Head(wb).msg].ev}
    /\ wb' = Tail(wb)
    /\ UNCHANGED <<msgs, answers, iq, ingester, wq, wpc, closedConns, txn, store, troubles, env>>

\* A shadow rejection is answered as if the event had been written.
Reject(shadow) ==
    /\ wpc = "plugin" /\ wb # <<>> /\ ~Filtered(Head(wb))
    /\ Answer(Head(wb).msg, shadow, "plugin")
    /\ wb' = Tail(wb)
    /\ UNCHANGED <<msgs, iq, ingester, wq, wpc, closedConns, proc, txn, store, accepted,
                   troubles, env>>

\* Nothing is left to write.
NothingToWrite ==
    /\ wpc = "plugin" /\ wb = <<>> /\ proc = <<>>
    /\ wpc' = "wait" /\ closedConns' = {}
    /\ UNCHANGED <<msgs, answers, iq, ingester, wq, wb, proc, txn, store, accepted, troubles, env>>

Ev(i) == msgs[proc[i]].ev

\* txn_rw
BeginWrite ==
    /\ wpc = "plugin" /\ wb = <<>> /\ proc # <<>>
    /\ wdb' = db
    /\ wpc' = "write"
    /\ UNCHANGED <<msgs, answers, iq, ingester, wq, wb, closedConns, proc, status, written,
                   store, accepted, troubles, env>>

\* The events writeEvents comes to next, in their sorted order; copies of one
\* event come in any order.
NextUp == {i \in DOMAIN proc \ DOMAIN status :
             \A j \in DOMAIN proc \ DOMAIN status : Rank[Ev(i)] <= Rank[Ev(j)]}

\* A copy of the event before is a Duplicate, whatever became of that one.
StatusOf(i) ==
    IF Ev(i) \in wdb \/ \E j \in DOMAIN status : Ev(j) = Ev(i) THEN "Duplicate"
    ELSE IF \E x \in wdb : Ev(i) \in Beats[x] THEN "Replaced"
    ELSE "Written"

\* One round of the loop of writeEvents: an event that is inserted removes the
\* ones it supersedes or deletes, those of the same batch included.
WriteEvent(i) ==
    /\ wpc = "write" /\ i \in NextUp
    /\ status' = [j \in DOMAIN status \cup {i} |-> IF j = i THEN StatusOf(i) ELSE status[j]]
    /\ IF StatusOf(i) = "Written"
       THEN wdb' = (wdb \cup {Ev(i)}) \ Beats[Ev(i)] /\ written' = written \cup {Ev(i)}
       ELSE UNCHANGED <<wdb, written>>
    /\ UNCHANGED <<msgs, answers, iq, ingester, wq, wb, wpc, closedConns, proc, store, accepted,
                   troubles, env>>

Commit ==
    /\ wpc = "write" /\ DOMAIN status = DOMAIN proc
    /\ db' = wdb /\ ever' = ever \cup written /\ removed' = removed \ written
    /\ wdb' = {} /\ written' = {}
    /\ wpc' = "respond"
    /\ UNCHANGED <<msgs, answers, iq, ingester, wq, wb, closedConns, proc, status, accepted,
                   troubles, env>>

\* Mutant: the exception is logged, the events are answered as if written.
MutWriteFails ==
    /\ wpc = "write"
    /\ troubles < MaxTroubles
    /\ troubles' = troubles + 1
    /\ status' = [i \in DOMAIN proc |-> "Written"]
    /\ wdb' = {} /\ written' = {}
    /\ wpc' = "respond"
    /\ UNCHANGED <<msgs, answers, iq, ingester, wq, wb, closedConns, proc, store, accepted, env>>

\* The transaction throws, wherever it is, and is dropped.
WriteFails ==
    /\ wpc = "write"
    /\ troubles < MaxTroubles
    /\ troubles' = troubles + 1
    /\ status' = [i \in DOMAIN proc |-> "error"]
    /\ wdb' = {} /\ written' = {}
    /\ wpc' = "respond"
    /\ UNCHANGED <<msgs, answers, iq, ingester, wq, wb, closedConns, proc, store, accepted, env>>

\* One OK for each event of the batch.
Respond ==
    /\ wpc = "respond"
    /\ answers' = [m \in DOMAIN answers |->
         answers[m] \o
         [i \in 1..Cardinality({j \in DOMAIN proc : proc[j] = m}) |->
            LET why == status[CHOOSE j \in DOMAIN proc : proc[j] = m]
            IN  [ok |-> why \in {"Written", "Duplicate"}, why |-> why]]]
    /\ proc' = <<>> /\ status' = <<>> /\ closedConns' = {}
    /\ wpc' = "wait"
    /\ UNCHANGED <<msgs, iq, ingester, wq, wb, wdb, written, store, accepted, troubles, env>>

-----------------------------------------------------------------------------
IngesterStep(c) == IngesterPop(c) \/ IngestEvent(c) \/ IngestClose(c) \/ IngestDispatch(c)

WriterStep ==
    \/ WriterPop \/ Skip \/ Accept \/ \E shadow \in BOOLEAN : Reject(shadow)
    \/ NothingToWrite \/ BeginWrite \/ (\E i \in DOMAIN proc : WriteEvent(i))
    \/ Commit \/ WriteFails \/ Respond

Next ==
    \/ \E c \in Conns, ev \in Events : Receive(c, ev)
    \/ \E c \in Conns : Disconnect(c)
    \/ Toggle
    \/ \E ev \in Events : RemoveEvent(ev)
    \/ \E c \in Conns : IngesterStep(c)
    \/ WriterStep

\* The threads run when they can; acceptEvent returns (PluginEventSifter).
Spec == /\ Init /\ [][Next]_vars
        /\ \A c \in Conns : WF_vars(IngesterStep(c))
        /\ WF_vars(WriterStep)

-----------------------------------------------------------------------------
(* Properties *)

\* No EVENT message is answered twice, by whichever thread.
AnsweredOnce == \A m \in DOMAIN answers : Len(answers[m]) <= 1

\* The events that one ever stored supersedes or deletes
Beaten == UNION {Beats[x] : x \in ever}

\* An OK with true means that the event is stored, unless the plugin asked for
\* that answer, the event has been superseded or deleted by one that was stored
\* (which may be a later one of the same batch), or it was removed by cron or
\* another process; and what was ever stored has passed every check and the
\* plugin.
OkTruthful ==
    /\ \A m \in DOMAIN answers : \A i \in DOMAIN answers[m] :
         answers[m][i].ok /\ answers[m][i].why # "plugin"
         => msgs[m].ev \in db \cup Beaten \cup removed
    /\ ever \subseteq accepted \ (Invalid \cup Protected)

\* Every EVENT message is answered in the end, unless its connection closes:
\* no queue, filter, refusal or failed transaction swallows it.
EveryEventAnswered ==
    \A m \in 1..MaxMsgs :
        m \in DOMAIN msgs
        ~> (m \in DOMAIN msgs /\ (answers[m] # <<>> \/ msgs[m].conn \in closed))
=============================================================================
