---------------------------- MODULE StreamCommand ----------------------------
(***************************************************************************)
(* `strfry stream` (cmd_stream.cpp) and the client connection it uses      *)
(* (WSConnection.h).  Downwards it writes every event the other relay      *)
(* sends; upwards it forwards every event that appears in the database, as *)
(* told by a monitor of the file, except those it has just downloaded.     *)
(*                                                                         *)
(* One thread runs the event loop; it sleeps inside the handler of a       *)
(* disconnection or an error before it connects again.  uWS, the file      *)
(* monitor and the other relay are external: terminate() runs the handler  *)
(* of the disconnection; the relay may send any event, those it was just   *)
(* sent too.                                                               *)
(***************************************************************************)
EXTENDS WriterPipeline, PluginEventSifter

CONSTANTS
    Offered,         \* events the other relay may send
    MaxDeliveries,   \* bound: EVENT messages of the other relay
    MaxFailures      \* bound: disconnections, failed attempts, troubles with the plugin

ASSUME StreamAssumption ==
    Offered \subseteq Events /\ MaxDeliveries \in Nat /\ MaxFailures \in Nat

VARIABLES
    currWs,          \* there is a connection
    attempts,        \* hub.connect calls under way
    asleep,          \* doConnect is sleeping, in a handler
    downloadedIds,
    triggered,       \* hubTrigger was sent
    changed,         \* the file has changed since its monitor last called back
    received, sent,  \* history: events accepted from there, events sent there,
    lost,            \* ... and not sent, for want of a connection
    deliveries, failures

loop       == <<currWs, attempts, asleep, downloadedIds, triggered, received, sent, lost,
                deliveries, failures>>
streamVars == <<loop, changed, pluginVars>>

StreamCmd(dir) == [name |-> "stream", opt |-> dir]

StreamIdle ==
    /\ currWs = FALSE /\ attempts = 0 /\ asleep = FALSE
    /\ downloadedIds = {} /\ triggered = FALSE /\ changed = FALSE
    /\ received = {} /\ sent = {} /\ lost = {} /\ deliveries = 0 /\ failures = 0

\* currEventId is read and the monitor runs; ws.run() is to come.
StreamInit(dir) ==
    /\ cmd = StreamCmd(dir) /\ status = "start"
    /\ PipelineInit({})
    /\ StreamIdle /\ PluginInit

-----------------------------------------------------------------------------
(* The file monitor *)

Watching == cmd.name = "stream" /\ Up

\* Mutant: the trigger is dropped while there is no connection.
MutWatch ==
    /\ Watching /\ changed
    /\ changed' = FALSE
    /\ triggered' = (triggered \/ currWs)
    /\ UNCHANGED <<pipeline, command, currWs, attempts, asleep, downloadedIds, received, sent,
                   lost, deliveries, failures, pluginVars>>

\* trigger(): nothing happens before run() has made hubTrigger; sends coalesce.
Watch ==
    /\ Watching /\ changed
    /\ changed' = FALSE
    /\ triggered' = (triggered \/ status = "run")
    /\ UNCHANGED <<pipeline, command, currWs, attempts, asleep, downloadedIds, received, sent,
                   lost, deliveries, failures, pluginVars>>

-----------------------------------------------------------------------------
(* WSConnection *)

\* The loop takes its next event.
Looping == cmd.name = "stream" /\ status = "run" /\ call = "" /\ ~asleep /\ ppc = "idle"

\* run(): the trigger, the first attempt to connect, the loop.
Run ==
    /\ cmd.name = "stream" /\ status = "start"
    /\ status' = "run"
    /\ attempts' = attempts + 1
    /\ UNCHANGED <<pipeline, cmd, currWs, asleep, downloadedIds, triggered, changed, received,
                   sent, lost, deliveries, failures, pluginVars>>

\* onConnection; a connection there was is terminated, and its handler
\* calls doConnect.
Connected ==
    /\ Looping /\ attempts > 0
    /\ attempts' = attempts - 1
    /\ asleep' = currWs
    /\ currWs' = TRUE
    /\ UNCHANGED <<pipeline, command, downloadedIds, triggered, changed, received, sent,
                   lost, deliveries, failures, pluginVars>>

Disconnected ==
    /\ Looping /\ currWs
    /\ failures + troubles < MaxFailures
    /\ failures' = failures + 1
    /\ currWs' = FALSE
    /\ asleep' = TRUE
    /\ UNCHANGED <<pipeline, command, attempts, downloadedIds, triggered, changed, received,
                   sent, lost, deliveries, pluginVars>>

\* onError
ConnectError ==
    /\ Looping /\ attempts > 0
    /\ failures + troubles < MaxFailures
    /\ failures' = failures + 1
    /\ attempts' = attempts - 1
    /\ asleep' = TRUE
    /\ UNCHANGED <<pipeline, command, currWs, downloadedIds, triggered, changed,
                   received, sent, lost, deliveries, pluginVars>>

\* doConnect, after its sleep
Reconnect ==
    /\ asleep
    /\ asleep' = FALSE
    /\ attempts' = attempts + 1
    /\ UNCHANGED <<pipeline, command, currWs, downloadedIds, triggered, changed, received,
                   sent, lost, deliveries, failures, pluginVars>>

-----------------------------------------------------------------------------
(* cmd_stream *)

\* An EVENT of the subscription (sent on each connection when events go
\* down): the write policy is asked, and the loop waits for it ...
StreamEvent(ev) ==
    /\ Looping /\ currWs /\ Down
    /\ deliveries < MaxDeliveries
    /\ deliveries' = deliveries + 1
    /\ Ask(ev)
    /\ UNCHANGED <<pipeline, command, currWs, attempts, asleep, downloadedIds, triggered,
                   changed, received, sent, lost, failures>>

PolicyRuns == AcceptEventStep /\ UNCHANGED <<pipeline, command, loop, changed>>

\* ... downloadedIds, and the first half of write() ...
StreamAccepted ==
    /\ verdict.action = "accept" /\ Returned
    /\ downloadedIds' = downloadedIds \cup {request.ev}
    /\ received' = received \cup {request.ev}
    /\ WriteCount(request.ev)
    /\ UNCHANGED <<command, currWs, attempts, asleep, triggered, changed, sent, lost, deliveries,
                   failures>>

StreamRefused ==
    /\ verdict.action \in {"reject", "shadowReject"} /\ Returned
    /\ UNCHANGED <<pipeline, command, loop, changed>>

StreamPush ==
    /\ cmd.name = "stream"
    /\ WritePush(FALSE)
    /\ UNCHANGED <<command, streamVars>>

\* Mutant: every id is forgotten once the new events have been looked at.
MutKept == {}

\* downloadedIds when the new events have been looked at
Kept == downloadedIds \ fresh

\* onTrigger: the events above currEventId that were not downloaded are sent,
\* or lost when there is no connection.
OnTrigger ==
    /\ Looping /\ triggered
    /\ triggered' = FALSE
    /\ downloadedIds' = Kept
    /\ IF currWs THEN sent' = sent \cup (fresh \ downloadedIds) /\ lost' = lost
                 ELSE lost' = lost \cup (fresh \ downloadedIds) /\ sent' = sent
    /\ ScanFresh
    /\ UNCHANGED <<command, currWs, attempts, asleep, changed, received, deliveries, failures, pluginVars>>

LoopStep == \/ Run \/ Reconnect \/ Watch
            \/ PolicyRuns \/ StreamAccepted \/ StreamRefused \/ StreamPush

StreamStep ==
    \/ LoopStep \/ Connected \/ Disconnected \/ ConnectError
    \/ \E ev \in Offered : StreamEvent(ev)
    \/ OnTrigger
    \/ /\ cmd.name = "stream"
       /\ PluginStep
       /\ troubles' > troubles => failures + troubles < MaxFailures
       /\ UNCHANGED <<pipeline, command, loop, changed>>

-----------------------------------------------------------------------------
(* Properties *)

\* An event accepted from the other relay is never sent back to it, whether
\* its copy was stored by this process or by another, before or after a
\* reconnection (unless it was removed here, and stored once more).
NoEcho == [][(sent' \ sent) \cap received \subseteq removed]_<<sent, received, removed>>
=============================================================================
