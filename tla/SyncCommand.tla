----------------------------- MODULE SyncCommand -----------------------------
(***************************************************************************)
(* `strfry sync` (cmd_sync.cpp): it reconciles with another relay, uploads *)
(* the events that one lacks, within a window of unanswered EVENTs, and    *)
(* downloads the ones it needs, one REQ of a bounded batch at a time.      *)
(*                                                                         *)
(* The other relay and the negentropy library are external: a script says  *)
(* what each round of the reconciliation reports (a round may repeat what  *)
(* an earlier one said, the local tree changes between rounds); the relay  *)
(* answers in any order across the three exchanges (NEG-MSG, EVENT and OK, *)
(* REQ), may not have an event any more, may send one after EOSE, and may  *)
(* fail or disconnect at any time.                                         *)
(***************************************************************************)
EXTENDS WriterPipeline

CONSTANTS
    Scripts,                     \* reconciliations: sequences of rounds [have, need]
    Blocked,                     \* events the write policy refuses
    HighWaterUp, LowWaterUp,     \* highWaterUp, lowWaterUp
    BatchSizeDown                \* batchSizeDown

ASSUME SyncAssumption ==
    /\ \A script \in Scripts : script \in Seq([have : SUBSET Events, need : SUBSET Events])
    /\ IsFiniteSet(Events)
    /\ LowWaterUp \in Nat /\ HighWaterUp \in Nat /\ LowWaterUp < HighWaterUp
    /\ BatchSizeDown \in Nat \ {0}

VARIABLES
    rounds,             \* external: the rounds still to come
    have, need,         \* the ids still to upload and to request (in any order)
    seenHave, seenNeed,
    inFlightUp, inFlightDown,
    syncDone,
    unanswered,         \* remote: the EVENTs it has not answered with OK
    asked,              \* remote: the ids of the open REQ it has not sent
    eoseOwed,           \* remote: EOSE of the open REQ is to come
    requested, answered, gone  \* history: ids of REQs, of OKs, ids not found for upload

exchanges == <<have, need, seenHave, seenNeed, inFlightUp, inFlightDown, syncDone,
               unanswered, asked, eoseOwed, requested, answered, gone>>
syncVars  == <<rounds, exchanges>>

SyncCmd(dir) == [name |-> "sync", opt |-> dir]

\* The ids a script reports as missing on the other side.
Haves(script) == UNION {script[i].have : i \in DOMAIN script}

SyncIdle ==
    /\ have = {} /\ need = {} /\ seenHave = {} /\ seenNeed = {}
    /\ inFlightUp = 0 /\ inFlightDown = FALSE /\ syncDone = FALSE
    /\ unanswered = {} /\ asked = {} /\ eoseOwed = FALSE
    /\ requested = {} /\ answered = {} /\ gone = {}

\* Connected, and NEG-OPEN sent: the ids it has are stored.
SyncInit(dir) ==
    /\ cmd = SyncCmd(dir) /\ status = "run"
    /\ rounds \in Scripts
    /\ PipelineInit(Haves(rounds))
    /\ SyncIdle

-----------------------------------------------------------------------------
(* The end of every message handler *)

UploadDue(hs, up) == Up /\ hs # {} /\ up <= LowWaterUp

\* The ids popped off hs, when up EVENTs are in flight: until hs is empty or the
\* window is full; an event that is not found is skipped.
Uploads(hs, up) ==
    IF ~UploadDue(hs, up) THEN {{}}
    ELSE {P \in SUBSET hs : /\ Cardinality(P \cap db) <= HighWaterUp - up
                            /\ P = hs \/ Cardinality(P \cap db) = HighWaterUp - up}

\* Mutant: waits for a full batch.
MutRequestDue(ns, down) == Down /\ Cardinality(ns) >= BatchSizeDown /\ ~down

RequestDue(ns, down) == Down /\ ns # {} /\ ~down

\* The ids of the next REQ
Requests(ns, down) ==
    IF ~RequestDue(ns, down) THEN {{}}
    ELSE {B \in SUBSET ns : /\ Cardinality(B) <= BatchSizeDown
                            /\ B = ns \/ Cardinality(B) = BatchSizeDown}

\* Mutant: does not wait for the OKs.
MutFinished(done, hs, ns, up, down) == done /\ hs = {} /\ ns = {} /\ ~down

Finished(done, hs, ns, up, down) ==
    done /\ hs = {} /\ ns = {} /\ up = 0 /\ ~down

\* doExit: flush() first if something may have been downloaded, then exit.
DoExit(ok) == status' = IF Down THEN (IF ok THEN "exit0" ELSE "exit1")
                                    ELSE (IF ok THEN "0" ELSE "1")

ExitFlush ==
    /\ status \in {"exit0", "exit1"}
    /\ FlushPush
    /\ UNCHANGED <<command, syncVars>>

\* The rest of onMessage, when the message left hs and ns to transfer, up
\* EVENTs and down a REQ in flight, out unanswered EVENTs, and ids asked for:
\* uploads, the next REQ, and the exit when all is done.
Transfer(done, hs, ns, up, down, out, ids, eose) ==
    \E P \in Uploads(hs, up), B \in Requests(ns, down) :
        /\ have' = hs \ P
        /\ inFlightUp' = up + Cardinality(P \cap db)
        /\ unanswered' = out \cup (P \cap db)
        /\ gone' = gone \cup (P \ db)
        /\ need' = ns \ B
        /\ inFlightDown' = (down \/ B # {})
        /\ asked' = IF B # {} THEN B ELSE ids
        /\ eoseOwed' = (eose \/ B # {})
        /\ requested' = requested \cup B
        /\ syncDone' = done
        /\ IF Finished(done, have', need', inFlightUp', inFlightDown')
           THEN DoExit(TRUE)
           ELSE status' = status

-----------------------------------------------------------------------------
(* The messages of the other relay *)

Receiving == cmd.name = "sync" /\ status = "run" /\ call = ""

\* Mutant: forgets to look what was reported before.
MutReported(ids, seen) == ids

\* The ids of a round that no earlier round reported.
Reported(ids, seen) == ids \ seen

\* NEG-MSG, the answer to NEG-OPEN or to the last NEG-MSG: the ids of the
\* round, and another NEG-MSG, or NEG-CLOSE when the reconciliation is over.
MsgNeg ==
    /\ Receiving /\ rounds # <<>>
    /\ LET r == Head(rounds)
           hs == have \cup Reported(r.have, seenHave)
           ns == need \cup Reported(r.need, seenNeed)
       IN  /\ seenHave' = seenHave \cup r.have
           /\ seenNeed' = seenNeed \cup r.need
           /\ Transfer(Len(rounds) = 1, IF Up THEN hs ELSE {},
                       IF Down THEN ns ELSE {},
                       inFlightUp, inFlightDown, unanswered, asked, eoseOwed)
    /\ rounds' = Tail(rounds)
    /\ UNCHANGED <<pipeline, cmd, answered>>

MsgOk(id) ==
    /\ Receiving /\ id \in unanswered
    /\ Transfer(syncDone, have, need, inFlightUp - 1, inFlightDown,
                unanswered \ {id}, asked, eoseOwed)
    /\ answered' = answered \cup {id}
    /\ UNCHANGED <<pipeline, cmd, rounds, seenHave, seenNeed>>

\* EVENT: the write policy, and write() if it accepts; also after EOSE.
MsgEventBlocked(id) ==
    /\ Receiving /\ id \in asked \cap Blocked
    /\ Transfer(syncDone, have, need, inFlightUp, inFlightDown,
                unanswered, asked \ {id}, eoseOwed)
    /\ UNCHANGED <<pipeline, cmd, rounds, seenHave, seenNeed, answered>>

MsgEvent(id) ==
    /\ Receiving /\ id \in asked \ Blocked
    /\ WriteCount(id)
    /\ asked' = asked \ {id}
    /\ UNCHANGED <<command, rounds, have, need, seenHave, seenNeed, inFlightUp, inFlightDown,
                   syncDone, unanswered, eoseOwed, requested, answered, gone>>

\* ... its queueing, and the end of the handler.
SyncPush ==
    /\ cmd.name = "sync" /\ status = "run"
    /\ WritePush(FALSE)
    /\ Transfer(syncDone, have, need, inFlightUp, inFlightDown, unanswered, asked, eoseOwed)
    /\ UNCHANGED <<cmd, rounds, seenHave, seenNeed, answered>>

\* EOSE, and wait() for the pipeline.
MsgEose ==
    /\ Receiving /\ eoseOwed
    /\ Transfer(syncDone, have, need, inFlightUp, FALSE, unanswered, asked, FALSE)
    /\ UNCHANGED <<pipeline, cmd, rounds, seenHave, seenNeed, answered>>

\* NEG-ERR, a NEG-MSG that does not parse, an error of the connection, a disconnection.
Fails ==
    /\ Receiving
    /\ DoExit(FALSE)
    /\ UNCHANGED <<pipeline, cmd, rounds, exchanges>>

-----------------------------------------------------------------------------
Receive == \/ MsgNeg \/ MsgEose \/ \E id \in unanswered : MsgOk(id)
           \/ \E id \in asked : MsgEvent(id) \/ MsgEventBlocked(id)

(* Properties *)

\* The counters of sync mean what its conditions take them for: inFlightUp is
\* the number of EVENTs without an OK (so it never wraps below 0 and no id is
\* uploaded twice) and stays within the window, inFlightDown says that EOSE is to
\* come, and while anything remains to be transferred an answer that will
\* resume the transfer is outstanding.
WindowsExact ==
    cmd.name = "sync" =>
        /\ inFlightUp = Cardinality(unanswered) /\ inFlightUp <= HighWaterUp
        /\ inFlightDown = eoseOwed
        /\ have # {} => inFlightUp > LowWaterUp
        /\ need # {} => inFlightDown

\* sync exits with 0 only when each id the reconciliation found missing there
\* was uploaded and answered, or was not found any more, and each found missing
\* here was requested up to EOSE, as far as the direction asks for it.
SyncComplete ==
    (cmd.name = "sync" /\ status = "0") =>
        /\ rounds = <<>> /\ ~eoseOwed
        /\ Up => seenHave \subseteq answered \cup gone
        /\ Down => seenNeed \subseteq requested
=============================================================================
