---------------------------- MODULE WriterPipeline ----------------------------
(***************************************************************************)
(* WriterPipeline.h: how `strfry import`, `sync`, `stream` and `router`    *)
(* write events.  The main thread counts each event into numLive and queues *)
(* it; the Validator thread verifies it; the Writer thread waits for more  *)
(* (debounce), takes a batch, drops what is stored already and writes the  *)
(* rest in one transaction.  flush() sends a null through both queues and  *)
(* waits until the Writer has seen it.                                     *)
(*                                                                         *)
(* wait() (backpressure) and the debounce end by a timeout at the latest:  *)
(* neither is a guard.  An exception in writeEvents ends the process and   *)
(* is not modelled.                                                        *)
(***************************************************************************)
EXTENDS Integers, Sequences, FiniteSets

CONSTANTS
    Events,
    Null,            \* the null flush() sends
    Invalid,         \* events parseAndVerifyEvent refuses
    Losing,          \* events writeEvents finds Replaced or Deleted
    WriteBatchSize   \* writeBatchSize

ASSUME PipelineAssumption ==
    /\ Null \notin Events
    /\ Invalid \subseteq Events /\ Losing \subseteq Events
    /\ WriteBatchSize \in Nat \ {0}

VARIABLES
    cmd,         \* the command that runs: [name, opt]; opt is the direction, or "fried"
    status,      \* how far it is (the commands' modules say)
    call,        \* where the command is inside write() or flush(): "", "push", "wait"
    input,       \* history: the events the command has called write() for
    vq, vpc, vb, \* validatorInbox; "wait", "run", "null", "exit"; msgs
    wq, wpc, wb, \* writerInbox; "wait", "debounce", "pop", "batch", "commit", "exit"; newEvents
    snapshot,    \* of the read transaction of the batch
    proc,        \* newEventsToProc
    flushInbox,
    shutdownRequested, shutdownComplete,
    numLive,
    db,          \* events stored
    fresh,       \* ... under a levId above currEventId of `strfry stream`
    removed,     \* history: events that others have removed
    totals       \* totalProcessed, totalWritten, totalRejected, totalDups

main      == <<call, input>>
validator == <<vpc, vb>>
writer    == <<wpc, wb, snapshot, proc, shutdownComplete>>
store     == <<db, fresh, removed>>
pipeline  == <<main, validator, writer, vq, wq, flushInbox, shutdownRequested, numLive,
               store, totals>>
command   == <<cmd, status>>

\* The options of the command
Fried == cmd.opt = "fried"
Up    == cmd.opt \in {"both", "up"}
Down  == cmd.opt \in {"both", "down"}

PipelineInit(stored) ==
    /\ call = "" /\ input = <<>>
    /\ vq = <<>> /\ vpc = "wait" /\ vb = <<>>
    /\ wq = <<>> /\ wpc = "wait" /\ wb = <<>> /\ snapshot = {} /\ proc = <<>>
    /\ flushInbox = <<>>
    /\ shutdownRequested = FALSE /\ shutdownComplete = FALSE
    /\ numLive = 0
    /\ db = stored /\ fresh = {} /\ removed = {}
    /\ totals = [processed |-> 0, written |-> 0, rejected |-> 0, dups |-> 0]

-----------------------------------------------------------------------------
(* What the thread of the command calls *)

\* write: the counters first ...
WriteCount(ev) ==
    /\ call = ""
    /\ call' = "push"
    /\ input' = Append(input, ev)
    /\ numLive' = numLive + 1
    /\ totals' = [totals EXCEPT !.processed = @ + 1]
    /\ UNCHANGED <<validator, writer, vq, wq, flushInbox, shutdownRequested, store>>

\* ... then the queue; a packed ("fried") event needs no validation.
WritePush(fried) ==
    /\ call = "push"
    /\ call' = ""
    /\ IF fried THEN wq' = Append(wq, input[Len(input)]) /\ vq' = vq
                ELSE vq' = Append(vq, input[Len(input)]) /\ wq' = wq
    /\ UNCHANGED <<input, validator, writer, flushInbox, shutdownRequested, numLive,
                   store, totals>>

\* flush; the wait does not take the element out of flushInbox.
FlushPush ==
    /\ call = ""
    /\ call' = "wait"
    /\ vq' = Append(vq, Null)
    /\ UNCHANGED <<input, validator, writer, wq, flushInbox, shutdownRequested,
                   numLive, store, totals>>

FlushWait ==
    /\ call = "wait" /\ flushInbox # <<>>
    /\ call' = ""
    /\ UNCHANGED <<input, validator, writer, vq, wq, flushInbox, shutdownRequested,
                   numLive, store, totals>>

-----------------------------------------------------------------------------
(* The Validator thread *)

ValidatorPop ==
    /\ vpc = "wait" /\ vq # <<>>
    /\ vb' = vq /\ vq' = <<>>
    /\ vpc' = "run"
    /\ UNCHANGED <<main, writer, wq, flushInbox, shutdownRequested, numLive,
                   store, totals>>

ValidatorNext == vb' = Tail(vb) /\ vpc' = IF Len(vb) = 1 THEN "wait" ELSE "run"

\* An event that does not verify is counted out.
ValidatorReject ==
    /\ vpc = "run" /\ Head(vb) # Null /\ Head(vb) \in Invalid
    /\ numLive' = numLive - 1
    /\ totals' = [totals EXCEPT !.rejected = @ + 1]
    /\ ValidatorNext
    /\ UNCHANGED <<main, writer, vq, wq, flushInbox, shutdownRequested, store>>

ValidatorPass ==
    /\ vpc = "run" /\ Head(vb) # Null /\ Head(vb) \notin Invalid
    /\ wq' = Append(wq, Head(vb))
    /\ ValidatorNext
    /\ UNCHANGED <<main, writer, vq, flushInbox, shutdownRequested, numLive,
                   store, totals>>

\* The null: shutdownRequested first, then the writer's null, then the end.
ValidatorShutdown ==
    /\ vpc = "run" /\ Head(vb) = Null
    /\ shutdownRequested' = TRUE
    /\ vpc' = "null"
    /\ UNCHANGED <<main, vb, writer, vq, wq, flushInbox, numLive, store, totals>>

ValidatorExit ==
    /\ vpc = "null"
    /\ wq' = Append(wq, Null)
    /\ vpc' = "exit"
    /\ UNCHANGED <<main, vb, writer, vq, flushInbox, shutdownRequested, numLive,
                   store, totals>>

-----------------------------------------------------------------------------
(* The Writer thread *)

\* writerInbox.wait() and the decision whether to debounce
WriterWait ==
    /\ wpc = "wait" /\ wq # <<>>
    /\ wpc' = IF ~shutdownRequested /\ Len(wq) < WriteBatchSize THEN "debounce" ELSE "pop"
    /\ UNCHANGED <<main, validator, wb, snapshot, proc, shutdownComplete, vq, wq,
                   flushInbox, shutdownRequested, numLive, store, totals>>

\* pop_all, after the debounce has timed out or was cut short, and txn_ro
WriterPop ==
    /\ wpc \in {"debounce", "pop"}
    /\ wb' = wq /\ wq' = <<>>
    /\ snapshot' = db
    /\ proc' = <<>>
    /\ wpc' = "batch"
    /\ UNCHANGED <<main, validator, shutdownComplete, vq, flushInbox, shutdownRequested,
                   numLive, store, totals>>

BatchFull == Len(proc) >= WriteBatchSize

\* Mutant: the rest is cleared without being put back.
MutPutBack ==
    /\ wpc = "batch" /\ wb # <<>> /\ BatchFull
    /\ wb' = <<>>
    /\ wpc' = "commit"
    /\ UNCHANGED <<main, validator, snapshot, proc, shutdownComplete, vq, wq, flushInbox,
                   shutdownRequested, numLive, store, totals>>

\* unshift_move_all: the rest goes back to the front of the inbox.
PutBack ==
    /\ wpc = "batch" /\ wb # <<>> /\ BatchFull
    /\ wq' = wb \o wq
    /\ wb' = <<>>
    /\ wpc' = "commit"
    /\ UNCHANGED <<main, validator, snapshot, proc, shutdownComplete, vq, flushInbox,
                   shutdownRequested, numLive, store, totals>>

\* The null ends the batch; what is behind it is dropped.
TakeNull ==
    /\ wpc = "batch" /\ wb # <<>> /\ ~BatchFull /\ Head(wb) = Null
    /\ shutdownComplete' = TRUE
    /\ wb' = <<>>
    /\ wpc' = "commit"
    /\ UNCHANGED <<main, validator, snapshot, proc, vq, wq, flushInbox,
                   shutdownRequested, numLive, store, totals>>

\* An event is counted out, and dropped if it was stored at the snapshot.
Take ==
    /\ wpc = "batch" /\ wb # <<>> /\ ~BatchFull /\ Head(wb) # Null
    /\ numLive' = numLive - 1
    /\ IF Head(wb) \in snapshot
       THEN totals' = [totals EXCEPT !.dups = @ + 1] /\ proc' = proc
       ELSE proc' = Append(proc, Head(wb)) /\ totals' = totals
    /\ wb' = Tail(wb)
    /\ UNCHANGED <<main, validator, wpc, snapshot, shutdownComplete, vq, wq, flushInbox,
                   shutdownRequested, store>>

BatchTaken ==
    /\ wpc = "batch" /\ wb = <<>>
    /\ wpc' = "commit"
    /\ UNCHANGED <<main, validator, wb, snapshot, proc, shutdownComplete, vq, wq,
                   flushInbox, shutdownRequested, numLive, store, totals>>

\* What writeEvents reports as Written: one of each event that is new in the
\* write transaction and not Replaced or Deleted.
Written == {ev \in {proc[i] : i \in DOMAIN proc} : ev \notin db \cup Losing}

\* writeEvents in one write transaction (skipped when the batch is empty),
\* the totals, and the end of the loop.
Commit ==
    /\ wpc = "commit"
    /\ db' = db \cup Written
    /\ fresh' = fresh \cup Written
    /\ totals' = [totals EXCEPT !.written = @ + Cardinality(Written),
                                !.dups = @ + Len(proc) - Cardinality(Written)]
    /\ flushInbox' = IF shutdownComplete THEN Append(flushInbox, TRUE) ELSE flushInbox
    /\ wpc' = IF shutdownComplete THEN "exit" ELSE "wait"
    /\ proc' = <<>> /\ snapshot' = {}
    /\ UNCHANGED <<main, validator, wb, shutdownComplete, vq, wq, shutdownRequested,
                   numLive, removed>>

\* Another process (a relay on the same database) stores an event, or
\* removes one.
OtherWrites(ev) ==
    /\ ev \notin db \cup removed \cup Losing \cup Invalid
    /\ db' = db \cup {ev}
    /\ fresh' = fresh \cup {ev}
    /\ UNCHANGED <<main, validator, writer, vq, wq, flushInbox, shutdownRequested,
                   numLive, removed, totals>>

OtherRemoves(ev) ==
    /\ ev \in db
    /\ db' = db \ {ev}
    /\ fresh' = fresh \ {ev}
    /\ removed' = removed \cup {ev}
    /\ UNCHANGED <<main, validator, writer, vq, wq, flushInbox, shutdownRequested,
                   numLive, totals>>

\* foreach_Event above currEventId, which becomes the levId of the last one
\* (a levId used again after `strfry delete` is ReqPipeline's subject).
ScanFresh ==
    /\ fresh' = {}
    /\ UNCHANGED <<main, validator, writer, vq, wq, flushInbox, shutdownRequested,
                   numLive, db, removed, totals>>

ValidatorStep == \/ ValidatorPop \/ ValidatorReject \/ ValidatorPass
                 \/ ValidatorShutdown \/ ValidatorExit
WriterStep == \/ WriterWait \/ WriterPop \/ PutBack \/ TakeNull \/ Take
              \/ BatchTaken \/ Commit

=============================================================================
