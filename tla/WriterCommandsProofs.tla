------------------------- MODULE WriterCommandsProofs -------------------------
(***************************************************************************)
(* Theorems about WriterCommands, for any events, inputs, scripts, window  *)
(* and batch sizes.  The write policy plugin, the echo of `strfry stream`, *)
(* the writer pipeline and `strfry sync` each have an invariant of their   *)
(* own, on the variables they use; a step of the commands is a step of     *)
(* each of them or leaves them alone.                                      *)
(***************************************************************************)
EXTENDS WriterCommands, TLAPS, FiniteSetTheorems

-----------------------------------------------------------------------------
(* The write policy plugin: what it was asked and what it has printed.     *)

Process == [cmd : Cmds \cup {""}, time : Nat]
Asked == [ev : Offered, n : Nat, cmd : Cmds \cup {""}, time : Nat]
Inquiries == [ev : Offered, n : Nat]
Answers == [type : {"answer"}, ev : Offered, n : Nat, action : Actions \cup {"accept"},
            cmd : Cmds \cup {""}, script : Int]
Lines == {JunkLine, BadLine} \cup Answers

PluginType ==
  /\ pluginCmd \in Cmds \cup {""} /\ modTime \in Nat /\ running \in Process
  /\ loaded \in Int /\ requests \in Nat
  /\ toPlugin \in Seq(Inquiries) /\ fromPlugin \in Seq(Lines) /\ rbuf \in Seq(Lines)
  /\ ppc # "idle" => request \in Asked

\* About the lines that are no junk, which answer a request, and their content
NoJunk(s) == \A i \in DOMAIN s : ~Junk(s[i])
NoAnswer(s) == \A i \in DOMAIN s : Junk(s[i])
OneAnswer(s) == \A i, j \in DOMAIN s : ~Junk(s[i]) /\ ~Junk(s[j]) => i = j
AllBy(s, cmd0, script) ==
  \A i \in DOMAIN s : IsAnswer(s[i]) => s[i].cmd = cmd0 /\ s[i].script = script
AllFor(s, ev, n) == \A i \in DOMAIN s : IsAnswer(s[i]) => s[i].ev = ev /\ s[i].n = n

\* Every answer is of the process that runs and of the script it has loaded, and
\* that process is the one asked.
SourceInv ==
  /\ AllBy(rbuf, running.cmd, loaded) /\ AllBy(fromPlugin, running.cmd, loaded)
  /\ loaded = NotLoaded => rbuf = <<>> /\ fromPlugin = <<>>
  /\ ppc \in {"stat", "poll"} => running.cmd = request.cmd
  /\ ppc = "poll" => running.time = request.time
  /\ ppc = "stat" => /\ toPlugin = <<>> /\ rbuf = <<>> /\ fromPlugin = <<>>
                     /\ request.n = 1

\* The script loaded is the one that acceptEvent looks at, or will be, unless it
\* is modified in between.
ScriptInv ==
  ~raced => /\ ppc = "stat" => loaded = NotLoaded \/ loaded = StatTime(running.cmd)
            /\ ppc # "stat" => IF loaded = NotLoaded
                               THEN alive => running.time = StatTime(running.cmd)
                               ELSE loaded = running.time

\* A process that has printed no junk has a request or an answer on its way
\* while it is waited for.
JunkInv ==
  ~junk => /\ NoJunk(rbuf) /\ NoJunk(fromPlugin)
           /\ ppc = "poll" /\ alive => toPlugin # <<>> \/ fromPlugin # <<>>

\* One that has printed no answer too many owes one answer or none, to the
\* request that is waiting.
OweInv ==
  ~extra => /\ ppc # "poll" => toPlugin = <<>> /\ NoAnswer(rbuf) /\ NoAnswer(fromPlugin)
            /\ toPlugin # <<>> => /\ toPlugin = <<[ev |-> request.ev, n |-> request.n]>>
                                  /\ NoAnswer(rbuf) /\ NoAnswer(fromPlugin)
            /\ NoAnswer(rbuf) \/ NoAnswer(fromPlugin)
            /\ OneAnswer(rbuf) /\ OneAnswer(fromPlugin)
            /\ AllFor(rbuf, request.ev, request.n) /\ AllFor(fromPlugin, request.ev, request.n)

VerdictInv ==
  /\ DecisionFresh
  /\ ppc # "done" => verdict.why # "answer"

PluginInv == PluginType /\ SourceInv /\ ScriptInv /\ JunkInv /\ OweInv /\ VerdictInv

-----------------------------------------------------------------------------
(* How far a command is, and which call of the pipeline it is in.          *)

PhaseInv ==
  /\ call \in {"", "push", "wait"}
  /\ call = "push" => status = "run"
  /\ call = "wait" => status \in {"flush", "destroy", "exit0", "exit1"}
  /\ status = "flush" => call = "wait"
  /\ \/ cmd.name = "import" /\ status \in {"run", "flush", "destroy", "join", "0"}
     \/ cmd.name = "sync" /\ status \in {"run", "exit0", "exit1", "0", "1"}
     \/ cmd.name = "stream" /\ status \in {"start", "run"}
  /\ Fried => cmd.name = "import"

\* Only stream asks the write policy.
PolicyInv ==
  ppc # "idle" => /\ cmd.name = "stream" /\ status = "run"
                  /\ "ev" \in DOMAIN request /\ request.ev \in Offered

-----------------------------------------------------------------------------
(* strfry stream: an event accepted from the other relay is remembered as  *)
(* downloaded, or was looked at before, or was removed.                    *)

EchoInv ==
  /\ fresh \subseteq db
  /\ \A ev \in received : ev \in downloadedIds \/ (ev \in db /\ ev \notin fresh) \/ ev \in removed

-----------------------------------------------------------------------------
(* strfry sync: the windows, and what became of the ids reported.          *)

Round == [have : SUBSET Events, need : SUBSET Events]

SyncType ==
  /\ rounds \in Seq(Round)
  /\ have \subseteq seenHave /\ unanswered \subseteq seenHave /\ seenHave \subseteq Events
  /\ need \subseteq Events /\ asked \subseteq Events
  /\ inFlightUp \in Nat /\ inFlightDown \in BOOLEAN /\ syncDone \in BOOLEAN
  /\ eoseOwed \in BOOLEAN

WindowInv ==
  /\ inFlightUp = Cardinality(unanswered) /\ inFlightUp <= HighWaterUp
  /\ have \cap unanswered = {}
  /\ inFlightDown = eoseOwed
  /\ have # {} => inFlightUp > LowWaterUp
  /\ need # {} => inFlightDown
  /\ ~Up => have = {}
  /\ ~Down => need = {}

CompleteInv ==
  /\ syncDone => rounds = <<>>
  /\ Up => seenHave \subseteq have \cup unanswered \cup answered \cup gone
  /\ Down => seenNeed \subseteq need \cup requested
  /\ status \in {"0", "exit0"} =>
        rounds = <<>> /\ have = {} /\ need = {} /\ unanswered = {} /\ ~eoseOwed

SyncInv == cmd.name = "sync" => SyncType /\ WindowInv /\ CompleteInv

-----------------------------------------------------------------------------
(* The writer pipeline: where the null is, and where each event is.        *)

Entries == Events \cup {Null}
HasNull(s) == \E i \in DOMAIN s : s[i] = Null
NullLast(s) == \A i \in DOMAIN s : s[i] = Null => i = Len(s)
Queue == {s \in Seq(Entries) : NullLast(s)}
Elems(s) == {s[i] : i \in DOMAIN s}
Items(s) == Elems(s) \ {Null}
Count(s) == IF s # <<>> /\ s[Len(s)] = Null THEN Len(s) - 1 ELSE Len(s)

Totals == [processed : Int, written : Int, rejected : Int, dups : Int]

PcType ==
  /\ vpc \in {"wait", "run", "null", "exit"}
  /\ wpc \in {"wait", "debounce", "pop", "batch", "commit", "exit"}

QueueType ==
  /\ vq \in Queue /\ vb \in Queue /\ wq \in Queue /\ wb \in Queue
  /\ input \in Seq(Events) /\ proc \in Seq(Events)
  /\ call = "push" => input # <<>>

NumType == numLive \in Int /\ totals \in Totals

PipelineType == PcType /\ QueueType /\ NumType

\* Before flush() is called.
Open == status \in {"start", "run"} \/ (status \in {"exit0", "exit1"} /\ call = "")

\* The destructor has called flush() once more.
FlushedTwice == status \in {"join", "0", "1"} \/ (status = "destroy" /\ call = "wait")

\* The null goes through vq, vb, wq and wb to flushInbox, and nothing is behind it.
NullInv ==
  /\ Open => ~HasNull(vq) /\ ~HasNull(vb)
  /\ HasNull(vb) => vq = <<>> \/ (vq = <<Null>> /\ FlushedTwice)
  /\ status \in {"destroy", "join"} => flushInbox # <<>>
  /\ status = "destroy" /\ call = "" => vq = <<>>
  /\ vpc \in {"null", "exit"} => vb = <<Null>>
  /\ vpc = "wait" => vb = <<>>
  /\ vpc = "run" => vb # <<>>
  /\ HasNull(wq) \/ HasNull(wb) \/ shutdownComplete => vpc = "exit"
  /\ HasNull(wb) => wq = <<>>
  /\ shutdownComplete => wq = <<>> /\ wb = <<>>
  /\ shutdownComplete => wpc \in {"commit", "exit"}
  /\ wpc # "batch" => wb = <<>>
  /\ wpc \notin {"batch", "commit"} => proc = <<>>
  /\ flushInbox # <<>> => wpc = "exit"
  /\ wpc = "exit" => shutdownComplete

Pushed == IF call = "push" THEN {input[Len(input)]} ELSE {}
Settled == db \cup removed \cup Losing \cup (IF Fried THEN {} ELSE Invalid)

Held == Pushed \cup Items(vq) \cup Items(vb) \cup Items(wq) \cup Items(wb)
          \cup Elems(proc)

EventsInv ==
  /\ snapshot \subseteq db \cup removed
  /\ Fried => Items(vq) = {} /\ Items(vb) = {}
  /\ Elems(input) \subseteq Settled \cup Held

PushCount == IF call = "push" THEN 1 ELSE 0

Waiting == PushCount + Count(vq) + Count(vb) + Count(wq) + Count(wb)
Accounted == totals.written + totals.rejected + totals.dups

CountInv ==
  /\ numLive = Waiting
  /\ totals.processed = Len(input)
  /\ totals.processed = Accounted + numLive + Len(proc)

PipelineInv == PipelineType /\ NullInv /\ EventsInv /\ CountInv

-----------------------------------------------------------------------------
(* The phases of a command                                                 *)

\* Each command starts in its first phase.
LEMMA PhaseStart == Init => PhaseInv
<1> SUFFICES ASSUME Init PROVE PhaseInv
  OBVIOUS
<1>1. CASE ImportInit
  <2>1. PICK opt : cmd = [name |-> "import", opt |-> opt]
    BY <1>1 DEF ImportInit, ImportCmd
  <2> QED BY <1>1, <2>1 DEF ImportInit, PipelineInit, PhaseInv, Fried
<1>2. CASE \E dir \in {"both", "up", "down", "none"} : SyncInit(dir)
  <2>1. PICK dir \in {"both", "up", "down", "none"} : SyncInit(dir)
    BY <1>2
  <2> QED BY <2>1 DEF SyncInit, SyncCmd, PipelineInit, PhaseInv, Fried
<1>3. CASE \E dir \in {"both", "up", "down"} : StreamInit(dir)
  <2>1. PICK dir \in {"both", "up", "down"} : StreamInit(dir)
    BY <1>3
  <2> QED BY <2>1 DEF StreamInit, StreamCmd, PipelineInit, PhaseInv, Fried
<1> QED BY <1>1, <1>2, <1>3 DEF Init

\* The plugin is not asked anything at first.
LEMMA PolicyStart == Init => PolicyInv
BY DEF Init, NoStream, PluginIdle, StreamInit, PluginInit, PolicyInv

\* Only strfry stream asks the plugin, and only about an event it received.
LEMMA PolicyKept ==
  ASSUME PhaseInv, PolicyInv, [Next]_vars
  PROVE  PolicyInv'
<1> USE DEF PolicyInv, command, others, streamVars, pluginVars
<1>1. CASE UNCHANGED vars
  BY <1>1 DEF vars
<1>2. CASE Import
  BY <1>2 DEF Import, ImportLine, ImportPush, ImportDone, Destroy, Flushed, Join, FlushWait, Importing,
              PhaseInv
<1>3. CASE Sync
  <2>1. cmd.name = "sync"
    BY <1>3 DEF Sync, Receive, MsgNeg, MsgEose, MsgOk, MsgEvent, MsgEventBlocked, Fails, Receiving,
                SyncPush, ExitFlush, PhaseInv
  <2>2. ppc' = ppc
    BY <1>3 DEF Sync
  <2> QED BY <2>1, <2>2
<1>4. CASE Stream
  <2>1. CASE \E ev \in Offered : StreamEvent(ev)
    <3>1. PICK ev \in Offered : StreamEvent(ev)
      BY <2>1
    <3>2. request'.ev = ev /\ "ev" \in DOMAIN request'
      BY <3>1 DEF StreamEvent, Ask
    <3> QED BY <3>1, <3>2 DEF StreamEvent, Looping
  <2>2. CASE Run
    BY <2>2 DEF Run
  <2>3. CASE PolicyRuns \/ StreamAccepted \/ StreamRefused
    <3>1. CASE PolicyRuns /\ StatPlugin
      <4>1. request' = request \/ request' = [request EXCEPT !.time = StatTime(request.cmd)]
        BY <3>1 DEF StatPlugin, StatFails, StatDead, StatAsk
      <4>2. ppc # "idle" /\ UNCHANGED <<cmd, status>>
        BY <3>1 DEF StatPlugin, PolicyRuns
      <4> QED BY <4>1, <4>2
    <3>2. CASE PolicyRuns /\ (PollTimeout \/ Read)
      BY <3>2 DEF PolicyRuns, PollTimeout, Read
    <3>3. CASE StreamAccepted \/ StreamRefused
      BY <3>3 DEF StreamAccepted, StreamRefused, Returned
    <3> QED BY <2>3, <3>1, <3>2, <3>3 DEF PolicyRuns, AcceptEventStep
  <2>4. CASE PluginStep /\ UNCHANGED <<pipeline, command, loop, changed>>
    BY <2>4 DEF PluginStep, PluginLoads, PluginAnswers, PluginPrints, PluginDies, Reconfigure, Modify
  <2>5. CASE Reconnect \/ Watch \/ StreamPush \/ Connected \/ Disconnected \/ ConnectError \/ OnTrigger
    BY <2>5 DEF Reconnect, Watch, StreamPush, Connected, Disconnected, ConnectError, OnTrigger
  <2> QED BY <1>4, <2>1, <2>2, <2>3, <2>4, <2>5 DEF Stream, StreamStep, LoopStep
<1>5. CASE Threads(ValidatorStep) \/ Threads(WriterStep) \/ Threads(Others)
  BY <1>5 DEF Threads
<1> QED BY <1>1, <1>2, <1>3, <1>4, <1>5 DEF Next

\* Every step keeps the phases, and the command that was started stays the same.
LEMMA PhaseKept ==
  ASSUME PhaseInv, PolicyInv, [Next]_vars
  PROVE  PhaseInv' /\ cmd' = cmd
<1> USE DEF PhaseInv, Fried, command, pipeline, main
<1>1. CASE UNCHANGED vars
  BY <1>1 DEF vars
<1>2. CASE Import
  <2>1. CASE ImportLine \/ ImportPush \/ ImportDone
    BY <2>1 DEF ImportLine, ImportPush, ImportDone, Importing, WriteCount, WritePush, FlushPush
  <2>2. CASE Destroy
    BY <2>2 DEF Destroy, FlushPush
  <2>3. CASE Flushed
    <3>1. status \in {"flush", "destroy", "exit0", "exit1"} /\ call' = "" /\ cmd' = cmd
      BY <2>3 DEF Flushed, FlushWait
    <3>2. /\ status = "flush" => status' = "destroy"
          /\ status = "destroy" => status' = "join"
          /\ status = "exit0" => status' = "0"
          /\ status = "exit1" => status' = "1"
      BY <2>3, <3>1 DEF Flushed
    <3> QED BY <3>1, <3>2
  <2>4. CASE Join
    BY <2>4 DEF Join
  <2> QED BY <1>2, <2>1, <2>2, <2>3, <2>4 DEF Import
<1>3. CASE Sync
  <2>1. CASE MsgNeg \/ MsgEose \/ (\E id \in unanswered : MsgOk(id)) \/ (\E id \in asked : MsgEventBlocked(id))
    BY <2>1 DEF MsgNeg, MsgEose, MsgOk, MsgEventBlocked, Receiving, Transfer, DoExit
  <2>2. CASE \E id \in asked : MsgEvent(id)
    BY <2>2 DEF MsgEvent, Receiving, WriteCount
  <2>3. CASE SyncPush
    BY <2>3 DEF SyncPush, WritePush, Transfer, DoExit
  <2>4. CASE Fails
    BY <2>4 DEF Fails, Receiving, DoExit
  <2>5. CASE ExitFlush
    BY <2>5 DEF ExitFlush, FlushPush
  <2> QED BY <1>3, <2>1, <2>2, <2>3, <2>4, <2>5 DEF Sync, Receive
<1>4. CASE Stream
  <2>1. CASE StreamAccepted
    BY <2>1 DEF StreamAccepted, WriteCount, Returned, PolicyInv
  <2>2. CASE StreamPush
    BY <2>2 DEF StreamPush, WritePush
  <2>3. CASE LoopStep /\ ~StreamAccepted /\ ~StreamPush
    BY <2>3 DEF LoopStep, Run, Reconnect, Watch, PolicyRuns, StreamRefused
  <2>4. CASE Connected \/ Disconnected \/ ConnectError \/ \E ev \in Offered : StreamEvent(ev)
    BY <2>4 DEF Connected, Disconnected, ConnectError, StreamEvent
  <2>5. CASE OnTrigger
    BY <2>5 DEF OnTrigger, ScanFresh
  <2>6. CASE PluginStep /\ UNCHANGED <<pipeline, command, loop, changed>>
    BY <2>6
  <2> QED BY <1>4, <2>1, <2>2, <2>3, <2>4, <2>5, <2>6 DEF Stream, StreamStep
<1>5. CASE Threads(ValidatorStep) \/ Threads(WriterStep) \/ Threads(Others)
  BY <1>5 DEF Threads, ValidatorStep, ValidatorPop, ValidatorReject, ValidatorPass,
              ValidatorShutdown, ValidatorExit, WriterStep, WriterWait, WriterPop, PutBack,
              TakeNull, Take, BatchTaken, Commit, Others, OtherWrites, OtherRemoves
<1> QED BY <1>1, <1>2, <1>3, <1>4, <1>5 DEF Next

\* The phases of the commands hold always.
LEMMA PhaseInvariant == Spec => [](PhaseInv /\ PolicyInv)
BY PhaseStart, PhaseKept, PolicyStart, PolicyKept, PTL DEF Spec

-----------------------------------------------------------------------------
(* The proofs about `strfry stream`                                        *)

\* Nothing has been received or sent at first.
LEMMA EchoStart == Init => EchoInv
BY DEF Init, EchoInv, ImportInit, SyncInit, StreamInit, NoStream, StreamIdle, PipelineInit

\* Only the loop of stream, a commit and another process change what EchoInv is about.
LEMMA EchoKept ==
  ASSUME EchoInv, [Next]_vars
  PROVE  EchoInv'
<1> USE DEF EchoInv, pipeline, main, validator, writer, store, command, others, streamVars, loop
<1>1. CASE UNCHANGED vars
  BY <1>1 DEF vars
<1>2. CASE Import
  BY <1>2 DEF Import, ImportLine, ImportPush, ImportDone, Destroy, Flushed, Join,
              WriteCount, WritePush, FlushPush, FlushWait
<1>3. CASE Sync
  BY <1>3 DEF Sync, Receive, Fails, SyncPush, ExitFlush, MsgNeg, MsgEose, MsgOk, MsgEvent,
              MsgEventBlocked, WriteCount, WritePush, FlushPush
<1>4. CASE Stream
  <2>1. CASE StreamAccepted
    BY <2>1 DEF StreamAccepted, WriteCount
  <2>2. CASE OnTrigger
    BY <2>2 DEF OnTrigger, ScanFresh, Kept
  <2>3. CASE LoopStep /\ ~StreamAccepted
    BY <2>3 DEF LoopStep, Run, Reconnect, Watch, PolicyRuns, StreamRefused, StreamPush, WritePush
  <2>4. CASE Connected \/ Disconnected \/ ConnectError
    BY <2>4 DEF Connected, Disconnected, ConnectError
  <2>5. CASE \E ev \in Offered : StreamEvent(ev)
    BY <2>5 DEF StreamEvent
  <2>6. CASE PluginStep /\ UNCHANGED <<pipeline, command, loop, changed>>
    BY <2>6
  <2> QED BY <1>4, <2>1, <2>2, <2>3, <2>4, <2>5, <2>6 DEF Stream, StreamStep
<1>5. CASE Threads(ValidatorStep)
  BY <1>5 DEF Threads, ValidatorStep, ValidatorPop, ValidatorReject, ValidatorPass,
              ValidatorShutdown, ValidatorExit
<1>6. CASE Threads(WriterStep)
  <2>1. CASE Commit
    BY <1>6, <2>1 DEF Threads, Commit, Written
  <2>2. CASE ~Commit
    BY <1>6, <2>2 DEF Threads, WriterStep, WriterWait, WriterPop, PutBack, TakeNull, Take, BatchTaken
  <2> QED BY <2>1, <2>2
<1>7. CASE Threads(Others)
  BY <1>7 DEF Threads, Others, OtherWrites, OtherRemoves
<1> QED BY <1>1, <1>2, <1>3, <1>4, <1>5, <1>6, <1>7 DEF Next

\* What is sent is stored, new and not downloaded.
LEMMA SendsFresh ==
  ASSUME [Next]_vars
  PROVE  sent' \ sent \subseteq fresh \ downloadedIds
<1> USE DEF pipeline, main, validator, writer, store, command, others, streamVars, loop
<1>1. CASE UNCHANGED vars
  BY <1>1 DEF vars
<1>2. CASE Import
  BY <1>2 DEF Import, ImportLine, ImportPush, ImportDone, Destroy, Flushed, Join
<1>3. CASE Sync
  BY <1>3 DEF Sync
<1>4. CASE Stream
  BY <1>4 DEF Stream, StreamStep, LoopStep, Run, Reconnect, Watch, PolicyRuns, StreamAccepted,
              StreamRefused, StreamPush, Connected, Disconnected, ConnectError, StreamEvent,
              OnTrigger
<1>5. CASE Threads(ValidatorStep) \/ Threads(WriterStep) \/ Threads(Others)
  BY <1>5 DEF Threads
<1> QED BY <1>1, <1>2, <1>3, <1>4, <1>5 DEF Next

\* An event accepted from the other relay is never sent back to it: what
\* onTrigger sends is stored above currEventId and not in downloadedIds, and an
\* accepted event that is not in downloadedIds has been looked at before, or was
\* removed since.
THEOREM NoEchoTheorem == Spec => NoEcho
<1>1. EchoInv /\ [Next]_vars =>
        [(sent' \ sent) \cap received \subseteq removed]_<<sent, received, removed>>
  BY SendsFresh DEF EchoInv
<1>2. EchoInv /\ [Next]_vars => EchoInv'
  BY EchoKept
<1> QED BY <1>1, <1>2, EchoStart, PTL DEF Spec, NoEcho

-----------------------------------------------------------------------------
(* The proofs about `strfry sync`                                          *)

\* Sets of events are finite.
LEMMA EventsFinite == \A S \in SUBSET Events : IsFiniteSet(S) /\ Cardinality(S) \in Nat
BY SyncAssumption, FS_Subset, FS_CardinalityType

\* The cardinality of a disjoint union of sets of events.
LEMMA DisjointUnion ==
  ASSUME NEW S \in SUBSET Events, NEW T \in SUBSET Events, S \cap T = {}
  PROVE  Cardinality(S \cup T) = Cardinality(S) + Cardinality(T)
<1>1. IsFiniteSet(S) /\ IsFiniteSet(T) /\ Cardinality(S) \in Nat /\ Cardinality(T) \in Nat
  BY EventsFinite
<1>2. Cardinality(S \cap T) = 0
  BY FS_EmptySet
<1>3. Cardinality(S \cup T) = Cardinality(S) + Cardinality(T) - Cardinality(S \cap T)
  BY <1>1, FS_Union, Zenon
<1> QED BY <1>1, <1>2, <1>3

\* The uploads: what is not popped waits behind a full enough window.
LEMMA UploadsBounded ==
  ASSUME NEW hs \in SUBSET Events, NEW up \in Nat, up <= HighWaterUp, ~Up => hs = {},
         NEW P \in Uploads(hs, up)
  PROVE  /\ P \subseteq hs
         /\ Cardinality(P \cap db) \in Nat
         /\ up + Cardinality(P \cap db) <= HighWaterUp
         /\ hs \ P # {} => up + Cardinality(P \cap db) > LowWaterUp
<1>1. P \subseteq hs
  BY DEF Uploads
<1>2. Cardinality(P \cap db) \in Nat
  BY <1>1, EventsFinite
<1>3. CASE UploadDue(hs, up)
  BY <1>1, <1>2, <1>3, SyncAssumption DEF Uploads, UploadDue
<1>4. CASE ~UploadDue(hs, up)
  <2>1. P \cap db = {}
    BY <1>4 DEF Uploads
  <2>2. Cardinality(P \cap db) = 0
    BY <2>1, FS_EmptySet
  <2> QED BY <1>1, <2>2, <1>4, SyncAssumption DEF Uploads, UploadDue
<1> QED BY <1>3, <1>4

\* The next REQ: it asks for something when anything is to be asked for.
LEMMA RequestsStart ==
  ASSUME NEW ns \in SUBSET Events, NEW down \in BOOLEAN, ~Down => ns = {},
         NEW B \in Requests(ns, down)
  PROVE  /\ B \subseteq ns
         /\ ns \ B # {} => down \/ B # {}
<1>1. CASE RequestDue(ns, down)
  <2>1. B # {}
    <3>1. SUFFICES ASSUME B = {} PROVE FALSE
      OBVIOUS
    <3>2. Cardinality(B) = 0
      BY <3>1, FS_EmptySet
    <3> QED BY <1>1, <3>1, <3>2, SyncAssumption DEF Requests, RequestDue
  <2> QED BY <1>1, <2>1 DEF Requests
<1>2. CASE ~RequestDue(ns, down)
  BY <1>2 DEF Requests, RequestDue
<1> QED BY <1>1, <1>2

\* What a message may leave for the end of its handler, and what that leaves.
Ready(hs, ns, up, down, out, ids, eose) ==
  /\ hs \subseteq Events /\ ns \subseteq Events /\ out \subseteq Events /\ ids \subseteq Events
  /\ up \in Nat /\ down \in BOOLEAN /\ eose \in BOOLEAN
  /\ hs \cap out = {} /\ up = Cardinality(out) /\ up <= HighWaterUp /\ down = eose
  /\ ~Up => hs = {}
  /\ ~Down => ns = {}

Left(done, hs, ns, out) ==
  /\ have' \subseteq hs /\ unanswered' \subseteq hs \cup out
  /\ need' \subseteq Events /\ asked' \subseteq Events
  /\ inFlightUp' \in Nat /\ inFlightDown' \in BOOLEAN /\ eoseOwed' \in BOOLEAN
  /\ syncDone' = done
  /\ hs \cup out \cup gone \subseteq have' \cup unanswered' \cup gone'
  /\ ns \cup requested \subseteq need' \cup requested'
  /\ status' \in {"0", "exit0"} =>
        done /\ have' = {} /\ need' = {} /\ unanswered' = {} /\ ~eoseOwed'

\* The end of every message handler of sync: from consistent counters it
\* leaves the windows exact, and loses nothing of what was to be transferred.
LEMMA TransferKeeps ==
  ASSUME NEW done, NEW hs, NEW ns, NEW up, NEW down, NEW out, NEW ids, NEW eose,
         Ready(hs, ns, up, down, out, ids, eose), cmd' = cmd, status = "run",
         Transfer(done, hs, ns, up, down, out, ids, eose)
  PROVE  WindowInv' /\ Left(done, hs, ns, out)
<1> USE DEF Ready
<1>1. PICK P \in Uploads(hs, up), B \in Requests(ns, down) :
        /\ have' = hs \ P
        /\ inFlightUp' = up + Cardinality(P \cap db)
        /\ unanswered' = out \cup (P \cap db)
        /\ gone' = gone \cup (P \ db)
        /\ need' = ns \ B
        /\ inFlightDown' = (down \/ B # {})
        /\ asked' = (IF B # {} THEN B ELSE ids)
        /\ eoseOwed' = (eose \/ B # {})
        /\ requested' = requested \cup B
        /\ syncDone' = done
        /\ IF Finished(done, have', need', inFlightUp', inFlightDown')
           THEN DoExit(TRUE)
           ELSE status' = status
  BY DEF Transfer
<1>2. /\ P \subseteq hs
      /\ Cardinality(P \cap db) \in Nat
      /\ up + Cardinality(P \cap db) <= HighWaterUp
      /\ hs \ P # {} => up + Cardinality(P \cap db) > LowWaterUp
      /\ up + Cardinality(P \cap db) = Cardinality(out \cup (P \cap db))
  <2>1. /\ P \subseteq hs
        /\ Cardinality(P \cap db) \in Nat
        /\ up + Cardinality(P \cap db) <= HighWaterUp
        /\ hs \ P # {} => up + Cardinality(P \cap db) > LowWaterUp
    BY UploadsBounded
  <2>2. P \cap db \in SUBSET Events /\ out \cap (P \cap db) = {}
    BY <2>1
  <2> QED BY <2>1, <2>2, DisjointUnion
<1>3. /\ B \subseteq ns
      /\ ns \ B # {} => down \/ B # {}
  BY RequestsStart
<1>4. Up' = Up /\ Down' = Down
  BY DEF Up, Down
<1>5. WindowInv'
  <2>1. inFlightUp' = Cardinality(unanswered)' /\ inFlightUp' <= HighWaterUp
    BY <1>1, <1>2
  <2>2. have' \cap unanswered' = {}
    BY <1>1
  <2>3. inFlightDown' = eoseOwed'
    BY <1>1
  <2>4. have' # {} => inFlightUp' > LowWaterUp
    BY <1>1, <1>2
  <2>5. need' # {} => inFlightDown'
    BY <1>1, <1>3
  <2> QED BY <2>1, <2>2, <2>3, <2>4, <2>5, <1>1, <1>4 DEF WindowInv
<1>6. status' \in {"0", "exit0"} =>
               done /\ have' = {} /\ need' = {} /\ unanswered' = {} /\ ~eoseOwed'
  <2>1. SUFFICES ASSUME status' \in {"0", "exit0"}
                 PROVE  done /\ have' = {} /\ need' = {} /\ unanswered' = {} /\ ~eoseOwed'
    OBVIOUS
  <2>2. done /\ have' = {} /\ need' = {} /\ inFlightUp' = 0 /\ ~inFlightDown'
    BY <1>1, <2>1 DEF Finished
  <2>3. unanswered' = {}
    <3>1. unanswered' \in SUBSET Events /\ Cardinality(unanswered') = 0
      BY <1>1, <1>2, <2>2
    <3> QED BY <3>1, EventsFinite, FS_EmptySet
  <2> QED BY <1>1, <2>2, <2>3
<1>7. asked' \subseteq Events
  BY <1>1, <1>3
<1> QED BY <1>1, <1>2, <1>3, <1>5, <1>6, <1>7 DEF Left

\* sync has nothing in flight at first.
LEMMA SyncStart == Init => SyncInv
<1> SUFFICES ASSUME Init, cmd.name = "sync"
             PROVE  SyncType /\ WindowInv /\ CompleteInv
  BY DEF SyncInv
<1>1. PICK dir : SyncInit(dir)
  <2>1. ~ImportInit
    <3>1. SUFFICES ASSUME ImportInit PROVE FALSE
      OBVIOUS
    <3>2. PICK opt : cmd = [name |-> "import", opt |-> opt]
      BY <3>1 DEF ImportInit, ImportCmd
    <3> QED BY <3>2
  <2>2. \A dir : ~StreamInit(dir)
    BY DEF StreamInit, StreamCmd
  <2> QED BY <2>1, <2>2 DEF Init
<1>2. status = "run" /\ rounds \in Scripts /\ SyncIdle
  BY <1>1 DEF SyncInit
<1>3. rounds \in Seq(Round)
  BY <1>2, SyncAssumption DEF Round
<1>4. Cardinality(unanswered) = 0
  BY <1>2, FS_EmptySet DEF SyncIdle
<1>5. SyncType
  BY <1>2, <1>3 DEF SyncType, SyncIdle
<1>6. WindowInv
  <2>1. HighWaterUp \in Nat
    BY SyncAssumption
  <2>2. inFlightUp = Cardinality(unanswered) /\ inFlightUp <= HighWaterUp
    BY <1>2, <1>4, <2>1 DEF SyncIdle
  <2> QED BY <1>2, <2>2 DEF WindowInv, SyncIdle
<1> QED BY <1>2, <1>5, <1>6 DEF CompleteInv, SyncIdle

\* The answer to an EVENT leaves one less in the window.
LEMMA OkKeeps ==
  ASSUME SyncType, WindowInv, CompleteInv, NEW id \in unanswered, MsgOk(id)
  PROVE  (SyncType /\ WindowInv /\ CompleteInv)'
<1>1. Ready(have, need, inFlightUp - 1, inFlightDown, unanswered \ {id}, asked, eoseOwed)
  <2>1. IsFiniteSet(unanswered)
    BY EventsFinite DEF SyncType
  <2>2. Cardinality(unanswered \ {id}) = Cardinality(unanswered) - 1
    BY <2>1, FS_RemoveElement
  <2>3. unanswered \ {id} \in SUBSET Events
    BY DEF SyncType
  <2>4. Cardinality(unanswered \ {id}) \in Nat
    BY <2>3, EventsFinite
  <2> QED BY <2>2, <2>3, <2>4, SyncAssumption DEF SyncType, WindowInv, Ready
<1>2. Left(syncDone, have, need, unanswered \ {id}) /\ WindowInv'
  BY <1>1, TransferKeeps DEF MsgOk, Receiving
<1>3. rounds' = rounds /\ seenHave' = seenHave /\ seenNeed' = seenNeed /\ answered' = answered \cup {id}
      /\ Up' = Up /\ Down' = Down
  BY DEF MsgOk, Up, Down
<1>4. SyncType'
  BY <1>2, <1>3 DEF SyncType, Left
<1>5. CompleteInv'
  BY <1>2, <1>3 DEF CompleteInv, Left
<1> QED BY <1>2, <1>4, <1>5

\* EOSE, a refused event, and the end of write(): nothing but the REQ changes.
LEMMA OtherAnswersKeep ==
  ASSUME SyncType, WindowInv, CompleteInv,
         MsgEose \/ SyncPush \/ \E id \in asked : MsgEventBlocked(id)
  PROVE  (SyncType /\ WindowInv /\ CompleteInv)'
<1>1. \/ Transfer(syncDone, have, need, inFlightUp, FALSE, unanswered, asked, FALSE)
      \/ \E ids \in SUBSET Events :
            Transfer(syncDone, have, need, inFlightUp, inFlightDown, unanswered, ids, eoseOwed)
  BY DEF MsgEose, SyncPush, MsgEventBlocked, SyncType
<1>2. status = "run" /\ cmd' = cmd /\ rounds' = rounds /\ seenHave' = seenHave
      /\ seenNeed' = seenNeed /\ answered' = answered /\ Up' = Up /\ Down' = Down
  BY DEF MsgEose, SyncPush, MsgEventBlocked, Receiving, Up, Down
<1>3. Ready(have, need, inFlightUp, FALSE, unanswered, asked, FALSE)
  BY DEF SyncType, WindowInv, Ready
<1>4. \A ids \in SUBSET Events :
        Ready(have, need, inFlightUp, inFlightDown, unanswered, ids, eoseOwed)
  BY DEF SyncType, WindowInv, Ready
<1>5. Left(syncDone, have, need, unanswered) /\ WindowInv'
  BY <1>1, <1>2, <1>3, <1>4, TransferKeeps
<1>6. SyncType'
  BY <1>2, <1>5 DEF SyncType, Left
<1>7. CompleteInv'
  BY <1>2, <1>5 DEF CompleteInv, Left
<1> QED BY <1>5, <1>6, <1>7

\* A round of the reconciliation: an id seen before is not taken again.
LEMMA NegKeeps ==
  ASSUME SyncType, WindowInv, CompleteInv, MsgNeg
  PROVE  (SyncType /\ WindowInv /\ CompleteInv)'
<1> DEFINE r == Head(rounds)
           hs == IF Up THEN have \cup Reported(r.have, seenHave) ELSE {}
           ns == IF Down THEN need \cup Reported(r.need, seenNeed) ELSE {}
<1>1. r.have \subseteq Events /\ r.need \subseteq Events
  <2>1. r \in Round
    BY DEF SyncType, MsgNeg
  <2> QED BY <2>1 DEF Round
<1>2. rounds' \in Seq(Round) /\ (Len(rounds) = 1 => rounds' = <<>>)
  BY DEF SyncType, MsgNeg
<1>3. Transfer(Len(rounds) = 1, hs, ns, inFlightUp, inFlightDown, unanswered, asked, eoseOwed)
  BY DEF MsgNeg
<1>4. Ready(hs, ns, inFlightUp, inFlightDown, unanswered, asked, eoseOwed)
  BY <1>1 DEF SyncType, WindowInv, Ready, Reported
<1>5. Left(Len(rounds) = 1, hs, ns, unanswered) /\ WindowInv'
  BY <1>3, <1>4, TransferKeeps DEF MsgNeg, Receiving
<1>6. seenHave' = seenHave \cup r.have /\ seenNeed' = seenNeed \cup r.need /\ answered' = answered
      /\ Up' = Up /\ Down' = Down
  BY DEF MsgNeg, Up, Down
<1>7. SyncType'
  BY <1>1, <1>2, <1>5, <1>6 DEF SyncType, Left, Reported
<1>8. CompleteInv'
  BY <1>1, <1>2, <1>5, <1>6 DEF CompleteInv, Left, Reported
<1> QED BY <1>5, <1>7, <1>8

\* SyncInv is inductive, given the phases.
LEMMA SyncKept ==
  ASSUME PhaseInv, PolicyInv, SyncInv, [Next]_vars
  PROVE  SyncInv'
<1> USE DEF command, others, syncVars, exchanges
<1>1. cmd' = cmd
  BY PhaseKept
<1> SUFFICES ASSUME cmd.name = "sync"
             PROVE  (SyncType /\ WindowInv /\ CompleteInv)'
  BY <1>1 DEF SyncInv
<1> USE DEF SyncInv
<1>2. Up' = Up /\ Down' = Down
  BY <1>1 DEF Up, Down
<1>3. SyncType /\ WindowInv /\ CompleteInv
  OBVIOUS
<1>4. ASSUME UNCHANGED syncVars, status' = status
      PROVE  (SyncType /\ WindowInv /\ CompleteInv)'
  BY <1>2, <1>4 DEF SyncType, WindowInv, CompleteInv
<1>5. CASE UNCHANGED vars
  BY <1>4, <1>5 DEF vars
<1>6. CASE Import
  <2>1. UNCHANGED syncVars
    BY <1>6 DEF Import, ImportLine, ImportPush, ImportDone, Destroy, Flushed, Join
  <2>2. CASE status' = status
    BY <1>4, <2>1, <2>2
  <2>3. CASE status' # status
    <3>1. Flushed \/ Join
      BY <1>6, <2>3 DEF Import, ImportLine, ImportPush, ImportDone, Destroy, Importing
    <3>2. status' \in {"0", "exit0"} => status \in {"0", "exit0"}
      BY <3>1 DEF Flushed, FlushWait, Join, PhaseInv
    <3> QED BY <1>2, <1>3, <2>1, <3>2 DEF SyncType, WindowInv, CompleteInv
  <2> QED BY <2>2, <2>3
<1>7. CASE Sync
  <2>1. CASE MsgNeg
    BY <1>3, <2>1, NegKeeps
  <2>2. CASE MsgEose \/ SyncPush \/ \E id \in asked : MsgEventBlocked(id)
    BY <1>3, <2>2, OtherAnswersKeep
  <2>3. CASE \E id \in unanswered : MsgOk(id)
    BY <1>3, <2>3, OkKeeps
  <2>4. CASE \E id \in asked : MsgEvent(id)
    BY <1>2, <1>3, <2>4 DEF MsgEvent, SyncType, WindowInv, CompleteInv
  <2>5. CASE Fails
    BY <1>2, <1>3, <2>5 DEF Fails, DoExit, SyncType, WindowInv, CompleteInv, Receiving
  <2>6. CASE ExitFlush
    BY <1>4, <2>6 DEF ExitFlush
  <2> QED BY <1>7, <2>1, <2>2, <2>3, <2>4, <2>5, <2>6 DEF Sync, Receive
<1>8. CASE Stream
  <2>1. status' = status
    BY <1>8 DEF Stream, StreamStep, LoopStep, Run, Reconnect, Watch, PolicyRuns, StreamAccepted,
         StreamRefused, StreamPush, Connected, Disconnected, ConnectError, StreamEvent, OnTrigger
  <2> QED BY <1>4, <1>8, <2>1 DEF Stream
<1>9. CASE Threads(ValidatorStep) \/ Threads(WriterStep) \/ Threads(Others)
  BY <1>4, <1>9 DEF Threads
<1> QED BY <1>5, <1>6, <1>7, <1>8, <1>9 DEF Next

\* The inductive invariant of sync holds always.
LEMMA SyncInvariant == Spec => []SyncInv
BY SyncStart, SyncKept, PhaseInvariant, PTL DEF Spec

\* The counters of sync are what its conditions take them for, for every script
\* of rounds, window and batch size: an id is popped off `have` once, because
\* a round only adds ids no earlier one reported.
THEOREM WindowsExactTheorem == Spec => []WindowsExact
<1>1. SyncInv => WindowsExact
  BY DEF SyncInv, WindowInv, WindowsExact
<1> QED BY <1>1, SyncInvariant, PTL

\* sync exits with 0 only when every id found missing was uploaded and answered,
\* or not found, or requested up to EOSE: each id seen is still to do, under
\* way or done, and it exits when nothing is to do or under way.
THEOREM SyncCompleteTheorem == Spec => []SyncComplete
<1>1. SyncInv => SyncComplete
  BY DEF SyncInv, CompleteInv, SyncComplete
<1> QED BY <1>1, SyncInvariant, PTL

-----------------------------------------------------------------------------
(* Facts about the queues of the pipeline                                  *)

\* The shutdown marker is no event.
LEMMA NullNoEvent == \A ev \in Events : ev # Null
BY PipelineAssumption

\* The empty queue.
LEMMA QueueEmpty ==
  <<>> \in Queue /\ ~HasNull(<<>>) /\ Items(<<>>) = {} /\ Count(<<>>) = 0
BY DEF Queue, NullLast, HasNull, Items, Elems, Count, Entries

\* The queue that holds the shutdown marker alone.
LEMMA QueueNull ==
  /\ <<Null>> \in Queue /\ HasNull(<<Null>>) /\ Items(<<Null>>) = {} /\ Count(<<Null>>) = 0
  /\ <<Null>> # <<>>
BY DEF Queue, NullLast, HasNull, Items, Elems, Count, Entries

\* An event pushed onto a queue without the marker.
LEMMA QueueAppend ==
  ASSUME NEW s \in Queue, ~HasNull(s), NEW ev \in Events
  PROVE  /\ Append(s, ev) \in Queue /\ ~HasNull(Append(s, ev))
         /\ Items(Append(s, ev)) = Items(s) \cup {ev}
         /\ Count(Append(s, ev)) = Count(s) + 1
         /\ Append(s, ev) # <<>>
<1> DEFINE t == Append(s, ev)
<1>1. s \in Seq(Entries) /\ ev \in Entries /\ ev # Null
  BY NullNoEvent DEF Queue, Entries
<1>2. t \in Seq(Entries) /\ Len(t) = Len(s) + 1 /\ DOMAIN t = 1..Len(s) + 1 /\ DOMAIN s = 1..Len(s)
      /\ Len(s) \in Nat
  BY <1>1
<1>3. t[Len(s) + 1] = ev /\ \A i \in DOMAIN s : t[i] = s[i]
  BY <1>1, <1>2
<1>4. \A i \in DOMAIN t : i \in DOMAIN s \/ i = Len(s) + 1
  BY <1>2
<1>5. \A i \in DOMAIN s : i \in DOMAIN t
  BY <1>2
<1>6. Len(s) + 1 \in DOMAIN t
  BY <1>2
<1> HIDE DEF t
<1>7. ~HasNull(t)
  BY <1>1, <1>3, <1>4 DEF HasNull
<1>8. t \in Queue
  BY <1>2, <1>7 DEF Queue, NullLast, HasNull
<1>9. Items(t) = Items(s) \cup {ev}
  <2>1. Items(t) \subseteq Items(s) \cup {ev}
    BY <1>3, <1>4 DEF Items, Elems
  <2>2. Items(s) \cup {ev} \subseteq Items(t)
    BY <1>1, <1>3, <1>5, <1>6 DEF Items, Elems
  <2> QED BY <2>1, <2>2
<1>10. Count(t) = Len(s) + 1
  BY <1>1, <1>2, <1>3 DEF Count
<1>11. Count(s) = Len(s)
  <2>1. s # <<>> => Len(s) \in DOMAIN s
    BY <1>1
  <2> QED BY <2>1 DEF Count, HasNull
<1>12. t # <<>>
  BY <1>2
<1> QED BY <1>7, <1>8, <1>9, <1>10, <1>11, <1>12 DEF t

\* The marker pushed onto a queue without one.
LEMMA QueueAppendNull ==
  ASSUME NEW s \in Queue, ~HasNull(s)
  PROVE  /\ Append(s, Null) \in Queue /\ HasNull(Append(s, Null))
         /\ Items(Append(s, Null)) = Items(s)
         /\ Count(Append(s, Null)) = Count(s)
         /\ Append(s, Null) # <<>>
<1> DEFINE t == Append(s, Null)
<1>1. s \in Seq(Entries) /\ Null \in Entries
  BY DEF Queue, Entries
<1>2. t \in Seq(Entries) /\ Len(t) = Len(s) + 1 /\ DOMAIN t = 1..Len(s) + 1 /\ DOMAIN s = 1..Len(s)
      /\ Len(s) \in Nat
  BY <1>1
<1>3. t[Len(s) + 1] = Null /\ \A i \in DOMAIN s : t[i] = s[i]
  BY <1>1, <1>2
<1>4. \A i \in DOMAIN t : i \in DOMAIN s \/ i = Len(s) + 1
  BY <1>2
<1>5. \A i \in DOMAIN s : i \in DOMAIN t
  BY <1>2
<1>6. Len(s) + 1 \in DOMAIN t
  BY <1>2
<1> HIDE DEF t
<1>7. HasNull(t)
  BY <1>3, <1>6 DEF HasNull
<1>8. t \in Queue
  BY <1>2, <1>3, <1>4 DEF Queue, NullLast, HasNull
<1>9. Items(t) = Items(s)
  <2>1. Items(t) \subseteq Items(s)
    BY <1>3, <1>4 DEF Items, Elems
  <2>2. Items(s) \subseteq Items(t)
    BY <1>3, <1>5 DEF Items, Elems
  <2> QED BY <2>1, <2>2
<1>10. Count(t) = Len(s)
  <2>1. t # <<>> /\ t[Len(t)] = Null
    BY <1>2, <1>3
  <2>2. Count(t) = Len(t) - 1
    BY <2>1 DEF Count
  <2> QED BY <1>2, <2>2
<1>11. Count(s) = Len(s)
  <2>1. s # <<>> => Len(s) \in DOMAIN s
    BY <1>1
  <2> QED BY <2>1 DEF Count, HasNull
<1>12. t # <<>>
  BY <1>2
<1> QED BY <1>7, <1>8, <1>9, <1>10, <1>11, <1>12 DEF t

\* The marker at the head of a queue is all there is: nothing is pushed
\* behind it.
LEMMA QueueHeadNull ==
  ASSUME NEW s \in Queue, s # <<>>, Head(s) = Null
  PROVE  s = <<Null>>
<1>1. s \in Seq(Entries) /\ NullLast(s)
  BY DEF Queue
<1>2. 1 \in DOMAIN s /\ s[1] = Null
  BY <1>1
<1>3. Len(s) = 1
  BY <1>1, <1>2 DEF NullLast
<1> QED BY <1>1, <1>2, <1>3

\* An event popped from a queue.
LEMMA QueueTail ==
  ASSUME NEW s \in Queue, s # <<>>, Head(s) # Null
  PROVE  /\ Head(s) \in Events
         /\ Tail(s) \in Queue /\ (HasNull(Tail(s)) <=> HasNull(s))
         /\ Items(s) = Items(Tail(s)) \cup {Head(s)}
         /\ Count(Tail(s)) = Count(s) - 1
         /\ Len(s) = 1 <=> Tail(s) = <<>>
<1> DEFINE t == Tail(s)
<1>1. s \in Seq(Entries) /\ NullLast(s) /\ Len(s) \in Nat /\ Len(s) > 0 /\ DOMAIN s = 1..Len(s)
  BY DEF Queue
<1>2. t \in Seq(Entries) /\ Len(t) = Len(s) - 1 /\ Len(t) \in Nat /\ DOMAIN t = 1..Len(t)
  BY <1>1
<1>3. Head(s) = s[1] /\ Head(s) \in Events /\ 1 \in DOMAIN s
  <2>1. Head(s) = s[1] /\ 1 \in DOMAIN s /\ Head(s) \in Entries
    BY <1>1
  <2> QED BY <2>1 DEF Entries
<1>4. \A i \in DOMAIN t : i + 1 \in DOMAIN s /\ t[i] = s[i + 1]
  BY <1>1, <1>2
<1>5. \A i \in DOMAIN s : i = 1 \/ \E k \in DOMAIN t : i = k + 1 /\ t[k] = s[i]
  <2>1. SUFFICES ASSUME NEW i \in DOMAIN s, i # 1
                 PROVE  \E k \in DOMAIN t : i = k + 1 /\ t[k] = s[i]
    OBVIOUS
  <2>2. i - 1 \in DOMAIN t /\ i = (i - 1) + 1
    BY <1>1, <1>2, <2>1
  <2> QED BY <1>4, <2>2
<1> HIDE DEF t
<1>6. Len(s) = 1 <=> t = <<>>
  <2>1. t = <<>> <=> Len(t) = 0
    BY <1>2
  <2> QED BY <1>1, <1>2, <2>1
<1>7. HasNull(t) <=> HasNull(s)
  BY <1>3, <1>4, <1>5 DEF HasNull
<1>8. t \in Queue
  <2>1. ASSUME NEW i \in DOMAIN t, t[i] = Null PROVE i = Len(t)
    <3>1. i + 1 \in DOMAIN s /\ s[i + 1] = Null
      BY <1>4, <2>1
    <3>2. i + 1 = Len(s)
      BY <1>1, <3>1 DEF NullLast
    <3> QED BY <1>2, <3>2
  <2> QED BY <1>2, <2>1 DEF Queue, NullLast
<1>9. Items(s) = Items(t) \cup {Head(s)}
  <2>1. Items(s) \subseteq Items(t) \cup {Head(s)}
    BY <1>3, <1>5 DEF Items, Elems
  <2>2. Items(t) \cup {Head(s)} \subseteq Items(s)
    BY <1>3, <1>4 DEF Items, Elems
  <2> QED BY <2>1, <2>2
<1>10. Count(t) = Count(s) - 1
  <2>1. CASE t = <<>>
    <3>1. Len(s) = 1 /\ s[Len(s)] # Null
      BY <1>3, <1>6, <2>1
    <3>2. Count(s) = 1
      BY <3>1 DEF Count
    <3>3. Count(t) = 0
      BY <2>1, QueueEmpty
    <3> QED BY <3>2, <3>3
  <2>2. CASE t # <<>>
    <3>1. Len(t) \in DOMAIN t /\ t[Len(t)] = s[Len(s)]
      BY <1>1, <1>2, <1>4, <2>2
    <3>2. CASE s[Len(s)] = Null
      BY <1>1, <1>2, <2>2, <3>1, <3>2 DEF Count
    <3>3. CASE s[Len(s)] # Null
      BY <1>1, <1>2, <2>2, <3>1, <3>3 DEF Count
    <3> QED BY <3>2, <3>3
  <2> QED BY <2>1, <2>2
<1> QED BY <1>3, <1>6, <1>7, <1>8, <1>9, <1>10 DEF t

\* The rest of a batch put back in front of a queue.
LEMMA QueueConcat ==
  ASSUME NEW s \in Queue, NEW t \in Queue, ~HasNull(s)
  PROVE  /\ s \o t \in Queue /\ (HasNull(s \o t) <=> HasNull(t))
         /\ Items(s \o t) = Items(s) \cup Items(t)
         /\ Count(s \o t) = Count(s) + Count(t)
<1> DEFINE u == s \o t
<1>1. s \in Seq(Entries) /\ t \in Seq(Entries) /\ NullLast(t)
      /\ Len(s) \in Nat /\ Len(t) \in Nat /\ DOMAIN s = 1..Len(s) /\ DOMAIN t = 1..Len(t)
  BY DEF Queue
<1>2. u \in Seq(Entries) /\ Len(u) = Len(s) + Len(t) /\ DOMAIN u = 1..Len(u)
  BY <1>1
<1>3. \A i \in DOMAIN s : i \in DOMAIN u /\ u[i] = s[i]
  BY <1>1, <1>2
<1>4. \A k \in DOMAIN t : Len(s) + k \in DOMAIN u /\ u[Len(s) + k] = t[k]
  BY <1>1, <1>2
<1>5. \A i \in DOMAIN u : i \in DOMAIN s \/ \E k \in DOMAIN t : i = Len(s) + k /\ u[i] = t[k]
  <2>1. SUFFICES ASSUME NEW i \in DOMAIN u, i \notin DOMAIN s
                 PROVE  \E k \in DOMAIN t : i = Len(s) + k /\ u[i] = t[k]
    OBVIOUS
  <2>2. i - Len(s) \in DOMAIN t /\ i = Len(s) + (i - Len(s))
    BY <1>1, <1>2, <2>1
  <2> QED BY <1>4, <2>2
<1>6. s # <<>> => Len(s) \in DOMAIN s
  BY <1>1
<1>7. t # <<>> => Len(t) \in DOMAIN t
  BY <1>1
<1>8. t = <<>> => u = s
  BY <1>1
<1>9. u = <<>> <=> Len(u) = 0
  BY <1>2
<1> HIDE DEF u
<1>10. HasNull(u) <=> HasNull(t)
  BY <1>3, <1>4, <1>5 DEF HasNull
<1>11. u \in Queue
  <2>1. ASSUME NEW i \in DOMAIN u, u[i] = Null PROVE i = Len(u)
    <3>1. PICK k \in DOMAIN t : i = Len(s) + k /\ u[i] = t[k]
      BY <1>3, <1>5, <2>1 DEF HasNull
    <3>2. k = Len(t)
      BY <1>1, <2>1, <3>1 DEF NullLast
    <3> QED BY <1>2, <3>1, <3>2
  <2> QED BY <1>2, <2>1 DEF Queue, NullLast
<1>12. Items(u) = Items(s) \cup Items(t)
  <2>1. Items(u) \subseteq Items(s) \cup Items(t)
    BY <1>3, <1>5 DEF Items, Elems
  <2>2. Items(s) \cup Items(t) \subseteq Items(u)
    BY <1>3, <1>4 DEF Items, Elems
  <2> QED BY <2>1, <2>2
<1>13. Count(s) = Len(s)
  BY <1>6 DEF Count, HasNull
<1>14. Count(u) = Count(s) + Count(t)
  <2>1. CASE t = <<>>
    <3>1. Count(t) = 0
      BY <2>1, QueueEmpty
    <3> QED BY <1>1, <1>8, <1>13, <2>1, <3>1
  <2>2. CASE t # <<>>
    <3>1. u # <<>> /\ u[Len(u)] = t[Len(t)]
      BY <1>1, <1>2, <1>4, <1>7, <1>9, <2>2
    <3>2. CASE t[Len(t)] = Null
      <4>1. Count(u) = Len(u) - 1 /\ Count(t) = Len(t) - 1
        BY <2>2, <3>1, <3>2 DEF Count
      <4> QED BY <1>1, <1>2, <1>13, <4>1
    <3>3. CASE t[Len(t)] # Null
      BY <1>1, <1>2, <1>13, <2>2, <3>1, <3>3 DEF Count
    <3> QED BY <3>2, <3>3
  <2> QED BY <2>1, <2>2
<1> QED BY <1>10, <1>11, <1>12, <1>14 DEF u

-----------------------------------------------------------------------------
(* The proofs about the pipeline                                           *)

\* import: what is still to be read
TodoInv == todo \in Seq(Events)

\* A step of a command, as the pipeline sees it: a call of write() or flush(), or
\* its own progress.
Calls ==
  \/ (\E ev \in Events : WriteCount(ev)) /\ status = "run" /\ status' = "run"
  \/ WritePush(Fried) /\ status = "run" /\ status' \in {"run", "exit0", "exit1", "0", "1"}
  \/ FlushPush /\ status = "run" /\ status' = "flush"
  \/ FlushPush /\ status \in {"destroy", "exit0", "exit1"} /\ status' = status
  \/ FlushWait /\ \/ status = "flush" /\ status' = "destroy"
                  \/ status = "destroy" /\ status' = "join"
                  \/ status \in {"exit0", "exit1"} /\ status' \in {"0", "1"}
  \/ ScanFresh /\ status' = status

Proceeds ==
  /\ UNCHANGED pipeline
  /\ \/ status' = status
     \/ status \in {"start", "run"} /\ call = "" /\ status' \in {"run", "exit0", "exit1", "0", "1"}
     \/ status = "join" /\ status' = "0"

ThreadStep == (ValidatorStep \/ WriterStep \/ Others) /\ status' = status

\* What import has to read is a sequence of events.
LEMMA TodoStart == Init => TodoInv
<1>1. Init => todo \in Inputs \/ todo = <<>>
  BY DEF Init, ImportInit
<1>2. ASSUME todo \in Inputs PROVE todo \in Seq(Events)
  BY <1>2, CommandsAssumption
<1>3. <<>> \in Seq(Events)
  OBVIOUS
<1> QED BY <1>1, <1>2, <1>3 DEF TodoInv

\* What import still has to read stays a sequence of events.
LEMMA TodoKept ==
  ASSUME TodoInv, [Next]_vars
  PROVE  TodoInv'
<1> USE DEF TodoInv
<1>1. CASE ImportLine
  BY <1>1 DEF ImportLine
<1>2. CASE ~ImportLine
  BY <1>2 DEF vars, Next, Import, ImportPush, ImportDone, Destroy, Flushed, Join, Sync, Stream, Threads
<1> QED BY <1>1, <1>2

\* What a step of any command does to the pipeline: a call of write or flush,
\* a step of its threads, or nothing.
LEMMA PipelineSteps ==
  ASSUME PhaseInv, PolicyInv, SyncInv, TodoInv, [Next]_vars
  PROVE  (Calls \/ Proceeds \/ ThreadStep) /\ cmd' = cmd
<1>0. cmd' = cmd
  BY PhaseKept
<1> USE DEF command
<1>1. CASE UNCHANGED vars
  BY <1>1 DEF vars, Proceeds
<1>2. CASE Import
  <2>1. CASE ImportLine
    <3>1. Head(todo) \in Events
      BY <2>1 DEF ImportLine, TodoInv
    <3> QED BY <2>1, <3>1 DEF ImportLine, Importing, Calls
  <2>2. CASE ImportPush
    BY <2>2 DEF ImportPush, Importing, Calls
  <2>3. CASE ImportDone
    BY <2>3 DEF ImportDone, Importing, Calls
  <2>4. CASE Destroy
    BY <2>4 DEF Destroy, Calls
  <2>5. CASE Flushed
    <3>1. status \in {"flush", "destroy", "exit0", "exit1"} /\ FlushWait
      BY <2>5 DEF Flushed, FlushWait, PhaseInv
    <3>2. /\ status = "flush" => status' = "destroy"
          /\ status = "destroy" => status' = "join"
          /\ status = "exit0" => status' = "0"
          /\ status = "exit1" => status' = "1"
      BY <2>5, <3>1 DEF Flushed
    <3> QED BY <1>0, <3>1, <3>2 DEF Calls
  <2>6. CASE Join
    BY <2>6 DEF Join, Proceeds
  <2> QED BY <1>0, <1>2, <2>1, <2>2, <2>3, <2>4, <2>5, <2>6 DEF Import
<1>3. CASE Sync
  <2>1. CASE MsgNeg \/ MsgEose \/ (\E id \in unanswered : MsgOk(id)) \/ (\E id \in asked : MsgEventBlocked(id))
    <3>1. UNCHANGED pipeline /\ status = "run" /\ call = ""
      BY <2>1 DEF MsgNeg, MsgEose, MsgOk, MsgEventBlocked, Receiving
    <3>2. status' \in {"run", "exit0", "exit1", "0", "1"}
      BY <2>1, <3>1 DEF MsgNeg, MsgEose, MsgOk, MsgEventBlocked, Transfer, DoExit
    <3> QED BY <1>0, <3>1, <3>2 DEF Proceeds
  <2>2. CASE \E id \in asked : MsgEvent(id)
    <3>1. PICK id \in asked : MsgEvent(id)
      BY <2>2
    <3>2. id \in Events
      BY <3>1 DEF MsgEvent, Receiving, SyncInv, SyncType
    <3> QED BY <1>0, <3>1, <3>2 DEF MsgEvent, Receiving, Calls
  <2>3. CASE SyncPush
    <3>1. WritePush(FALSE) /\ status = "run" /\ Fried = FALSE
      BY <2>3 DEF SyncPush, PhaseInv, Fried
    <3>2. WritePush(Fried)
      BY <3>1 DEF WritePush
    <3>3. status' \in {"run", "exit0", "exit1", "0", "1"}
      BY <2>3 DEF SyncPush, Transfer, DoExit
    <3> QED BY <1>0, <3>1, <3>2, <3>3 DEF Calls
  <2>4. CASE Fails
    BY <1>0, <2>4 DEF Fails, Receiving, DoExit, Proceeds
  <2>5. CASE ExitFlush
    BY <1>0, <2>5 DEF ExitFlush, Calls
  <2> QED BY <1>3, <2>1, <2>2, <2>3, <2>4, <2>5 DEF Sync, Receive
<1>4. CASE Stream
  <2>1. CASE StreamAccepted
    BY <1>0, <2>1, StreamAssumption DEF StreamAccepted, Returned, PolicyInv, Calls
  <2>2. CASE StreamPush
    <3>1. WritePush(FALSE) /\ status = "run" /\ Fried = FALSE
      BY <2>2 DEF StreamPush, PhaseInv, Fried, WritePush
    <3>2. WritePush(Fried)
      BY <3>1 DEF WritePush
    <3> QED BY <1>0, <2>2, <3>1, <3>2 DEF StreamPush, Calls
  <2>3. CASE Run
    <3>1. call = ""
      BY <2>3 DEF Run, PhaseInv
    <3> QED BY <1>0, <2>3, <3>1 DEF Run, Proceeds
  <2>4. CASE Reconnect \/ Watch \/ PolicyRuns \/ StreamRefused
    BY <1>0, <2>4 DEF Reconnect, Watch, PolicyRuns, StreamRefused, Proceeds
  <2>5. CASE Connected \/ Disconnected \/ ConnectError \/ \E ev \in Offered : StreamEvent(ev)
    BY <1>0, <2>5 DEF Connected, Disconnected, ConnectError, StreamEvent, Proceeds
  <2>6. CASE OnTrigger
    BY <1>0, <2>6 DEF OnTrigger, Calls
  <2>7. CASE PluginStep /\ UNCHANGED <<pipeline, command, loop, changed>>
    BY <1>0, <2>7 DEF Proceeds
  <2> QED BY <1>4, <2>1, <2>2, <2>3, <2>4, <2>5, <2>6, <2>7 DEF Stream, StreamStep, LoopStep
<1>5. CASE Threads(ValidatorStep) \/ Threads(WriterStep) \/ Threads(Others)
  BY <1>0, <1>5 DEF Threads, ThreadStep
<1> QED BY <1>1, <1>2, <1>3, <1>4, <1>5 DEF Next

\* Counts are integers.
LEMMA CountType == \A s \in Queue : Count(s) \in Int
BY DEF Queue, Count

\* The numbers CountInv adds up
LEMMA Numbers ==
  ASSUME PipelineType
  PROVE  /\ Count(vq) \in Int /\ Count(vb) \in Int /\ Count(wq) \in Int /\ Count(wb) \in Int
         /\ PushCount \in Int /\ Len(input) \in Nat /\ Len(proc) \in Nat /\ numLive \in Int
         /\ totals.processed \in Int /\ totals.written \in Int /\ totals.rejected \in Int
         /\ totals.dups \in Int /\ Waiting \in Int /\ Accounted \in Int
<1>1. Count(vq) \in Int /\ Count(vb) \in Int /\ Count(wq) \in Int /\ Count(wb) \in Int
  BY CountType DEF PipelineType, QueueType
<1>2. Len(input) \in Nat /\ Len(proc) \in Nat
  BY DEF PipelineType, QueueType
<1>3. PushCount \in Int
  BY DEF PushCount
<1>4. /\ totals.processed \in Int /\ totals.written \in Int /\ totals.rejected \in Int
      /\ totals.dups \in Int /\ numLive \in Int
  BY DEF PipelineType, NumType, Totals
<1>5. Waiting \in Int
  BY <1>1, <1>3 DEF Waiting
<1>6. Accounted \in Int
  BY <1>4 DEF Accounted
<1> QED BY <1>1, <1>2, <1>3, <1>4, <1>5, <1>6

\* By how much a step changes the counters, and what they count
Delta(di, dl, da, dp) ==
  /\ totals'.processed = totals.processed + di /\ Len(input') = Len(input) + di
  /\ numLive' = numLive + dl /\ Waiting' = Waiting + dl
  /\ Accounted' = Accounted + da
  /\ Len(proc') = Len(proc) + dp

\* numLive keeps pace with what is read, refused and written.
LEMMA Balanced ==
  ASSUME PipelineType, CountInv, NEW di \in Int, NEW dl \in Int, NEW da \in Int, NEW dp \in Int,
         Delta(di, dl, da, dp), di = da + dl + dp
  PROVE  CountInv'
<1>1. /\ Len(input) \in Nat /\ Len(proc) \in Nat /\ numLive \in Int
      /\ totals.processed \in Int /\ Waiting \in Int /\ Accounted \in Int
  BY Numbers
<1>2. numLive = Waiting /\ totals.processed = Len(input)
  BY DEF CountInv
<1>3. totals.processed = Accounted + numLive + Len(proc)
  BY DEF CountInv
<1>4. numLive' = Waiting' /\ totals'.processed = Len(input')
  BY <1>1, <1>2 DEF Delta
<1>5. totals'.processed = Accounted' + numLive' + Len(proc')
  BY <1>1, <1>3 DEF Delta
<1> QED BY <1>4, <1>5 DEF CountInv

\* An event appended to the input.
LEMMA ElemsAppend ==
  ASSUME NEW s \in Seq(Events), NEW ev \in Events
  PROVE  /\ Append(s, ev) \in Seq(Events) /\ Append(s, ev) # <<>>
         /\ Len(Append(s, ev)) = Len(s) + 1
         /\ Append(s, ev)[Len(Append(s, ev))] = ev
         /\ Elems(Append(s, ev)) = Elems(s) \cup {ev}
<1> DEFINE t == Append(s, ev)
<1>1. t \in Seq(Events) /\ t # <<>> /\ Len(t) = Len(s) + 1 /\ t[Len(t)] = ev /\ Len(t) \in DOMAIN t
  OBVIOUS
<1>2. \A i \in DOMAIN s : i \in DOMAIN t /\ t[i] = s[i]
  OBVIOUS
<1>3. \A i \in DOMAIN t : i \in DOMAIN s \/ i = Len(t)
  OBVIOUS
<1> HIDE DEF t
<1>4. Elems(t) \subseteq Elems(s) \cup {ev}
  BY <1>1, <1>2, <1>3 DEF Elems
<1>5. Elems(s) \cup {ev} \subseteq Elems(t)
  BY <1>1, <1>2 DEF Elems
<1>6. Elems(t) = Elems(s) \cup {ev}
  BY <1>4, <1>5
<1> QED BY <1>1, <1>6 DEF t

\* The pipeline is empty at first.
LEMMA PipelineStart == Init => PipelineInv
<1> SUFFICES ASSUME Init PROVE PipelineInv
  OBVIOUS
<1>1. PICK stored : PipelineInit(stored)
  BY DEF Init, ImportInit, SyncInit, StreamInit
<1>2. status \in {"start", "run"}
  BY DEF Init, ImportInit, SyncInit, StreamInit
<1>3. /\ input = <<>> /\ vq = <<>> /\ vb = <<>> /\ wq = <<>> /\ wb = <<>> /\ proc = <<>>
      /\ vpc = "wait" /\ wpc = "wait" /\ call = "" /\ snapshot = {} /\ flushInbox = <<>>
  BY <1>1 DEF PipelineInit
<1>4. numLive = 0 /\ totals = [processed |-> 0, written |-> 0, rejected |-> 0, dups |-> 0]
  BY <1>1 DEF PipelineInit
<1>5. PipelineType
  <2>1. totals \in Totals
    BY <1>4 DEF Totals
  <2>2. <<>> \in Seq(Events)
    OBVIOUS
  <2>3. vq \in Queue /\ vb \in Queue /\ wq \in Queue /\ wb \in Queue
    BY <1>3, QueueEmpty
  <2>4. input \in Seq(Events) /\ proc \in Seq(Events)
    BY <1>3, <2>2
  <2>5. PcType
    BY <1>3 DEF PcType
  <2>6. call # "push"
    BY <1>3
  <2>7. NumType
    BY <1>4, <2>1 DEF NumType
  <2> QED BY <2>3, <2>4, <2>5, <2>6, <2>7 DEF PipelineType, QueueType
<1>6. NullInv
  BY <1>1, <1>2, QueueEmpty DEF PipelineInit, NullInv
<1>7. EventsInv
  <2>1. Elems(<<>>) = {}
    BY DEF Elems
  <2> QED BY <1>3, <2>1, QueueEmpty DEF EventsInv
<1>8. CountInv
  <2>1. totals.processed = 0 /\ totals.written = 0 /\ totals.rejected = 0 /\ totals.dups = 0
    BY <1>4
  <2>2. Count(vq) = 0 /\ Count(vb) = 0 /\ Count(wq) = 0 /\ Count(wb) = 0
    BY <1>3, QueueEmpty
  <2>3. Len(input) = 0 /\ Len(proc) = 0
    BY <1>3
  <2>4. PushCount = 0
    BY <1>3 DEF PushCount
  <2>5. numLive = 0
    BY <1>4
  <2>6. Waiting = 0 /\ Accounted = 0
    BY <2>1, <2>2, <2>4 DEF Waiting, Accounted
  <2> QED BY <2>1, <2>3, <2>5, <2>6 DEF CountInv
<1> QED BY <1>5, <1>6, <1>7, <1>8 DEF PipelineInv

\* The command goes on, or looks at the database: the pipeline is as it was.
LEMMA ProceedsKeeps ==
  ASSUME PhaseInv, PipelineInv, cmd' = cmd,
         Proceeds \/ (ScanFresh /\ status' = status)
  PROVE  PipelineInv'
<1> USE DEF PipelineInv, pipeline, main, validator, writer, store
<1>1. /\ UNCHANGED <<call, input, vq, vpc, vb, wq, wpc, wb, snapshot, proc, shutdownComplete,
                     flushInbox, shutdownRequested, numLive, db, removed, totals, Fried>>
      /\ \/ status' = status
         \/ status \in {"start", "run"} /\ call = "" /\ status' \in {"run", "exit0", "exit1", "0", "1"}
         \/ status = "join" /\ status' = "0"
  BY DEF Proceeds, ScanFresh, Fried
<1>2. PipelineType'
  BY <1>1 DEF PipelineType, PcType, QueueType, NumType
<1>3. NullInv'
  BY <1>1 DEF NullInv, Open, FlushedTwice
<1>4. EventsInv'
  BY <1>1 DEF EventsInv, Settled, Held, Pushed
<1>5. CountInv'
  BY <1>1 DEF CountInv, PushCount, Waiting, Accounted
<1> QED BY <1>2, <1>3, <1>4, <1>5

\* write(): the event is counted, then queued.
LEMMA WriteCountKeeps ==
  ASSUME PipelineInv, cmd' = cmd, NEW ev \in Events, WriteCount(ev), status = "run", status' = "run"
  PROVE  PipelineInv'
<1> USE DEF PipelineInv, pipeline, main, validator, writer, store
<1>1. UNCHANGED <<vq, vpc, vb, wq, wpc, wb, snapshot, proc, shutdownComplete,
                  flushInbox, shutdownRequested, db, removed, Fried>>
  BY DEF WriteCount, Fried
<1>2. call = "" /\ call' = "push" /\ input' = Append(input, ev)
  BY DEF WriteCount
<1> USE DEF PipelineType
<1>3. /\ input' \in Seq(Events) /\ input' # <<>> /\ Len(input') = Len(input) + 1
      /\ input'[Len(input')] = ev /\ Elems(input') = Elems(input) \cup {ev}
  BY <1>2, ElemsAppend DEF QueueType
<1>4. PcType' /\ QueueType'
  BY <1>1, <1>2, <1>3 DEF PcType, QueueType
<1>5. NullInv'
  BY <1>1, <1>2 DEF NullInv, Open, FlushedTwice
<1>6. EventsInv'
  <2>1. Pushed' = {ev} /\ Pushed = {}
    BY <1>2, <1>3 DEF Pushed
  <2> QED BY <1>1, <1>3, <2>1 DEF EventsInv, Settled, Held
<1>7. numLive' = numLive + 1 /\ totals' = [totals EXCEPT !.processed = @ + 1]
  BY DEF WriteCount
<1>8. NumType'
  BY <1>7 DEF NumType, Totals
<1>9. CountInv'
  <2>1. /\ totals'.processed = totals.processed + 1 /\ totals'.written = totals.written
        /\ totals'.rejected = totals.rejected /\ totals'.dups = totals.dups
    BY <1>7 DEF NumType, Totals
  <2>2. /\ Count(vq)' = Count(vq) /\ Count(vb)' = Count(vb) /\ Count(wq)' = Count(wq)
        /\ Count(wb)' = Count(wb) /\ Len(proc)' = Len(proc)
    BY <1>1
  <2>3. PushCount = 0 /\ PushCount' = 1
    BY <1>2 DEF PushCount
  <2>4. Len(input)' = Len(input) + 1 /\ numLive' = numLive + 1
    BY <1>3, <1>7
  <2>5. Waiting' = Waiting + 1
    BY <2>2, <2>3, Numbers DEF Waiting
  <2>6. Accounted' = Accounted
    BY <2>1 DEF Accounted
  <2>7. Delta(1, 1, 0, 0)
    BY <2>1, <2>2, <2>4, <2>5, <2>6, Numbers DEF Delta
  <2> QED BY <2>7, Balanced
<1> QED BY <1>4, <1>5, <1>6, <1>8, <1>9

\* A step that leaves totals, queues and numLive alone keeps the count.
LEMMA Quiet ==
  ASSUME CountInv, UNCHANGED <<totals, input, proc, numLive>>, Waiting' = Waiting
  PROVE  CountInv'
BY DEF CountInv, Accounted

\* Before flush() is called the null is nowhere.
LEMMA OpenNoNull ==
  ASSUME NullInv, Open
  PROVE  /\ ~HasNull(vq) /\ ~HasNull(vb) /\ ~HasNull(wq) /\ ~HasNull(wb) /\ ~shutdownComplete
         /\ vpc \notin {"null", "exit"}
BY QueueNull DEF NullInv

\* When flush() may return the null has been through both threads.
LEMMA FlushedDone ==
  ASSUME NullInv, flushInbox # <<>>
  PROVE  /\ wpc = "exit" /\ vpc = "exit" /\ vb = <<Null>> /\ wq = <<>> /\ wb = <<>> /\ proc = <<>>
         /\ HasNull(vb) /\ (vq = <<>> \/ (vq = <<Null>> /\ FlushedTwice)) /\ ~Open
BY QueueNull DEF NullInv

\* write pushes the event that numLive already counts.
LEMMA WritePushKeeps ==
  ASSUME PhaseInv, PipelineInv, cmd' = cmd, WritePush(Fried), status = "run",
         status' \in {"run", "exit0", "exit1", "0", "1"}
  PROVE  PipelineInv'
<1> USE DEF PipelineInv, PipelineType, pipeline, main, validator, writer, store
<1> DEFINE e == input[Len(input)]
<1>1. UNCHANGED <<input, vpc, vb, wpc, wb, snapshot, proc, shutdownComplete,
                  flushInbox, shutdownRequested, numLive, db, removed, totals, Fried>>
  BY DEF WritePush, Fried
<1>2. call = "push" /\ call' = ""
      /\ IF Fried THEN wq' = Append(wq, e) /\ vq' = vq ELSE vq' = Append(vq, e) /\ wq' = wq
  BY DEF WritePush
<1>3. e \in Events
  <2>1. input \in Seq(Events) /\ input # <<>>
    BY <1>2 DEF QueueType
  <2> QED BY ONLY <2>1
<1>4. Open /\ Pushed = {e} /\ Pushed' = {}
  BY <1>2 DEF Open, Pushed
<1>5. /\ ~HasNull(vq) /\ ~HasNull(vb) /\ ~HasNull(wq) /\ ~HasNull(wb) /\ ~shutdownComplete
      /\ vpc \notin {"null", "exit"}
  BY <1>4, OpenNoNull
<1>6. PushCount = 1 /\ PushCount' = 0
  BY <1>2 DEF PushCount
<1> HIDE DEF e
<1>7. CASE Fried
  <2>1. /\ wq' \in Queue /\ ~HasNull(wq') /\ Items(wq') = Items(wq) \cup {e}
        /\ Count(wq') = Count(wq) + 1 /\ vq' = vq
    BY <1>2, <1>3, <1>5, <1>7, QueueAppend DEF QueueType
  <2>2. PipelineType'
    BY <1>1, <1>2, <2>1 DEF PcType, QueueType, NumType
  <2>3. NullInv'
    BY <1>1, <1>2, <1>5, <2>1 DEF NullInv, Open
  <2>4. EventsInv'
    BY <1>1, <1>4, <2>1 DEF EventsInv, Settled, Held
  <2>5. Waiting' = Waiting
    BY <1>1, <1>6, <2>1, Numbers DEF Waiting
  <2> QED BY <1>1, <2>2, <2>3, <2>4, <2>5, Quiet
<1>8. CASE ~Fried
  <2>1. /\ vq' \in Queue /\ ~HasNull(vq') /\ Items(vq') = Items(vq) \cup {e}
        /\ Count(vq') = Count(vq) + 1 /\ wq' = wq
    BY <1>2, <1>3, <1>5, <1>8, QueueAppend DEF QueueType
  <2>2. PipelineType'
    BY <1>1, <1>2, <2>1 DEF PcType, QueueType, NumType
  <2>3. NullInv'
    BY <1>1, <1>2, <1>5, <2>1 DEF NullInv, Open
  <2>4. EventsInv'
    BY <1>1, <1>4, <1>8, <2>1 DEF EventsInv, Settled, Held
  <2>5. Waiting' = Waiting
    BY <1>1, <1>6, <2>1, Numbers DEF Waiting
  <2> QED BY <1>1, <2>2, <2>3, <2>4, <2>5, Quiet
<1> QED BY <1>7, <1>8

\* flush(): the null is queued behind everything.
LEMMA FlushPushKeeps ==
  ASSUME PipelineInv, cmd' = cmd, FlushPush,
         \/ status = "run" /\ status' = "flush"
         \/ status \in {"destroy", "exit0", "exit1"} /\ status' = status
  PROVE  PipelineInv'
<1> USE DEF PipelineInv, PipelineType, pipeline, main, validator, writer, store
<1>1. UNCHANGED <<input, vpc, vb, wq, wpc, wb, snapshot, proc, shutdownComplete,
                  flushInbox, shutdownRequested, numLive, db, removed, totals, Fried>>
  BY DEF FlushPush, Fried
<1>2. call = "" /\ call' = "wait" /\ vq' = Append(vq, Null)
  BY DEF FlushPush
<1>3. ~HasNull(vq) /\ (status # "destroy" => ~HasNull(vb)) /\ (status = "destroy" => vq = <<>>)
  <2>1. CASE status = "destroy"
    BY <1>2, <2>1, QueueEmpty DEF NullInv
  <2>2. CASE status # "destroy"
    <3>1. Open
      BY <1>2, <2>2 DEF Open
    <3> QED BY <2>2, <3>1, OpenNoNull
  <2> QED BY <2>1, <2>2
<1>4. /\ vq' \in Queue /\ HasNull(vq') /\ Items(vq') = Items(vq) /\ Count(vq') = Count(vq)
  BY <1>2, <1>3, QueueAppendNull DEF QueueType
<1>5. status = "destroy" => vq' = <<Null>>
  <2>1. Append(<<>>, Null) = <<Null>>
    OBVIOUS
  <2> QED BY <1>2, <1>3, <2>1, Zenon
<1>6. PipelineType'
  BY <1>1, <1>2, <1>4 DEF PcType, QueueType, NumType
<1>7. NullInv'
  BY <1>1, <1>2, <1>3, <1>4, <1>5 DEF NullInv, Open, FlushedTwice
<1>8. EventsInv'
  BY <1>1, <1>2, <1>4 DEF EventsInv, Settled, Held, Pushed
<1>9. Waiting' = Waiting
  BY <1>1, <1>2, <1>4 DEF Waiting, PushCount
<1> QED BY <1>1, <1>6, <1>7, <1>8, <1>9, Quiet

\* flush returns, and the destructor goes on to its next phase.
LEMMA FlushWaitKeeps ==
  ASSUME PipelineInv, cmd' = cmd, FlushWait,
         \/ status = "flush" /\ status' = "destroy"
         \/ status = "destroy" /\ status' = "join"
         \/ status \in {"exit0", "exit1"} /\ status' \in {"0", "1"}
  PROVE  PipelineInv'
<1> USE DEF PipelineInv, PipelineType, pipeline, main, validator, writer, store
<1>1. UNCHANGED <<input, vq, vpc, vb, wq, wpc, wb, snapshot, proc, shutdownComplete,
                  flushInbox, shutdownRequested, numLive, db, removed, totals, Fried>>
  BY DEF FlushWait, Fried
<1>2. call = "wait" /\ call' = "" /\ flushInbox # <<>>
  BY DEF FlushWait
<1>3. HasNull(vb) /\ (vq = <<>> \/ (vq = <<Null>> /\ FlushedTwice))
  BY <1>2, FlushedDone
<1>4. PipelineType'
  BY <1>1, <1>2 DEF PcType, QueueType, NumType
<1>5. NullInv'
  BY <1>1, <1>2, <1>3 DEF NullInv, Open, FlushedTwice
<1>6. EventsInv'
  BY <1>1, <1>2 DEF EventsInv, Settled, Held, Pushed
<1>7. Waiting' = Waiting
  BY <1>1, <1>2 DEF Waiting, PushCount
<1> QED BY <1>1, <1>4, <1>5, <1>6, <1>7, Quiet

\* The Validator.
LEMMA ValidatorPopKeeps ==
  ASSUME PipelineInv, cmd' = cmd, status' = status, ValidatorPop
  PROVE  PipelineInv'
<1> USE DEF PipelineInv, PipelineType, main, validator, writer, store
<1>1. UNCHANGED <<call, input, wq, wpc, wb, snapshot, proc, shutdownComplete,
                  flushInbox, numLive, db, removed, totals, Fried>>
  BY DEF ValidatorPop, Fried
<1>2. vpc = "wait" /\ vpc' = "run" /\ vq # <<>> /\ vb' = vq /\ vq' = <<>>
  BY DEF ValidatorPop
<1>3. vb = <<>>
  BY <1>2 DEF NullInv
<1>4. PipelineType'
  BY <1>1, <1>2, QueueEmpty DEF PcType, QueueType, NumType
<1>5. NullInv'
  BY <1>1, <1>2, QueueEmpty DEF NullInv, Open
<1>6. EventsInv'
  BY <1>1, <1>2, <1>3, QueueEmpty DEF EventsInv, Settled, Held, Pushed
<1>7. Waiting' = Waiting
  <2>1. Count(vb) = 0 /\ Count(vq') = 0 /\ Count(vb') = Count(vq)
    BY <1>2, <1>3, QueueEmpty
  <2>2. PushCount' = PushCount /\ Count(wq') = Count(wq) /\ Count(wb') = Count(wb)
    BY <1>1 DEF PushCount
  <2> QED BY <2>1, <2>2, Numbers DEF Waiting
<1> QED BY <1>1, <1>4, <1>5, <1>6, <1>7, Quiet

\* The head of vb, when it is an event
LEMMA ValidatorHead ==
  ASSUME PipelineInv, vpc = "run", Head(vb) # Null, ValidatorNext
  PROVE  /\ Head(vb) \in Events /\ vb' \in Queue /\ (HasNull(vb') <=> HasNull(vb))
         /\ Items(vb) = Items(vb') \cup {Head(vb)} /\ Count(vb') = Count(vb) - 1
         /\ vpc' \in {"wait", "run"} /\ (vpc' = "wait" <=> vb' = <<>>)
<1> USE DEF PipelineInv, PipelineType
<1>1. vb \in Queue /\ vb # <<>>
  BY DEF NullInv, QueueType
<1>2. /\ Head(vb) \in Events
      /\ Tail(vb) \in Queue /\ (HasNull(Tail(vb)) <=> HasNull(vb))
      /\ Items(vb) = Items(Tail(vb)) \cup {Head(vb)}
      /\ Count(Tail(vb)) = Count(vb) - 1
      /\ Len(vb) = 1 <=> Tail(vb) = <<>>
  BY <1>1, QueueTail
<1>3. vb' = Tail(vb) /\ vpc' = IF Len(vb) = 1 THEN "wait" ELSE "run"
  BY DEF ValidatorNext
<1> QED BY <1>2, <1>3

\* The validator refuses an event and takes it off numLive.
LEMMA ValidatorRejectKeeps ==
  ASSUME PipelineInv, cmd' = cmd, status' = status, ValidatorReject
  PROVE  PipelineInv'
<1> USE DEF PipelineInv, PipelineType, main, validator, writer, store
<1>1. UNCHANGED <<call, input, vq, wq, wpc, wb, snapshot, proc, shutdownComplete,
                  flushInbox, db, removed, Fried>>
  BY DEF ValidatorReject, Fried
<1>2. vpc = "run" /\ Head(vb) \in Invalid
  BY DEF ValidatorReject
<1>3. /\ Head(vb) \in Events /\ vb' \in Queue /\ (HasNull(vb') <=> HasNull(vb))
      /\ Items(vb) = Items(vb') \cup {Head(vb)} /\ Count(vb') = Count(vb) - 1
      /\ vpc' \in {"wait", "run"} /\ (vpc' = "wait" <=> vb' = <<>>)
  BY ValidatorHead DEF ValidatorReject
<1>4. numLive' = numLive - 1 /\ totals' = [totals EXCEPT !.rejected = @ + 1]
  BY DEF ValidatorReject
<1>5. PipelineType'
  <2>1. NumType'
    BY <1>4 DEF NumType, Totals
  <2> QED BY <1>1, <1>3, <2>1 DEF PcType, QueueType
<1>6. NullInv'
  BY <1>1, <1>2, <1>3 DEF NullInv, Open, FlushedTwice
<1>7. EventsInv'
  <2>1. ~Fried
    BY <1>3 DEF EventsInv
  <2> QED BY <1>1, <1>2, <1>3, <2>1 DEF EventsInv, Settled, Held, Pushed
<1>8. CountInv'
  <2>1. /\ totals'.processed = totals.processed /\ totals'.written = totals.written
        /\ totals'.rejected = totals.rejected + 1 /\ totals'.dups = totals.dups
    BY <1>4 DEF NumType, Totals
  <2>2. PushCount' = PushCount /\ Count(vq') = Count(vq) /\ Count(wq') = Count(wq) /\ Count(wb') = Count(wb)
    BY <1>1 DEF PushCount
  <2>3. Waiting' = Waiting + (-1)
    <3>1. Count(vb') = Count(vb) - 1
      BY <1>3
    <3>2. /\ Count(vq) \in Int /\ Count(vb) \in Int /\ Count(wq) \in Int /\ Count(wb) \in Int
          /\ PushCount \in Int
      BY Numbers
    <3> QED BY ONLY <2>2, <3>1, <3>2 DEF Waiting
  <2>4. Accounted' = Accounted + 1
    <3>1. totals.written \in Int /\ totals.rejected \in Int /\ totals.dups \in Int
      BY Numbers
    <3> QED BY ONLY <2>1, <3>1 DEF Accounted
  <2>5. Len(input') = Len(input) /\ Len(proc') = Len(proc)
    BY <1>1
  <2>6. Delta(0, -1, 1, 0)
    BY <1>4, <2>1, <2>3, <2>4, <2>5, Numbers, SMTT(30) DEF Delta
  <2> QED BY <2>6, Balanced
<1> QED BY <1>5, <1>6, <1>7, <1>8

\* The validator hands an event to the writer thread.
LEMMA ValidatorPassKeeps ==
  ASSUME PipelineInv, cmd' = cmd, status' = status, ValidatorPass
  PROVE  PipelineInv'
<1> USE DEF PipelineInv, PipelineType, main, validator, writer, store
<1>1. UNCHANGED <<call, input, vq, wpc, wb, snapshot, proc, shutdownComplete,
                  flushInbox, numLive, totals, db, removed, Fried>>
  BY DEF ValidatorPass, Fried
<1>2. vpc = "run" /\ wq' = Append(wq, Head(vb))
  BY DEF ValidatorPass
<1>3. /\ Head(vb) \in Events /\ vb' \in Queue /\ (HasNull(vb') <=> HasNull(vb))
      /\ Items(vb) = Items(vb') \cup {Head(vb)} /\ Count(vb') = Count(vb) - 1
      /\ vpc' \in {"wait", "run"} /\ (vpc' = "wait" <=> vb' = <<>>)
  BY ValidatorHead DEF ValidatorPass
<1>4. ~HasNull(wq) /\ ~HasNull(wb) /\ ~shutdownComplete
  BY <1>2 DEF NullInv
<1>5. /\ wq' \in Queue /\ ~HasNull(wq') /\ Items(wq') = Items(wq) \cup {Head(vb)}
      /\ Count(wq') = Count(wq) + 1
  BY <1>2, <1>3, <1>4, QueueAppend DEF QueueType
<1>6. PipelineType'
  BY <1>1, <1>3, <1>5 DEF PcType, QueueType, NumType
<1>7. NullInv'
  BY <1>1, <1>2, <1>3, <1>4, <1>5 DEF NullInv, Open, FlushedTwice
<1>8. EventsInv'
  BY <1>1, <1>3, <1>5 DEF EventsInv, Settled, Held, Pushed
<1>9. Waiting' = Waiting
  <2>1. PushCount' = PushCount /\ Count(vq') = Count(vq) /\ Count(wb') = Count(wb)
    BY <1>1 DEF PushCount
  <2> QED BY <1>3, <1>5, <2>1, Numbers DEF Waiting
<1> QED BY <1>1, <1>6, <1>7, <1>8, <1>9, Quiet

\* The validator passes the shutdown on, in two steps.
LEMMA ValidatorNullKeeps ==
  ASSUME PipelineInv, cmd' = cmd, status' = status, ValidatorShutdown \/ ValidatorExit
  PROVE  PipelineInv'
<1> USE DEF PipelineInv, PipelineType, main, validator, writer, store
<1>1. UNCHANGED <<call, input, vq, vb, wpc, wb, snapshot, proc, shutdownComplete,
                  flushInbox, numLive, totals, db, removed, Fried>>
  BY DEF ValidatorShutdown, ValidatorExit, Fried
<1>2. vpc \in {"run", "null"} /\ vb = <<Null>>
  <2>1. CASE ValidatorShutdown
    BY <2>1, QueueHeadNull DEF ValidatorShutdown, NullInv, QueueType
  <2>2. CASE ValidatorExit
    BY <2>2 DEF ValidatorExit, NullInv
  <2> QED BY <2>1, <2>2
<1>3. ~HasNull(wq) /\ ~HasNull(wb) /\ ~shutdownComplete
  BY <1>2 DEF NullInv
<1>4. CASE ValidatorShutdown
  <2>1. vpc' = "null" /\ wq' = wq
    BY <1>4 DEF ValidatorShutdown
  <2>2. PipelineType'
    BY <1>1, <2>1 DEF PcType, QueueType, NumType
  <2>3. NullInv'
    BY <1>1, <1>2, <1>3, <2>1 DEF NullInv, Open, FlushedTwice
  <2>4. EventsInv'
    BY <1>1, <2>1 DEF EventsInv, Settled, Held, Pushed
  <2>5. Waiting' = Waiting
    BY <1>1, <2>1 DEF Waiting, PushCount
  <2> QED BY <1>1, <2>2, <2>3, <2>4, <2>5, Quiet
<1>5. CASE ValidatorExit
  <2>1. vpc' = "exit" /\ wq' = Append(wq, Null)
    BY <1>5 DEF ValidatorExit
  <2>2. wq' \in Queue /\ HasNull(wq') /\ Items(wq') = Items(wq) /\ Count(wq') = Count(wq)
    BY <1>3, <2>1, QueueAppendNull DEF QueueType
  <2>3. PipelineType'
    BY <1>1, <2>1, <2>2 DEF PcType, QueueType, NumType
  <2>4. NullInv'
    BY <1>1, <1>2, <1>3, <2>1 DEF NullInv, Open, FlushedTwice
  <2>5. EventsInv'
    BY <1>1, <2>2 DEF EventsInv, Settled, Held, Pushed
  <2>6. Waiting' = Waiting
    BY <1>1, <2>2 DEF Waiting, PushCount
  <2> QED BY <1>1, <2>3, <2>4, <2>5, <2>6, Quiet
<1> QED BY <1>4, <1>5

\* The Writer.
LEMMA WriterWaitKeeps ==
  ASSUME PipelineInv, cmd' = cmd, status' = status, WriterWait \/ BatchTaken
  PROVE  PipelineInv'
<1> USE DEF PipelineInv, PipelineType, main, validator, writer, store
<1>1. UNCHANGED <<call, input, vq, vpc, vb, wq, wb, snapshot, proc, shutdownComplete,
                  flushInbox, numLive, totals, db, removed, Fried>>
  BY DEF WriterWait, BatchTaken, Fried
<1>2. \/ wpc = "wait" /\ wpc' \in {"debounce", "pop"}
      \/ wpc = "batch" /\ wb = <<>> /\ wpc' = "commit"
  BY DEF WriterWait, BatchTaken
<1>3. PipelineType'
  BY <1>1, <1>2 DEF PcType, QueueType, NumType
<1>4. NullInv'
  BY <1>1, <1>2 DEF NullInv, Open, FlushedTwice
<1>5. EventsInv'
  BY <1>1 DEF EventsInv, Settled, Held, Pushed
<1>6. Waiting' = Waiting
  BY <1>1 DEF Waiting, PushCount
<1> QED BY <1>1, <1>3, <1>4, <1>5, <1>6, Quiet

\* The writer thread takes a batch and puts the rest back.
LEMMA WriterPopKeeps ==
  ASSUME PipelineInv, cmd' = cmd, status' = status, WriterPop
  PROVE  PipelineInv'
<1> USE DEF PipelineInv, PipelineType, main, validator, writer, store
<1>1. UNCHANGED <<call, input, vq, vpc, vb, shutdownComplete,
                  flushInbox, numLive, totals, db, removed, Fried>>
  BY DEF WriterPop, Fried
<1>2. wpc \in {"debounce", "pop"} /\ wpc' = "batch" /\ wb' = wq /\ wq' = <<>> /\ snapshot' = db
      /\ proc' = <<>>
  BY DEF WriterPop
<1>3. wb = <<>> /\ proc = <<>> /\ ~shutdownComplete /\ flushInbox = <<>>
  BY <1>2 DEF NullInv
<1>4. PipelineType'
  BY <1>1, <1>2, <1>3, QueueEmpty DEF PcType, QueueType, NumType
<1>5. NullInv'
  BY <1>1, <1>2, <1>3, QueueEmpty DEF NullInv, Open, FlushedTwice
<1>6. EventsInv'
  BY <1>1, <1>2, <1>3, QueueEmpty DEF EventsInv, Settled, Held, Pushed
<1>7. Waiting' = Waiting
  <2>1. Count(wb) = 0 /\ Count(wq') = 0 /\ Count(wb') = Count(wq)
    BY <1>2, <1>3, QueueEmpty
  <2>2. PushCount' = PushCount /\ Count(vq') = Count(vq) /\ Count(vb') = Count(vb)
    BY <1>1 DEF PushCount
  <2> QED BY <2>1, <2>2, Numbers DEF Waiting
<1>8. proc' = proc
  BY <1>2, <1>3
<1> QED BY <1>1, <1>4, <1>5, <1>6, <1>7, <1>8, Quiet

\* The batch is full: the rest goes back in front, the null with it.
LEMMA PutBackKeeps ==
  ASSUME PipelineInv, cmd' = cmd, status' = status, PutBack
  PROVE  PipelineInv'
<1> USE DEF PipelineInv, PipelineType, main, validator, writer, store
<1>1. UNCHANGED <<call, input, vq, vpc, vb, snapshot, proc, shutdownComplete,
                  flushInbox, numLive, totals, db, removed, Fried>>
  BY DEF PutBack, Fried
<1>2. wpc = "batch" /\ wpc' = "commit" /\ wb' = <<>> /\ wq' = wb \o wq
  BY DEF PutBack
<1>3. ~shutdownComplete /\ flushInbox = <<>>
  BY <1>2 DEF NullInv
<1>4. /\ wq' \in Queue /\ (HasNull(wq') => HasNull(wb) \/ HasNull(wq))
      /\ Items(wq') = Items(wb) \cup Items(wq) /\ Count(wq') = Count(wb) + Count(wq)
  <2>1. CASE HasNull(wb)
    <3>1. wq = <<>>
      BY <2>1 DEF NullInv
    <3>2. wb \in Seq(Entries)
      BY DEF QueueType, Queue
    <3>3. wb \o <<>> = wb
      BY <3>2
    <3>4. wq' = wb
      BY <1>2, <3>1, <3>3
    <3> QED BY <3>1, <3>4, QueueEmpty, CountType DEF QueueType
  <2>2. CASE ~HasNull(wb)
    BY <1>2, <2>2, QueueConcat DEF QueueType
  <2> QED BY <2>1, <2>2
<1>5. PipelineType'
  BY <1>1, <1>2, <1>4, QueueEmpty DEF PcType, QueueType, NumType
<1>6. NullInv'
  BY <1>1, <1>2, <1>3, <1>4, QueueEmpty DEF NullInv, Open, FlushedTwice
<1>7. EventsInv'
  BY <1>1, <1>2, <1>4, QueueEmpty DEF EventsInv, Settled, Held, Pushed
<1>8. Waiting' = Waiting
  <2>1. Count(wb') = 0
    BY <1>2, QueueEmpty
  <2>2. PushCount' = PushCount /\ Count(vq') = Count(vq) /\ Count(vb') = Count(vb)
    BY <1>1 DEF PushCount
  <2> QED BY <1>4, <2>1, <2>2, Numbers DEF Waiting
<1> QED BY <1>1, <1>5, <1>6, <1>7, <1>8, Quiet

\* The null is the last of the batch, and nothing is left in the inbox.
LEMMA TakeNullKeeps ==
  ASSUME PipelineInv, cmd' = cmd, status' = status, TakeNull
  PROVE  PipelineInv'
<1> USE DEF PipelineInv, PipelineType, main, validator, writer, store
<1>1. UNCHANGED <<call, input, vq, vpc, vb, wq, snapshot, proc,
                  flushInbox, numLive, totals, db, removed, Fried>>
  BY DEF TakeNull, Fried
<1>2. wpc = "batch" /\ wpc' = "commit" /\ wb' = <<>> /\ shutdownComplete'
  BY DEF TakeNull
<1>3. wb = <<Null>>
  BY QueueHeadNull DEF TakeNull, QueueType
<1>4. wq = <<>> /\ vpc = "exit" /\ flushInbox = <<>>
  BY <1>2, <1>3, QueueNull DEF NullInv
<1>5. PipelineType'
  BY <1>1, <1>2, QueueEmpty DEF PcType, QueueType, NumType
<1>6. NullInv'
  BY <1>1, <1>2, <1>4, QueueEmpty DEF NullInv, Open, FlushedTwice
<1>7. EventsInv'
  BY <1>1, <1>2, <1>3, QueueEmpty, QueueNull DEF EventsInv, Settled, Held, Pushed
<1>8. Waiting' = Waiting
  BY <1>1, <1>2, <1>3, QueueEmpty, QueueNull DEF Waiting, PushCount
<1> QED BY <1>1, <1>5, <1>6, <1>7, <1>8, Quiet

\* An event of the batch: it is a duplicate, or to be written.
LEMMA TakeKeeps ==
  ASSUME PipelineInv, cmd' = cmd, status' = status, Take
  PROVE  PipelineInv'
<1> USE DEF PipelineInv, PipelineType, main, validator, writer, store
<1>1. UNCHANGED <<call, input, vq, vpc, vb, wq, wpc, snapshot, shutdownComplete,
                  flushInbox, db, removed, Fried>>
  BY DEF Take, Fried
<1>2. wpc = "batch" /\ wb # <<>> /\ Head(wb) # Null /\ wb' = Tail(wb)
  BY DEF Take
<1>3. /\ Head(wb) \in Events /\ wb' \in Queue /\ (HasNull(wb') <=> HasNull(wb))
      /\ Items(wb) = Items(wb') \cup {Head(wb)} /\ Count(wb') = Count(wb) - 1
  BY <1>2, QueueTail DEF QueueType
<1>4. ~shutdownComplete
  BY <1>2 DEF NullInv
<1>5. NullInv'
  BY <1>1, <1>2, <1>3, <1>4 DEF NullInv, Open, FlushedTwice
<1>6. numLive' = numLive - 1
  BY DEF Take
<1>7. Waiting' = Waiting + (-1)
  <2>1. Count(wb') = Count(wb) - 1
    BY <1>3
  <2>2. PushCount' = PushCount /\ Count(vq') = Count(vq) /\ Count(vb') = Count(vb) /\ Count(wq') = Count(wq)
    BY <1>1 DEF PushCount
  <2>3. /\ Count(vq) \in Int /\ Count(vb) \in Int /\ Count(wq) \in Int /\ Count(wb) \in Int
        /\ PushCount \in Int
    BY Numbers
  <2> QED BY ONLY <2>1, <2>2, <2>3 DEF Waiting
<1>8. CASE Head(wb) \in snapshot
  <2>1. totals' = [totals EXCEPT !.dups = @ + 1] /\ proc' = proc
    BY <1>8 DEF Take
  <2>2. NumType'
    BY <1>6, <2>1 DEF NumType, Totals
  <2>3. PipelineType'
    BY <1>1, <1>3, <2>1, <2>2 DEF PcType, QueueType
  <2>4. EventsInv'
    BY <1>1, <1>3, <1>8, <2>1 DEF EventsInv, Settled, Held, Pushed
  <2>5. /\ totals'.processed = totals.processed /\ totals'.written = totals.written
        /\ totals'.rejected = totals.rejected /\ totals'.dups = totals.dups + 1
    BY <2>1 DEF NumType, Totals
  <2>6. Accounted' = Accounted + 1
    <3>1. totals.written \in Int /\ totals.rejected \in Int /\ totals.dups \in Int
      BY Numbers
    <3> QED BY ONLY <2>5, <3>1 DEF Accounted
  <2>7. Len(input') = Len(input) /\ Len(proc') = Len(proc)
    BY <1>1, <2>1
  <2>8. Delta(0, -1, 1, 0)
    <3>1. totals.processed \in Int /\ Len(input) \in Nat /\ Len(proc) \in Nat /\ numLive \in Int
      BY Numbers
    <3> QED BY ONLY <1>6, <1>7, <2>5, <2>6, <2>7, <3>1 DEF Delta
  <2>9. CountInv'
    BY <2>8, Balanced
  <2> QED BY <1>5, <2>3, <2>4, <2>9
<1>9. CASE Head(wb) \notin snapshot
  <2>1. totals' = totals /\ proc' = Append(proc, Head(wb))
    BY <1>9 DEF Take
  <2>2. proc' \in Seq(Events) /\ Len(proc') = Len(proc) + 1 /\ Elems(proc') = Elems(proc) \cup {Head(wb)}
    BY <1>3, <2>1, ElemsAppend DEF QueueType
  <2>3. NumType'
    BY <1>6, <2>1 DEF NumType
  <2>4. PipelineType'
    BY <1>1, <1>3, <2>2, <2>3 DEF PcType, QueueType
  <2>5. EventsInv'
    BY <1>1, <1>3, <2>2 DEF EventsInv, Settled, Held, Pushed
  <2>6. totals'.processed = totals.processed /\ Accounted' = Accounted
    BY <2>1 DEF Accounted
  <2>7. Len(input') = Len(input)
    BY <1>1
  <2>8. Delta(0, -1, 0, 1)
    <3>1. totals.processed \in Int /\ Len(input) \in Nat /\ numLive \in Int /\ Accounted \in Int
      BY Numbers
    <3>2. Len(proc') = Len(proc) + 1
      BY <2>2
    <3> QED BY ONLY <1>6, <1>7, <2>6, <2>7, <3>1, <3>2 DEF Delta
  <2>9. CountInv'
    BY <2>8, Balanced
  <2> QED BY <1>5, <2>4, <2>5, <2>9
<1> QED BY <1>8, <1>9

\* What writeEvents is given is stored, or lost against a stored event.
LEMMA CommitKeeps ==
  ASSUME PipelineInv, cmd' = cmd, status' = status, Commit
  PROVE  PipelineInv'
<1> USE DEF PipelineInv, PipelineType, main, validator, writer, store
<1> DEFINE n == Cardinality(Written)
<1>1. UNCHANGED <<call, input, vq, vpc, vb, wq, wb, shutdownComplete, numLive, removed, Fried>>
  BY DEF Commit, Fried
<1>2. wpc = "commit" /\ db' = db \cup Written /\ proc' = <<>> /\ snapshot' = {}
  BY DEF Commit
<1>3. /\ flushInbox' = (IF shutdownComplete THEN Append(flushInbox, TRUE) ELSE flushInbox)
      /\ wpc' = (IF shutdownComplete THEN "exit" ELSE "wait")
  BY DEF Commit
<1>4. wb = <<>> /\ flushInbox = <<>>
  BY <1>2 DEF NullInv
<1>5. Elems(proc) \subseteq db' \cup Losing
  BY <1>2 DEF Written, Elems
<1>6. Elems(proc') = {} /\ <<>> \in Seq(Events) /\ Len(proc') = 0
  BY <1>2 DEF Elems
<1>7. n \in Nat
  <2>1. Written \subseteq Events
    BY DEF Written, QueueType
  <2> QED BY <2>1, EventsFinite
<1>8. Len(proc) \in Nat
  BY Numbers
<1>9. totals' = [totals EXCEPT !.written = @ + n, !.dups = @ + Len(proc) - n]
  BY DEF Commit
<1> HIDE DEF n
<1>10. /\ totals' \in Totals
       /\ totals'.processed = totals.processed /\ totals'.written = totals.written + n
       /\ totals'.rejected = totals.rejected /\ totals'.dups = totals.dups + Len(proc) - n
  <2> DEFINE w == totals.written + n
             d == totals.dups + Len(proc) - n
  <2>1. totals \in Totals
    BY DEF NumType
  <2>2. w \in Int /\ d \in Int
    <3>1. totals.written \in Int /\ totals.dups \in Int
      BY Numbers
    <3> QED BY ONLY <1>7, <1>8, <3>1
  <2>3. totals' = [totals EXCEPT !.written = w, !.dups = d]
    BY <1>9
  <2> HIDE DEF w, d
  <2>4. totals' \in Totals /\ totals'.processed = totals.processed /\ totals'.written = w
        /\ totals'.rejected = totals.rejected /\ totals'.dups = d
    BY ONLY <2>1, <2>2, <2>3 DEF Totals
  <2> QED BY <2>4 DEF w, d
<1>11. PipelineType'
  <2>1. NumType'
    BY <1>1, <1>10 DEF NumType
  <2>2. PcType'
    BY <1>1, <1>3 DEF PcType
  <2>3. QueueType'
    BY <1>1, <1>2, <1>6 DEF QueueType
  <2> QED BY <2>1, <2>2, <2>3
<1>12. NullInv'
  <2>1. flushInbox' # <<>> => shutdownComplete
    BY <1>3, <1>4
  <2>2. CASE shutdownComplete
    BY <1>1, <1>2, <1>3, <1>4, <2>1, <2>2 DEF NullInv, Open, FlushedTwice
  <2>3. CASE ~shutdownComplete
    BY <1>1, <1>2, <1>3, <1>4, <2>1, <2>3 DEF NullInv, Open, FlushedTwice
  <2> QED BY <2>2, <2>3
<1>13. EventsInv'
  <2>1. Settled \subseteq Settled' /\ Losing \subseteq Settled' /\ db' \subseteq Settled'
    BY <1>1, <1>2 DEF Settled
  <2>2. Held \subseteq Held' \cup Elems(proc)
    BY <1>1 DEF Held, Pushed
  <2> QED BY <1>1, <1>2, <1>5, <2>1, <2>2 DEF EventsInv
<1>14. CountInv'
  <2>1. Accounted' = Accounted + Len(proc)
    <3>1. totals.written \in Int /\ totals.rejected \in Int /\ totals.dups \in Int
      BY Numbers
    <3>2. /\ totals'.written = totals.written + n
          /\ totals'.rejected = totals.rejected /\ totals'.dups = totals.dups + Len(proc) - n
      BY <1>10
    <3> QED BY ONLY <1>7, <1>8, <3>1, <3>2 DEF Accounted
  <2>2. Waiting' = Waiting
    BY <1>1 DEF Waiting, PushCount
  <2>3. Len(input') = Len(input)
    BY <1>1
  <2>4. Delta(0, 0, Len(proc), 0 - Len(proc))
    BY <1>1, <1>6, <1>8, <1>10, <2>1, <2>2, <2>3, Numbers, SMTT(30) DEF Delta
  <2>5. Len(proc) \in Int /\ 0 - Len(proc) \in Int /\ 0 = Len(proc) + 0 + (0 - Len(proc))
    BY <1>8
  <2> QED BY <2>4, <2>5, Balanced
<1> QED BY <1>11, <1>12, <1>13, <1>14

\* Another process changes the database.
LEMMA OthersKeep ==
  ASSUME PipelineInv, cmd' = cmd, status' = status, Others
  PROVE  PipelineInv'
<1> USE DEF PipelineInv, PipelineType, main, validator, writer, store
<1>1. UNCHANGED <<call, input, vq, vpc, vb, wq, wpc, wb, snapshot, proc, shutdownComplete,
                  flushInbox, numLive, totals, Fried>>
  BY DEF Others, OtherWrites, OtherRemoves, Fried
<1>2. db \cup removed \subseteq db' \cup removed'
  BY DEF Others, OtherWrites, OtherRemoves
<1>3. PipelineType'
  BY <1>1 DEF PcType, QueueType, NumType
<1>4. NullInv'
  BY <1>1 DEF NullInv, Open, FlushedTwice
<1>5. EventsInv'
  BY <1>1, <1>2 DEF EventsInv, Settled, Held, Pushed
<1>6. Waiting' = Waiting
  BY <1>1 DEF Waiting, PushCount
<1> QED BY <1>1, <1>3, <1>4, <1>5, <1>6, Quiet

\* PipelineInv is inductive, given the invariants of the commands.
LEMMA PipelineKept ==
  ASSUME PhaseInv, PolicyInv, SyncInv, TodoInv, PipelineInv, [Next]_vars
  PROVE  PipelineInv'
<1>1. (Calls \/ Proceeds \/ ThreadStep) /\ cmd' = cmd
  BY PipelineSteps
<1>2. CASE Calls
  BY <1>1, <1>2, WriteCountKeeps, WritePushKeeps, FlushPushKeeps, FlushWaitKeeps, ProceedsKeeps DEF Calls
<1>3. CASE Proceeds
  BY <1>1, <1>3, ProceedsKeeps
<1>4. CASE ThreadStep
  BY <1>1, <1>4, ValidatorPopKeeps, ValidatorRejectKeeps, ValidatorPassKeeps, ValidatorNullKeeps,
     WriterWaitKeeps, WriterPopKeeps, PutBackKeeps, TakeNullKeeps, TakeKeeps, CommitKeeps, OthersKeep
     DEF ThreadStep, ValidatorStep, WriterStep
<1> QED BY <1>1, <1>2, <1>3, <1>4

\* When flush() has returned every event given to write() is stored, refused,
\* lost or removed since, each was counted once, and nothing is live: for any
\* batch size, input and interleaving of the threads.  The null passes through
\* both queues behind every event, and what the Writer puts back keeps its
\* place before it.
THEOREM FlushedMeansStoredTheorem == Spec => []FlushedMeansStored
<1>1. PhaseInv /\ PipelineInv => FlushedMeansStored
  <2> SUFFICES ASSUME PhaseInv, PipelineInv,
                      status \in {"destroy", "join"} \/ (Ended /\ flushInbox # <<>>)
               PROVE  /\ {input[i] : i \in DOMAIN input} \subseteq
                            db \cup removed \cup Losing \cup (IF Fried THEN {} ELSE Invalid)
                      /\ totals.processed = Len(input)
                      /\ totals.processed = totals.written + totals.rejected + totals.dups
                      /\ numLive = 0
    BY DEF FlushedMeansStored
  <2> USE DEF PipelineInv
  <2>1. flushInbox # <<>>
    BY DEF NullInv
  <2>2. vb = <<Null>> /\ wq = <<>> /\ wb = <<>> /\ proc = <<>> /\ (vq = <<>> \/ vq = <<Null>>) /\ ~Open
    BY <2>1, FlushedDone
  <2>3. Pushed = {} /\ PushCount = 0
    BY <2>2 DEF PhaseInv, Open, Pushed, PushCount
  <2>4. /\ Items(vq) = {} /\ Items(vb) = {} /\ Items(wq) = {} /\ Items(wb) = {}
        /\ Count(vq) = 0 /\ Count(vb) = 0 /\ Count(wq) = 0 /\ Count(wb) = 0
    BY <2>2, QueueEmpty, QueueNull
  <2>5. Elems(proc) = {} /\ Len(proc) = 0
    <3>1. proc = <<>>
      BY <2>2
    <3> QED BY ONLY <3>1 DEF Elems
  <2>6. Elems(input) \subseteq Settled
    BY <2>3, <2>4, <2>5 DEF EventsInv, Held
  <2>7. numLive = 0
    BY <2>3, <2>4 DEF CountInv, Waiting
  <2>8. totals.processed = Len(input) /\ totals.processed = Accounted
    BY <2>5, <2>7, Numbers DEF CountInv
  <2> QED BY <2>6, <2>7, <2>8 DEF Elems, Settled, Accounted
<1> QED BY <1>1, PipelineStart, PipelineKept, PhaseInvariant, SyncInvariant, TodoStart, TodoKept, PTL
        DEF Spec

-----------------------------------------------------------------------------
(* The proofs about the write policy plugin                                *)

PluginMoves ==
  \/ \E ev \in Offered : Ask(ev)
  \/ AcceptEventStep \/ Returned \/ PluginStep
  \/ UNCHANGED pluginVars

\* What a step of any command does to the plugin.
LEMMA PluginSteps ==
  ASSUME [Next]_vars
  PROVE  PluginMoves
<1> USE DEF PluginMoves, others, streamVars
<1>1. CASE UNCHANGED vars
  BY <1>1 DEF vars
<1>2. CASE Import
  BY <1>2 DEF Import, ImportLine, ImportPush, ImportDone, Destroy, Flushed, Join
<1>3. CASE Sync
  BY <1>3 DEF Sync
<1>4. CASE Stream
  BY <1>4 DEF Stream, StreamStep, LoopStep, Run, Reconnect, Watch, PolicyRuns, StreamAccepted,
         StreamRefused, StreamPush, Connected, Disconnected, ConnectError, StreamEvent, OnTrigger
<1>5. CASE Threads(ValidatorStep) \/ Threads(WriterStep) \/ Threads(Others)
  BY <1>5 DEF Threads
<1> QED BY <1>1, <1>2, <1>3, <1>4, <1>5 DEF Next

\* An empty pipe holds no answer.
LEMMA NoLines ==
  /\ <<>> \in Seq(Lines) /\ <<>> \in Seq(Inquiries)
  /\ NoAnswer(<<>>) /\ OneAnswer(<<>>) /\ NoJunk(<<>>)
  /\ \A c, t : AllBy(<<>>, c, t)
  /\ \A ev, n : AllFor(<<>>, ev, n)
BY DEF NoAnswer, OneAnswer, NoJunk, AllBy, AllFor

\* What holds of some lines holds of the rest of them, and behind the only
\* answer there is none.
LEMMA LinesTail ==
  ASSUME NEW s \in Seq(Lines), s # <<>>
  PROVE  /\ Tail(s) \in Seq(Lines)
         /\ NoAnswer(s) => NoAnswer(Tail(s)) /\ Junk(Head(s))
         /\ OneAnswer(s) => OneAnswer(Tail(s))
         /\ OneAnswer(s) /\ ~Junk(Head(s)) => NoAnswer(Tail(s))
         /\ NoJunk(s) => NoJunk(Tail(s)) /\ ~Junk(Head(s))
         /\ \A c, x : AllBy(s, c, x) =>
              AllBy(Tail(s), c, x) /\ (IsAnswer(Head(s)) => Head(s).cmd = c /\ Head(s).script = x)
         /\ \A ev, n : AllFor(s, ev, n) =>
              AllFor(Tail(s), ev, n) /\ (IsAnswer(Head(s)) => Head(s).ev = ev /\ Head(s).n = n)
<1> DEFINE t == Tail(s)
           h == Head(s)
<1>1. t \in Seq(Lines) /\ h = s[1] /\ 1 \in DOMAIN s
  OBVIOUS
<1>2. \A i \in DOMAIN t : i \in Nat /\ i # 0 /\ i + 1 \in DOMAIN s /\ t[i] = s[i + 1]
  OBVIOUS
<1> HIDE DEF t, h
<1>3. NoAnswer(s) => NoAnswer(t) /\ Junk(h)
  BY <1>1, <1>2 DEF NoAnswer
<1>4. OneAnswer(s) => OneAnswer(t)
  BY <1>2 DEF OneAnswer
<1>5. OneAnswer(s) /\ ~Junk(h) => NoAnswer(t)
  BY <1>1, <1>2 DEF OneAnswer, NoAnswer
<1>6. NoJunk(s) => NoJunk(t) /\ ~Junk(h)
  BY <1>1, <1>2 DEF NoJunk
<1>7. \A c, x : AllBy(s, c, x) => AllBy(t, c, x) /\ (IsAnswer(h) => h.cmd = c /\ h.script = x)
  BY <1>1, <1>2 DEF AllBy
<1>8. \A ev, n : AllFor(s, ev, n) => AllFor(t, ev, n) /\ (IsAnswer(h) => h.ev = ev /\ h.n = n)
  BY <1>1, <1>2 DEF AllFor
<1> QED BY <1>1, <1>3, <1>4, <1>5, <1>6, <1>7, <1>8 DEF t, h

\* A line printed behind others.
LEMMA LinesAppend ==
  ASSUME NEW s \in Seq(Lines), NEW l \in Lines
  PROVE  /\ Append(s, l) \in Seq(Lines) /\ Append(s, l) # <<>>
         /\ NoAnswer(s) /\ Junk(l) => NoAnswer(Append(s, l))
         /\ OneAnswer(s) /\ Junk(l) => OneAnswer(Append(s, l))
         /\ NoAnswer(s) => OneAnswer(Append(s, l))
         /\ NoJunk(s) /\ ~Junk(l) => NoJunk(Append(s, l))
         /\ \A c, x : AllBy(s, c, x) /\ (IsAnswer(l) => l.cmd = c /\ l.script = x) =>
              AllBy(Append(s, l), c, x)
         /\ \A ev, n : AllFor(s, ev, n) /\ (IsAnswer(l) => l.ev = ev /\ l.n = n) =>
              AllFor(Append(s, l), ev, n)
<1> DEFINE t == Append(s, l)
<1>1. t \in Seq(Lines) /\ t # <<>>
  <2>1. t \in Seq(Lines) /\ Len(t) = Len(s) + 1 /\ Len(s) \in Nat
    OBVIOUS
  <2> HIDE DEF t
  <2> QED BY <2>1
<1>2. \A i \in DOMAIN t : (i \in DOMAIN s /\ t[i] = s[i]) \/ (i = Len(s) + 1 /\ t[i] = l)
  OBVIOUS
<1> HIDE DEF t
<1>3. NoAnswer(s) /\ Junk(l) => NoAnswer(t)
  BY <1>2 DEF NoAnswer
<1>4. OneAnswer(s) /\ Junk(l) => OneAnswer(t)
  BY <1>2 DEF OneAnswer
<1>5. NoAnswer(s) => OneAnswer(t)
  BY <1>2 DEF NoAnswer, OneAnswer
<1>6. NoJunk(s) /\ ~Junk(l) => NoJunk(t)
  BY <1>2 DEF NoJunk
<1>7. \A c, x : AllBy(s, c, x) /\ (IsAnswer(l) => l.cmd = c /\ l.script = x) => AllBy(t, c, x)
  BY <1>2 DEF AllBy
<1>8. \A ev, n : AllFor(s, ev, n) /\ (IsAnswer(l) => l.ev = ev /\ l.n = n) => AllFor(t, ev, n)
  BY <1>2 DEF AllFor
<1> QED BY <1>1, <1>3, <1>4, <1>5, <1>6, <1>7, <1>8 DEF t

\* The three kinds of lines
LEMMA LineKinds ==
  ASSUME running \in Process, loaded \in Int
  PROVE  /\ JunkLine \in Lines /\ Junk(JunkLine) /\ ~IsAnswer(JunkLine)
         /\ BadLine \in Lines /\ ~Junk(BadLine) /\ ~IsAnswer(BadLine)
         /\ \A req \in Inquiries, action \in Actions \cup {"accept"} :
               LET l == Line(req, action) IN
               /\ l \in Lines /\ ~Junk(l) /\ IsAnswer(l)
               /\ l.ev = req.ev /\ l.n = req.n /\ l.cmd = running.cmd /\ l.script = loaded
<1>1. /\ JunkLine \in Lines /\ Junk(JunkLine) /\ ~IsAnswer(JunkLine)
      /\ BadLine \in Lines /\ ~Junk(BadLine) /\ ~IsAnswer(BadLine)
  BY DEF Lines, Junk, JunkLine, BadLine, IsAnswer
<1>2. ASSUME NEW req \in Inquiries, NEW action \in Actions \cup {"accept"}
      PROVE  LET l == Line(req, action) IN
             /\ l \in Lines /\ ~Junk(l) /\ IsAnswer(l)
             /\ l.ev = req.ev /\ l.n = req.n /\ l.cmd = running.cmd /\ l.script = loaded
  BY DEF Lines, Answers, Line, Junk, IsAnswer, Inquiries, Process
<1> QED BY <1>1, <1>2

\* No plugin runs at first.
LEMMA PluginStart == Init => PluginInv
<1> SUFFICES ASSUME Init PROVE PluginInv
  OBVIOUS
<1>1. PluginIdle /\ pluginCmd \in Cmds \cup {""}
  BY DEF Init, NoStream, StreamInit, PluginInit
<1>2. PluginType
  <2>1. running \in Process
    BY <1>1 DEF PluginIdle, NoProcess, Process
  <2>2. modTime = 1 /\ loaded = -1 /\ requests = 0
    BY <1>1 DEF PluginIdle, NotLoaded
  <2>3. modTime \in Nat /\ loaded \in Int /\ requests \in Nat
    BY <2>2
  <2> QED BY <1>1, <2>1, <2>3, NoLines DEF PluginIdle, PluginType
<1>3. SourceInv
  BY <1>1, NoLines DEF PluginIdle, SourceInv
<1>4. ScriptInv
  BY <1>1 DEF PluginIdle, ScriptInv
<1>5. JunkInv
  BY <1>1, NoLines DEF PluginIdle, JunkInv
<1>6. OweInv
  BY <1>1, NoLines DEF PluginIdle, OweInv
<1>7. VerdictInv
  BY <1>1 DEF PluginIdle, VerdictInv, DecisionFresh, NoVerdict
<1> QED BY <1>2, <1>3, <1>4, <1>5, <1>6, <1>7 DEF PluginInv

\* acceptEvent ends with an error, or without a plugin: the process is given up.
LEMMA ResetKeeps ==
  ASSUME PluginInv, Reset, ppc' = "done", UNCHANGED pluginEnv, verdict'.why # "answer",
         request' \in Asked
  PROVE  PluginInv'
<1> USE DEF PluginInv
<1>1. PluginType'
  <2>1. running' \in Process
    BY DEF Reset, NoProcess, Process
  <2>2. pluginCmd' = pluginCmd /\ modTime' = modTime
    BY DEF pluginEnv
  <2>3. loaded' \in Int /\ requests' \in Nat
    BY DEF Reset, Fresh, NotLoaded
  <2> QED BY <2>1, <2>2, <2>3, NoLines DEF Reset, Fresh, PluginType
<1>2. SourceInv'
  BY NoLines DEF Reset, Fresh, SourceInv
<1>3. ScriptInv'
  BY DEF Reset, Fresh, ScriptInv
<1>4. JunkInv'
  BY NoLines DEF Reset, Fresh, JunkInv
<1>5. OweInv'
  BY NoLines DEF Reset, Fresh, OweInv
<1>6. VerdictInv'
  BY DEF VerdictInv, DecisionFresh
<1> QED BY <1>1, <1>2, <1>3, <1>4, <1>5, <1>6

\* The time of a script is a number.
LEMMA StatType ==
  ASSUME modTime \in Nat, NEW c
  PROVE  StatTime(c) \in Nat
BY DEF StatTime

\* acceptEvent asks the process there is, starts one, or fails.
LEMMA AskKeeps ==
  ASSUME PluginInv, NEW ev \in Offered, Ask(ev)
  PROVE  PluginInv'
<1> USE DEF PluginInv
<1> DEFINE n == IF Outdated THEN 1 ELSE requests + 1
<1>1. /\ ppc = "idle" /\ UNCHANGED pluginEnv
      /\ request' = [ev |-> ev, n |-> n, cmd |-> pluginCmd, time |-> StatTime(pluginCmd)]
  BY DEF Ask
<1>2. pluginCmd' = pluginCmd /\ modTime' = modTime
  BY <1>1 DEF pluginEnv
<1>3. request' \in Asked
  <2>1. n \in Nat
    <3>1. requests \in Nat
      BY DEF PluginType
    <3> QED BY <3>1
  <2>2. StatTime(pluginCmd) \in Nat
    BY StatType DEF PluginType
  <2>3. Outdated \in BOOLEAN
    BY DEF Outdated
  <2> QED BY <1>1, <2>1, <2>2, <2>3 DEF Asked, PluginType
<1>4. CASE AskNobody \/ AskUnknown \/ AskDead
  <2>1. Reset /\ ppc' = "done" /\ verdict'.why # "answer"
    <3>1. CASE AskNobody
      BY <3>1 DEF AskNobody, Return
    <3>2. CASE AskUnknown
      BY <3>2 DEF AskUnknown, Throw, Return
    <3>3. CASE AskDead
      BY <3>3 DEF AskDead, Throw, Return
    <3> QED BY <1>4, <3>1, <3>2, <3>3
  <2> QED BY <1>1, <1>3, <2>1, ResetKeeps
<1>5. CASE AskPlugin(ev)
  <2> DEFINE q == [ev |-> ev, n |-> requests + 1]
  <2>1. /\ ppc' = "poll" /\ ~Outdated /\ toPlugin' = Append(toPlugin, q) /\ requests' = requests + 1
        /\ UNCHANGED <<running, alive, loaded, fromPlugin, rbuf, junk, extra, raced, verdict>>
    BY <1>5 DEF AskPlugin, Current
  <2>2. running.cmd = pluginCmd /\ running.time = StatTime(pluginCmd)
    BY <2>1 DEF Outdated
  <2>3. /\ request'.ev = ev /\ request'.n = requests + 1
        /\ request'.cmd = pluginCmd /\ request'.time = StatTime(pluginCmd)
    BY <1>1, <2>1
  <2>4. q \in Inquiries /\ requests' \in Nat
    <3>1. requests \in Nat
      BY DEF PluginType
    <3> QED BY <2>1, <3>1 DEF Inquiries
  <2>5. toPlugin' \in Seq(Inquiries) /\ toPlugin' # <<>>
    <3>1. toPlugin \in Seq(Inquiries)
      BY DEF PluginType
    <3> HIDE DEF q
    <3>2. Append(toPlugin, q) \in Seq(Inquiries) /\ Len(Append(toPlugin, q)) = Len(toPlugin) + 1
          /\ Len(toPlugin) \in Nat
      BY ONLY <3>1, <2>4
    <3>3. Len(toPlugin') # 0 /\ toPlugin' \in Seq(Inquiries)
      BY <2>1, <3>2
    <3> QED BY <3>3
  <2>6. PluginType'
    BY <1>2, <1>3, <2>1, <2>4, <2>5 DEF PluginType
  <2>7. SourceInv'
    BY <2>1, <2>2, <2>3 DEF SourceInv
  <2>8. ScriptInv'
    BY <1>1, <1>2, <2>1 DEF ScriptInv, StatTime
  <2>9. JunkInv'
    BY <2>1, <2>5 DEF JunkInv
  <2>10. OweInv'
    <3>1. SUFFICES ASSUME ~extra PROVE OweInv'
      BY <2>1 DEF OweInv
    <3>2. toPlugin = <<>> /\ NoAnswer(rbuf) /\ NoAnswer(fromPlugin)
      BY <1>1, <3>1 DEF OweInv
    <3> HIDE DEF q
    <3>3. Append(<<>>, q) = <<q>>
      OBVIOUS
    <3>4. toPlugin' = <<q>>
      BY <2>1, <3>2, <3>3, Zenon
    <3>5. toPlugin' = <<[ev |-> request'.ev, n |-> request'.n]>>
      BY <2>3, <3>4 DEF q
    <3>6. \A a, b : /\ AllFor(rbuf, a, b) /\ AllFor(fromPlugin, a, b)
                    /\ OneAnswer(rbuf) /\ OneAnswer(fromPlugin)
      BY <3>2 DEF NoAnswer, AllFor, OneAnswer, Junk, IsAnswer
    <3> QED BY <2>1, <3>2, <3>5, <3>6 DEF OweInv
  <2>11. VerdictInv'
    BY <1>1, <2>1 DEF VerdictInv, DecisionFresh
  <2> QED BY <2>6, <2>7, <2>8, <2>9, <2>10, <2>11
<1>6. CASE SpawnPlugin
  <2>1. /\ ppc' = "stat" /\ verdict' = verdict /\ Fresh /\ Outdated
        /\ running' = [cmd |-> pluginCmd, time |-> 0]
    BY <1>6 DEF SpawnPlugin
  <2>2. running' \in Process /\ running'.cmd = pluginCmd
    BY <2>1 DEF Process, PluginType
  <2>3. request'.n = 1 /\ request'.cmd = pluginCmd
    BY <1>1, <2>1
  <2>4. loaded' \in Int /\ requests' \in Nat
    BY <2>1 DEF Fresh, NotLoaded
  <2>5. PluginType'
    BY <1>2, <1>3, <2>1, <2>2, <2>4, NoLines DEF PluginType, Fresh
  <2>6. SourceInv'
    BY <2>1, <2>2, <2>3, NoLines DEF SourceInv, Fresh
  <2>7. ScriptInv'
    BY <2>1 DEF ScriptInv, Fresh
  <2>8. JunkInv' /\ OweInv'
    BY <2>1, NoLines DEF JunkInv, OweInv, Fresh
  <2>9. VerdictInv'
    BY <1>1, <2>1 DEF VerdictInv, DecisionFresh
  <2> QED BY <2>5, <2>6, <2>7, <2>8, <2>9
<1> QED BY <1>4, <1>5, <1>6 DEF Ask

\* The constructor looks at the script, and the new process is asked.
LEMMA StatKeeps ==
  ASSUME PluginInv, StatPlugin
  PROVE  PluginInv'
<1> USE DEF PluginInv
<1>1. ppc = "stat" /\ UNCHANGED pluginEnv
  BY DEF StatPlugin
<1>2. pluginCmd' = pluginCmd /\ modTime' = modTime /\ request \in Asked
  BY <1>1 DEF pluginEnv, PluginType
<1>3. CASE StatFails \/ StatDead
  <2>1. Reset /\ ppc' = "done" /\ verdict'.why # "answer" /\ request' = request
    <3>1. CASE StatFails
      BY <3>1 DEF StatFails, Throw, Return
    <3>2. CASE StatDead
      BY <3>2 DEF StatDead, Throw, Return
    <3> QED BY <1>3, <3>1, <3>2
  <2> QED BY <1>1, <1>2, <2>1, ResetKeeps
<1>4. CASE StatAsk
  <2> DEFINE t == StatTime(request.cmd)
  <2>1. /\ running' = [running EXCEPT !.time = t] /\ request' = [request EXCEPT !.time = t]
        /\ toPlugin' = <<[ev |-> request.ev, n |-> 1]>> /\ requests' = 1 /\ ppc' = "poll"
        /\ UNCHANGED <<alive, loaded, fromPlugin, rbuf, junk, extra, raced, verdict>>
    BY <1>4 DEF StatAsk
  <2>2. t \in Nat
    BY StatType DEF PluginType
  <2>3. running.cmd = request.cmd /\ request.n = 1 /\ rbuf = <<>> /\ fromPlugin = <<>>
    BY <1>1 DEF SourceInv
  <2> HIDE DEF t
  <2>4. running' \in Process /\ running'.cmd = running.cmd /\ running'.time = t
    BY <2>1, <2>2 DEF PluginType, Process
  <2>5. /\ request' \in Asked /\ request'.ev = request.ev /\ request'.n = request.n
        /\ request'.cmd = request.cmd /\ request'.time = t
    BY <1>2, <2>1, <2>2 DEF Asked
  <2>6. [ev |-> request.ev, n |-> 1] \in Inquiries
    BY <1>2 DEF Asked, Inquiries
  <2>7. toPlugin' \in Seq(Inquiries) /\ toPlugin' # <<>>
    BY <2>1, <2>6
  <2>8. PluginType'
    BY <1>2, <2>1, <2>4, <2>5, <2>7 DEF PluginType
  <2>9. SourceInv'
    BY <2>1, <2>3, <2>4, <2>5, NoLines DEF SourceInv
  <2>10. ScriptInv'
    BY <1>1, <1>2, <2>1, <2>3, <2>4 DEF ScriptInv, StatTime, t
  <2>11. JunkInv'
    BY <2>1, <2>7 DEF JunkInv
  <2>12. OweInv'
    BY <2>1, <2>3, <2>5, NoLines DEF OweInv
  <2>13. VerdictInv'
    BY <1>1, <2>1 DEF VerdictInv, DecisionFresh
  <2> QED BY <2>8, <2>9, <2>10, <2>11, <2>12, <2>13
<1> QED BY <1>3, <1>4 DEF StatPlugin

\* What Read does with a line: `lines` of the model.
LinesRead == IF rbuf # <<>> THEN rbuf ELSE fromPlugin

\* acceptEvent reads a line and compares its id.
LEMMA ReadKeeps ==
  ASSUME PluginInv, Read
  PROVE  PluginInv'
<1> USE DEF PluginInv
<1> DEFINE lines == LinesRead
           ev == request.ev
           n == request.n
           Taken == /\ rbuf' = Tail(lines)
                    /\ fromPlugin' = IF rbuf # <<>> THEN fromPlugin ELSE <<>>
                    /\ UNCHANGED <<running, alive, loaded, toPlugin, history>>
           Answer == /\ lines # <<>> /\ IsAnswer(Head(lines)) /\ Head(lines).ev = ev
                     /\ Taken
                     /\ ppc' = "done"
                     /\ verdict' = [action |-> Head(lines).action, why |-> "answer",
                                    line |-> Head(lines)]
<1>1. ppc = "poll" /\ request' = request /\ UNCHANGED pluginEnv
  BY DEF Read
<1>2. \/ Throw("closed") \/ Throw("malformed") \/ Throw("mismatch")
      \/ lines # <<>> /\ Junk(Head(lines)) /\ Taken /\ UNCHANGED <<ppc, verdict>>
      \/ Answer
  BY DEF Read, LinesRead
<1>3. request \in Asked
  BY <1>1 DEF PluginType
<1>4. CASE Throw("closed") \/ Throw("malformed") \/ Throw("mismatch")
  <2>1. Reset /\ ppc' = "done" /\ verdict'.why # "answer"
    <3>1. CASE Throw("closed")
      BY <3>1 DEF Throw, Return
    <3>2. CASE Throw("malformed")
      BY <3>2 DEF Throw, Return
    <3>3. CASE Throw("mismatch")
      BY <3>3 DEF Throw, Return
    <3> QED BY <1>4, <3>1, <3>2, <3>3
  <2> QED BY <1>1, <1>3, <2>1, ResetKeeps
<1>5. ASSUME lines # <<>>, Taken
      PROVE  /\ PluginType'
             /\ AllBy(rbuf', running.cmd, loaded) /\ AllBy(fromPlugin', running.cmd, loaded)
             /\ loaded # NotLoaded
             /\ IsAnswer(Head(lines)) => Head(lines).cmd = running.cmd /\ Head(lines).script = loaded
             /\ ~junk => NoJunk(rbuf') /\ NoJunk(fromPlugin') /\ ~Junk(Head(lines))
             /\ ~extra => /\ OneAnswer(rbuf') /\ OneAnswer(fromPlugin')
                          /\ NoAnswer(rbuf') \/ NoAnswer(fromPlugin')
                          /\ AllFor(rbuf', ev, n) /\ AllFor(fromPlugin', ev, n)
                          /\ ~Junk(Head(lines)) => /\ NoAnswer(rbuf') /\ NoAnswer(fromPlugin')
                                                   /\ toPlugin = <<>>
                          /\ IsAnswer(Head(lines)) => Head(lines).n = n
                          /\ toPlugin # <<>> => /\ toPlugin = <<[ev |-> ev, n |-> n]>>
                                                /\ NoAnswer(rbuf') /\ NoAnswer(fromPlugin')
  <2>1. /\ lines \in Seq(Lines) /\ AllBy(lines, running.cmd, loaded) /\ (~junk => NoJunk(lines))
        /\ ~extra => /\ OneAnswer(lines) /\ AllFor(lines, ev, n)
                     /\ toPlugin # <<>> => NoAnswer(lines)
    BY DEF LinesRead, PluginType, SourceInv, JunkInv, OweInv
  <2>2. /\ Tail(lines) \in Seq(Lines)
        /\ NoAnswer(lines) => NoAnswer(Tail(lines)) /\ Junk(Head(lines))
        /\ OneAnswer(lines) => OneAnswer(Tail(lines))
        /\ OneAnswer(lines) /\ ~Junk(Head(lines)) => NoAnswer(Tail(lines))
        /\ NoJunk(lines) => NoJunk(Tail(lines)) /\ ~Junk(Head(lines))
        /\ AllBy(lines, running.cmd, loaded) =>
             /\ AllBy(Tail(lines), running.cmd, loaded)
             /\ IsAnswer(Head(lines)) => Head(lines).cmd = running.cmd /\ Head(lines).script = loaded
        /\ AllFor(lines, ev, n) => /\ AllFor(Tail(lines), ev, n)
                                   /\ IsAnswer(Head(lines)) => Head(lines).ev = ev /\ Head(lines).n = n
    BY <1>5, <2>1, LinesTail
  <2>3. loaded # NotLoaded
    BY <1>5 DEF LinesRead, SourceInv
  <2>4. UNCHANGED <<running, alive, loaded, toPlugin, requests, junk, extra, raced>>
    BY <1>5 DEF history
  <2> HIDE DEF lines
  <2>5. rbuf' = Tail(lines) /\ ((fromPlugin' = fromPlugin /\ lines = rbuf) \/ fromPlugin' = <<>>)
    BY <1>5 DEF lines, LinesRead
  <2>6. pluginCmd' = pluginCmd /\ modTime' = modTime
    BY <1>1 DEF pluginEnv
  <2>7. PluginType'
    BY <1>1, <1>3, <2>2, <2>4, <2>5, <2>6, NoLines DEF PluginType
  <2>8. AllBy(rbuf', running.cmd, loaded) /\ AllBy(fromPlugin', running.cmd, loaded)
    BY <2>1, <2>2, <2>5, NoLines DEF SourceInv
  <2>9. ~junk => NoJunk(rbuf') /\ NoJunk(fromPlugin') /\ ~Junk(Head(lines))
    BY <2>1, <2>2, <2>5, NoLines DEF JunkInv
  <2>10. ASSUME ~extra
        PROVE  /\ OneAnswer(rbuf') /\ OneAnswer(fromPlugin')
               /\ NoAnswer(rbuf') \/ NoAnswer(fromPlugin')
               /\ AllFor(rbuf', ev, n) /\ AllFor(fromPlugin', ev, n)
               /\ ~Junk(Head(lines)) => /\ NoAnswer(rbuf') /\ NoAnswer(fromPlugin')
                                        /\ toPlugin = <<>>
               /\ IsAnswer(Head(lines)) => Head(lines).n = n
               /\ toPlugin # <<>> => /\ toPlugin = <<[ev |-> ev, n |-> n]>>
                                     /\ NoAnswer(rbuf') /\ NoAnswer(fromPlugin')
    BY <2>1, <2>2, <2>5, <2>10, NoLines DEF OweInv
  <2> QED BY <2>1, <2>2, <2>3, <2>7, <2>8, <2>9, <2>10
<1>6. CASE lines # <<>> /\ Junk(Head(lines)) /\ Taken /\ UNCHANGED <<ppc, verdict>>
  <2>1. UNCHANGED <<running, alive, loaded, toPlugin, junk, extra, raced, ppc, verdict>>
    BY <1>6 DEF history
  <2>2. junk
    BY <1>5, <1>6
  <2>3. SourceInv'
    BY <1>1, <1>5, <1>6, <2>1 DEF SourceInv
  <2>4. ScriptInv'
    BY <1>1, <2>1 DEF ScriptInv, StatTime, pluginEnv
  <2>5. JunkInv'
    BY <2>1, <2>2 DEF JunkInv
  <2>6. OweInv'
    BY <1>1, <1>5, <1>6, <2>1 DEF OweInv
  <2>7. VerdictInv'
    BY <1>1, <2>1 DEF VerdictInv, DecisionFresh
  <2> QED BY <1>5, <1>6, <2>3, <2>4, <2>5, <2>6, <2>7
<1>7. CASE Answer
  <2>1. UNCHANGED <<running, alive, loaded, toPlugin, junk, extra, raced>> /\ ppc' = "done"
    BY <1>7 DEF history
  <2>2. ~Junk(Head(lines))
    BY <1>7 DEF Junk, IsAnswer
  <2>3. SourceInv'
    BY <1>5, <1>7, <2>1 DEF SourceInv
  <2>4. ScriptInv'
    BY <1>1, <2>1 DEF ScriptInv, StatTime, pluginEnv
  <2>5. JunkInv'
    BY <1>5, <1>7, <2>1 DEF JunkInv
  <2>6. OweInv'
    BY <1>1, <1>5, <1>7, <2>1, <2>2 DEF OweInv
  <2>7. VerdictInv'
    <3>1. Head(lines).cmd = request.cmd /\ Head(lines).script = loaded /\ Head(lines).ev = ev
      BY <1>1, <1>5, <1>7 DEF SourceInv
    <3>2. Head(lines).n = n \/ extra
      BY <1>5, <1>7
    <3>3. loaded = request.time \/ raced
      BY <1>1, <1>5, <1>7 DEF SourceInv, ScriptInv
    <3>4. verdict'.line = Head(lines)
      BY <1>7
    <3> QED BY <1>1, <2>1, <3>1, <3>2, <3>3, <3>4 DEF VerdictInv, DecisionFresh
  <2> QED BY <1>5, <1>7, <2>3, <2>4, <2>5, <2>6, <2>7
<1> QED BY <1>2, <1>4, <1>6, <1>7

\* The decision is returned to the caller.
LEMMA ReturnedKeeps ==
  ASSUME PluginInv, Returned \/ UNCHANGED pluginVars
  PROVE  PluginInv'
<1> USE DEF PluginInv, plugin, history, pluginEnv, pluginVars
<1>1. CASE UNCHANGED pluginVars
  BY <1>1 DEF PluginType, SourceInv, ScriptInv, StatTime, JunkInv, OweInv, VerdictInv, DecisionFresh
<1>2. CASE Returned
  <2>1. ppc = "done" /\ ppc' = "idle" /\ verdict' = NoVerdict /\ UNCHANGED <<plugin, pluginEnv>>
    BY <1>2 DEF Returned
  <2>2. PluginType' /\ SourceInv' /\ ScriptInv' /\ JunkInv'
    BY <2>1 DEF PluginType, SourceInv, ScriptInv, StatTime, JunkInv
  <2>3. OweInv'
    BY <2>1 DEF OweInv, NoAnswer, OneAnswer, AllFor, Junk, IsAnswer
  <2>4. VerdictInv'
    BY <2>1 DEF VerdictInv, DecisionFresh, NoVerdict
  <2> QED BY <2>2, <2>3, <2>4
<1> QED BY <1>1, <1>2

\* The process loads its script, or finds none.
LEMMA LoadsKeeps ==
  ASSUME PluginInv, PluginLoads
  PROVE  PluginInv'
<1> USE DEF PluginInv
<1>1. /\ alive /\ loaded = NotLoaded /\ rbuf = <<>> /\ fromPlugin = <<>>
      /\ UNCHANGED <<running, fromPlugin, rbuf, requests, junk, extra, raced, pluginCmd, modTime,
                     ppc, request, verdict>>
  BY DEF PluginLoads, SourceInv, history, pluginEnv
<1>2. VerdictInv'
  BY <1>1 DEF VerdictInv, DecisionFresh
<1>3. CASE alive' = FALSE /\ toPlugin' = <<>> /\ loaded' = loaded
  <2>1. PluginType'
    BY <1>1, <1>3, NoLines DEF PluginType
  <2>2. SourceInv' /\ ScriptInv' /\ JunkInv' /\ OweInv'
    BY <1>1, <1>3 DEF SourceInv, ScriptInv, StatTime, JunkInv, OweInv
  <2> QED BY <1>2, <2>1, <2>2
<1>4. CASE loaded' = StatTime(running.cmd) /\ UNCHANGED <<alive, toPlugin>>
  <2>1. StatTime(running.cmd) \in Nat
    BY StatType DEF PluginType
  <2>2. loaded' \in Int /\ loaded' # NotLoaded
    BY <1>4, <2>1 DEF NotLoaded
  <2>3. PluginType'
    BY <1>1, <1>4, <2>2 DEF PluginType
  <2>4. SourceInv'
    BY <1>1, <1>4, <2>2, NoLines DEF SourceInv
  <2>5. ScriptInv'
    BY <1>1, <1>4, <2>2 DEF ScriptInv, StatTime
  <2>6. JunkInv' /\ OweInv'
    BY <1>1, <1>4 DEF JunkInv, OweInv
  <2> QED BY <1>2, <2>3, <2>4, <2>5, <2>6
<1> QED BY <1>3, <1>4 DEF PluginLoads

\* The request that a process takes, and a line of it in the pipe.
LEMMA TakesRequest ==
  ASSUME PluginInv, toPlugin # <<>>
  PROVE  LET q == Head(toPlugin) IN
         /\ q \in Inquiries /\ Tail(toPlugin) \in Seq(Inquiries)
         /\ ~extra => /\ q.ev = request.ev /\ q.n = request.n /\ Tail(toPlugin) = <<>>
                      /\ ppc = "poll" /\ NoAnswer(rbuf) /\ NoAnswer(fromPlugin) /\ OneAnswer(rbuf)
                      /\ AllFor(rbuf, request.ev, request.n)
                      /\ AllFor(fromPlugin, request.ev, request.n)
         /\ ppc # "stat"
<1> DEFINE q == [ev |-> request.ev, n |-> request.n]
<1>1. toPlugin \in Seq(Inquiries)
  BY DEF PluginInv, PluginType
<1>2. Head(toPlugin) \in Inquiries /\ Tail(toPlugin) \in Seq(Inquiries)
  BY <1>1
<1>3. ~extra => /\ toPlugin = <<q>>
                /\ ppc = "poll" /\ NoAnswer(rbuf) /\ NoAnswer(fromPlugin) /\ OneAnswer(rbuf)
                /\ AllFor(rbuf, request.ev, request.n) /\ AllFor(fromPlugin, request.ev, request.n)
  BY DEF PluginInv, OweInv
<1>4. q.ev = request.ev /\ q.n = request.n
  OBVIOUS
<1> HIDE DEF q
<1>5. Head(<<q>>) = q /\ Tail(<<q>>) = <<>>
  OBVIOUS
<1>6. ~extra => Head(toPlugin) = q /\ Tail(toPlugin) = <<>>
  BY <1>3, <1>5, Zenon
<1>7. ppc # "stat"
  BY DEF PluginInv, SourceInv
<1> QED BY <1>2, <1>3, <1>4, <1>6, <1>7

\* The process answers a request, well or with a malformed line.
LEMMA AnswersKeep ==
  ASSUME PluginInv, NEW l \in Lines, ~Junk(l), toPlugin # <<>>, loaded # NotLoaded,
         IsAnswer(l) => /\ l.ev = Head(toPlugin).ev /\ l.n = Head(toPlugin).n
                        /\ l.cmd = running.cmd /\ l.script = loaded,
         fromPlugin' = Append(fromPlugin, l), toPlugin' = Tail(toPlugin),
         UNCHANGED <<running, alive, loaded, rbuf, requests, junk, extra, raced, pluginCmd, modTime,
                     ppc, request, verdict>>
  PROVE  PluginInv'
<1> USE DEF PluginInv
<1>1. /\ fromPlugin' \in Seq(Lines) /\ fromPlugin' # <<>>
      /\ NoAnswer(fromPlugin) => OneAnswer(fromPlugin')
      /\ NoJunk(fromPlugin) => NoJunk(fromPlugin')
      /\ AllBy(fromPlugin, running.cmd, loaded) => AllBy(fromPlugin', running.cmd, loaded)
      /\ AllFor(fromPlugin, request.ev, request.n)
           /\ (IsAnswer(l) => l.ev = request.ev /\ l.n = request.n) =>
         AllFor(fromPlugin', request.ev, request.n)
  BY LinesAppend DEF PluginType
<1>2. PluginType'
  BY <1>1, TakesRequest DEF PluginType
<1>3. SourceInv'
  BY <1>1, TakesRequest DEF SourceInv
<1>4. ScriptInv'
  BY DEF ScriptInv, StatTime
<1>5. JunkInv'
  BY <1>1 DEF JunkInv
<1>6. OweInv'
  <2>1. SUFFICES ASSUME ~extra PROVE OweInv'
    BY DEF OweInv
  <2>2. /\ toPlugin' = <<>> /\ ppc = "poll" /\ NoAnswer(rbuf) /\ NoAnswer(fromPlugin)
        /\ OneAnswer(rbuf) /\ AllFor(rbuf, request.ev, request.n)
        /\ AllFor(fromPlugin, request.ev, request.n)
        /\ IsAnswer(l) => l.ev = request.ev /\ l.n = request.n
    BY <2>1, TakesRequest
  <2> QED BY <1>1, <2>1, <2>2 DEF OweInv
<1>7. VerdictInv'
  BY DEF VerdictInv, DecisionFresh
<1> QED BY <1>2, <1>3, <1>4, <1>5, <1>6, <1>7

\* The process prints a line that is no JSON, or an answer twice.
LEMMA PrintsKeep ==
  ASSUME PluginInv, PluginPrints
  PROVE  PluginInv'
<1> USE DEF PluginInv
<1>1. /\ toPlugin # <<>> /\ loaded # NotLoaded
      /\ UNCHANGED <<running, alive, loaded, rbuf, requests, raced, pluginCmd, modTime, ppc, request,
                     verdict>>
  BY DEF PluginPrints
<1>2. running \in Process /\ loaded \in Int /\ fromPlugin \in Seq(Lines)
  BY DEF PluginType
<1>3. VerdictInv' /\ ScriptInv'
  BY <1>1 DEF VerdictInv, DecisionFresh, ScriptInv, StatTime, PluginPrints, PrintsJunk,
              PrintsMalformed, PrintsTwice
<1>4. CASE PrintsJunk
  <2>1. fromPlugin' = Append(fromPlugin, JunkLine) /\ junk' = TRUE /\ UNCHANGED <<toPlugin, extra>>
    BY <1>4 DEF PrintsJunk
  <2>2. JunkLine \in Lines /\ Junk(JunkLine) /\ ~IsAnswer(JunkLine)
    BY <1>2, LineKinds
  <2>3. /\ fromPlugin' \in Seq(Lines)
        /\ NoAnswer(fromPlugin) => NoAnswer(fromPlugin')
        /\ OneAnswer(fromPlugin) => OneAnswer(fromPlugin')
        /\ AllBy(fromPlugin, running.cmd, loaded) => AllBy(fromPlugin', running.cmd, loaded)
        /\ AllFor(fromPlugin, request.ev, request.n) => AllFor(fromPlugin', request.ev, request.n)
    BY <1>2, <2>1, <2>2, LinesAppend
  <2>4. PluginType'
    BY <1>1, <2>1, <2>3 DEF PluginType
  <2>5. SourceInv'
    BY <1>1, <2>1, <2>3, TakesRequest DEF SourceInv
  <2>6. JunkInv'
    BY <2>1 DEF JunkInv
  <2>7. OweInv'
    BY <1>1, <2>1, <2>3 DEF OweInv
  <2> QED BY <1>3, <2>4, <2>5, <2>6, <2>7
<1>5. CASE PrintsMalformed
  <2>1. fromPlugin' = Append(fromPlugin, BadLine) /\ toPlugin' = Tail(toPlugin)
        /\ UNCHANGED <<junk, extra>>
    BY <1>5 DEF PrintsMalformed
  <2>2. BadLine \in Lines /\ ~Junk(BadLine) /\ ~IsAnswer(BadLine)
    BY <1>2, LineKinds
  <2> QED BY <1>1, <2>1, <2>2, AnswersKeep
<1>6. CASE PrintsTwice
  <2> DEFINE l == Line(Head(toPlugin), "accept")
  <2>1. /\ fromPlugin' = fromPlugin \o <<l, l>>
        /\ toPlugin' = Tail(toPlugin) /\ extra' = TRUE /\ junk' = junk
    BY <1>6 DEF PrintsTwice
  <2>2. l \in Lines /\ ~Junk(l) /\ l.cmd = running.cmd /\ l.script = loaded
    BY <1>1, <1>2, LineKinds, TakesRequest
  <2> HIDE DEF l
  <2>3. fromPlugin' = Append(Append(fromPlugin, l), l)
    BY <1>2, <2>1, <2>2
  <2>4. /\ Append(fromPlugin, l) \in Seq(Lines)
        /\ NoJunk(fromPlugin) => NoJunk(Append(fromPlugin, l))
        /\ AllBy(fromPlugin, running.cmd, loaded) =>
             AllBy(Append(fromPlugin, l), running.cmd, loaded)
    BY <1>2, <2>2, LinesAppend
  <2>5. /\ fromPlugin' \in Seq(Lines) /\ fromPlugin' # <<>>
        /\ NoJunk(fromPlugin) => NoJunk(fromPlugin')
        /\ AllBy(fromPlugin, running.cmd, loaded) => AllBy(fromPlugin', running.cmd, loaded)
    BY <2>2, <2>3, <2>4, LinesAppend
  <2>6. PluginType'
    BY <1>1, <2>1, <2>5, TakesRequest DEF PluginType
  <2>7. SourceInv'
    BY <1>1, <2>1, <2>5, TakesRequest DEF SourceInv
  <2>8. JunkInv'
    BY <1>1, <2>1, <2>5 DEF JunkInv
  <2>9. OweInv'
    BY <2>1 DEF OweInv
  <2> QED BY <1>3, <2>6, <2>7, <2>8, <2>9
<1> QED BY <1>4, <1>5, <1>6 DEF PluginPrints

\* The process prints, dies or is changed under the sifter.
LEMMA PluginStepKeeps ==
  ASSUME PluginInv, PluginStep
  PROVE  PluginInv'
<1> USE DEF PluginInv
<1>1. CASE \E action \in Actions : PluginAnswers(action)
  <2>1. PICK action \in Actions : PluginAnswers(action)
    BY <1>1
  <2> DEFINE l == Line(Head(toPlugin), action)
  <2>2. /\ toPlugin # <<>> /\ loaded # NotLoaded
        /\ fromPlugin' = Append(fromPlugin, l) /\ toPlugin' = Tail(toPlugin)
        /\ UNCHANGED <<running, alive, loaded, rbuf, requests, junk, extra, raced, pluginCmd, modTime,
                       ppc, request, verdict>>
    BY <2>1 DEF PluginAnswers, history, pluginEnv
  <2>3. /\ l \in Lines /\ ~Junk(l)
        /\ IsAnswer(l) => /\ l.ev = Head(toPlugin).ev /\ l.n = Head(toPlugin).n
                          /\ l.cmd = running.cmd /\ l.script = loaded
    BY <2>2, LineKinds, TakesRequest DEF PluginType
  <2> HIDE DEF l
  <2> QED BY <2>2, <2>3, AnswersKeep
<1>2. CASE PluginDies
  <2>1. /\ alive' = FALSE /\ toPlugin' = <<>>
        /\ UNCHANGED <<running, loaded, fromPlugin, rbuf, requests, junk, extra, raced, pluginCmd,
                       modTime, ppc, request, verdict>>
    BY <1>2 DEF PluginDies, history
  <2>2. PluginType'
    BY <2>1, NoLines DEF PluginType
  <2>3. SourceInv' /\ ScriptInv' /\ JunkInv'
    BY <2>1 DEF SourceInv, ScriptInv, StatTime, JunkInv
  <2>4. OweInv' /\ VerdictInv'
    BY <2>1 DEF OweInv, VerdictInv, DecisionFresh
  <2> QED BY <2>2, <2>3, <2>4
<1>3. CASE Reconfigure
  <2>1. /\ pluginCmd' \in Cmds
        /\ UNCHANGED <<running, alive, loaded, toPlugin, fromPlugin, rbuf, requests, junk, extra,
                       raced, modTime, ppc, request, verdict>>
    BY <1>3 DEF Reconfigure, plugin, history
  <2>2. PluginType'
    BY <2>1 DEF PluginType
  <2>3. SourceInv' /\ ScriptInv' /\ JunkInv'
    BY <2>1 DEF SourceInv, ScriptInv, StatTime, JunkInv
  <2>4. OweInv' /\ VerdictInv'
    BY <2>1 DEF OweInv, VerdictInv, DecisionFresh
  <2> QED BY <2>2, <2>3, <2>4
<1>4. CASE Modify
  <2>1. /\ modTime' = 0 \/ modTime' = modTime + 1
        /\ raced' = (raced \/ ppc = "stat" \/ (alive /\ loaded = NotLoaded))
        /\ UNCHANGED <<running, alive, loaded, toPlugin, fromPlugin, rbuf, requests, junk, extra,
                       pluginCmd, ppc, request, verdict>>
    BY <1>4 DEF Modify
  <2>2. PluginType'
    <3>1. modTime \in Nat
      BY DEF PluginType
    <3>2. modTime' \in Nat
      BY <2>1, <3>1
    <3> QED BY <2>1, <3>2 DEF PluginType
  <2>3. SourceInv' /\ JunkInv'
    BY <2>1 DEF SourceInv, JunkInv
  <2>4. ScriptInv'
    BY <2>1 DEF ScriptInv
  <2>5. OweInv' /\ VerdictInv'
    BY <2>1 DEF OweInv, VerdictInv, DecisionFresh
  <2> QED BY <2>2, <2>3, <2>4, <2>5
<1> QED BY <1>1, <1>2, <1>3, <1>4, LoadsKeeps, PrintsKeep DEF PluginStep

\* PluginInv is inductive by itself.
LEMMA PluginKept ==
  ASSUME PluginInv, [Next]_vars
  PROVE  PluginInv'
<1>1. PluginMoves
  BY PluginSteps
<1>2. CASE PollTimeout
  <2>1. Reset /\ ppc = "poll" /\ ppc' = "done" /\ UNCHANGED pluginEnv /\ request' = request
    BY <1>2 DEF PollTimeout, Throw, Return
  <2>2. verdict'.why # "answer"
    BY <1>2 DEF PollTimeout, Throw, Return
  <2>3. request' \in Asked
    BY <2>1 DEF PluginInv, PluginType
  <2> QED BY <2>1, <2>2, <2>3, ResetKeeps
<1> QED BY <1>1, <1>2, AskKeeps, StatKeeps, ReadKeeps, ReturnedKeeps, PluginStepKeeps
        DEF PluginMoves, AcceptEventStep

\* The inductive invariant of the plugin holds always.
LEMMA PluginInvariant == Spec => []PluginInv
BY PluginStart, PluginKept, PTL DEF Spec

\* A decision is the answer to this request, of a process started with the command
\* configured that runs the script acceptEvent found: every line read is of the
\* process that runs and of the script it loaded, an error gives that process
\* up, and one that prints no answer too many owes no other answer.  The script
\* loaded is the one looked at unless it is modified while the process starts.
THEOREM DecisionFreshTheorem == Spec => []DecisionFresh
<1>1. PluginInv => DecisionFresh
  BY DEF PluginInv, VerdictInv
<1> QED BY <1>1, PluginInvariant, PTL

\* acceptEvent reports a mismatch only of a process that printed an answer too
\* many, and a timeout only when the answer was not written, or is behind
\* a line that was skipped.
THEOREM ErrorsJustifiedTheorem == Spec => ErrorsJustified
<1>1. PluginInv /\ [Next]_vars =>
        [ppc # "done" /\ ppc' = "done" =>
           /\ verdict'.why = "mismatch" => extra
           /\ verdict'.why = "timeout" => toPlugin # <<>> \/ junk]_pluginVars
  <2> SUFFICES ASSUME PluginInv, [Next]_vars, ~UNCHANGED pluginVars, ppc # "done", ppc' = "done"
               PROVE  /\ verdict'.why = "mismatch" => extra
                      /\ verdict'.why = "timeout" => toPlugin # <<>> \/ junk
    OBVIOUS
  <2>1. PluginMoves
    BY PluginSteps
  <2>0. ASSUME NEW action, NEW why, Return(action, why)
        PROVE  verdict'.why = why
    BY <2>0 DEF Return
  <2>2. ASSUME NEW why, Throw(why)
        PROVE  verdict'.why = why
    BY <2>0, <2>2 DEF Throw
  <2>3. CASE \E ev \in Offered : Ask(ev)
    <3>1. AskNobody \/ AskUnknown \/ AskDead
      BY <2>3 DEF Ask, AskPlugin, SpawnPlugin
    <3>2. AskNobody => verdict'.why = "none"
      BY <2>0 DEF AskNobody
    <3>3. AskUnknown => verdict'.why = "stat"
      BY <2>2 DEF AskUnknown
    <3>4. AskDead => verdict'.why = "write"
      BY <2>2 DEF AskDead
    <3> QED BY <3>1, <3>2, <3>3, <3>4
  <2>4. CASE StatPlugin
    <3>1. StatFails \/ StatDead
      BY <2>4 DEF StatPlugin, StatAsk
    <3>2. verdict'.why \in {"stat", "write"}
      BY <2>2, <3>1 DEF StatFails, StatDead
    <3> QED BY <3>2
  <2>5. CASE PollTimeout
    <3>1. verdict'.why = "timeout"
      BY <2>2, <2>5 DEF PollTimeout
    <3>2. toPlugin # <<>> \/ junk
      BY <2>5 DEF PollTimeout, PluginInv, JunkInv
    <3> QED BY <3>1, <3>2
  <2>6. CASE Read
    <3> DEFINE lines == LinesRead
    <3>1. \/ Throw("closed") \/ Throw("malformed")
          \/ /\ lines # <<>> /\ IsAnswer(Head(lines)) /\ Head(lines).ev # request.ev
             /\ Throw("mismatch")
          \/ verdict' = [action |-> Head(lines).action, why |-> "answer", line |-> Head(lines)]
      BY <2>6 DEF Read, LinesRead
    <3>2. CASE Throw("closed") \/ Throw("malformed")
      <4>1. verdict'.why \in {"closed", "malformed"}
        BY <2>2, <3>2
      <4> QED BY <4>1
    <3>3. CASE /\ lines # <<>> /\ IsAnswer(Head(lines)) /\ Head(lines).ev # request.ev
               /\ Throw("mismatch")
      <4>1. verdict'.why = "mismatch"
        BY <2>2, <3>3
      <4>2. lines \in Seq(Lines) /\ (~extra => AllFor(lines, request.ev, request.n))
        BY DEF LinesRead, PluginInv, PluginType, OweInv
      <4>3. extra
        BY <3>3, <4>2, LinesTail
      <4> QED BY <4>1, <4>3
    <3>4. CASE verdict' = [action |-> Head(lines).action, why |-> "answer", line |-> Head(lines)]
      <4>1. verdict'.why = "answer"
        BY <3>4
      <4> QED BY <4>1
    <3> QED BY <3>1, <3>2, <3>3, <3>4
  <2>7. CASE Returned \/ PluginStep
    BY <2>7 DEF Returned, PluginStep, PluginLoads, PluginAnswers, PluginPrints, PluginDies,
                Reconfigure, Modify
  <2> QED BY <2>1, <2>3, <2>4, <2>5, <2>6, <2>7 DEF PluginMoves, AcceptEventStep
<1> QED BY <1>1, PluginInvariant, PTL DEF Spec, ErrorsJustified
=============================================================================
