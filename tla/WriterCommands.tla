---------------------------- MODULE WriterCommands ----------------------------
(***************************************************************************)
(* The commands that write through a WriterPipeline, each with the threads *)
(* of the pipeline and with other processes that use the same database:    *)
(* `strfry sync` (SyncCommand), `strfry stream` (StreamCommand) and `strfry *)
(* import` (cmd_import.cpp), which writes every line of its input.         *)
(***************************************************************************)
EXTENDS SyncCommand, StreamCommand

CONSTANTS
    Inputs,        \* what import may be given: sequences of events
    OthersTouch    \* events another process may store or remove meanwhile

ASSUME CommandsAssumption ==
    (\A script \in Inputs : script \in Seq(Events)) /\ OthersTouch \subseteq Events

VARIABLE todo      \* import: the input still to be read

NoStream == StreamIdle /\ PluginIdle /\ pluginCmd = ""

others == <<syncVars, streamVars>>
vars   == <<pipeline, command, todo, others>>

ImportCmd(opt) == [name |-> "import", opt |-> opt]

ImportInit ==
    /\ \E opt \in {"", "fried"} : cmd = ImportCmd(opt)
    /\ status = "run"
    /\ todo \in Inputs
    /\ PipelineInit({})

Init ==
    \/ ImportInit /\ rounds = <<>> /\ SyncIdle /\ NoStream
    \/ (\E dir \in {"both", "up", "down", "none"} : SyncInit(dir)) /\ todo = <<>> /\ NoStream
    \/ (\E dir \in {"both", "up", "down"} : StreamInit(dir)) /\ todo = <<>>
       /\ rounds = <<>> /\ SyncIdle

-----------------------------------------------------------------------------
(* strfry import *)

Importing == cmd.name = "import" /\ status = "run"

\* The next line of the input.
ImportLine ==
    /\ Importing /\ todo # <<>>
    /\ WriteCount(Head(todo))
    /\ todo' = Tail(todo)
    /\ UNCHANGED <<command, others>>

ImportPush ==
    /\ Importing
    /\ WritePush(Fried)
    /\ UNCHANGED <<command, todo, others>>

\* The end of the input: flush().
ImportDone ==
    /\ Importing /\ todo = <<>>
    /\ FlushPush
    /\ status' = "flush"
    /\ UNCHANGED <<cmd, todo, others>>

\* ~WriterPipeline: flush() once more, though nobody reads validatorInbox now.
Destroy ==
    /\ status = "destroy"
    /\ FlushPush
    /\ UNCHANGED <<command, todo, others>>

\* flush() returns: import goes on to the destructor, sync exits.
Flushed ==
    /\ FlushWait
    /\ status' = CASE status = "flush"   -> "destroy"
                   [] status = "destroy" -> "join"
                   [] status = "exit0"   -> "0"
                   [] status = "exit1"   -> "1"
    /\ UNCHANGED <<cmd, todo, others>>

\* The destructor joins both threads.
Join ==
    /\ status = "join" /\ vpc = "exit" /\ wpc = "exit"
    /\ status' = "0"
    /\ UNCHANGED <<pipeline, cmd, todo, others>>

-----------------------------------------------------------------------------
\* The process has ended; its threads with it.
Ended == status \in {"0", "1"}

Import == ImportLine \/ ImportPush \/ ImportDone \/ Destroy \/ Flushed \/ Join

Sync   == (Receive \/ Fails \/ SyncPush \/ ExitFlush) /\ UNCHANGED <<todo, streamVars>>

Stream == StreamStep /\ UNCHANGED <<todo, syncVars>>

\* A step of a thread of the pipeline, or of another process; the file
\* monitor of stream will see a change.
Threads(step) ==
    /\ ~Ended
    /\ step
    /\ changed' = (changed \/ (Watching /\ db' # db))
    /\ UNCHANGED <<command, todo, syncVars, loop, pluginVars>>

Others == \E ev \in OthersTouch : OtherWrites(ev) \/ OtherRemoves(ev)

Next == \/ Import \/ Sync \/ Stream
        \/ Threads(ValidatorStep) \/ Threads(WriterStep) \/ Threads(Others)

Spec == Init /\ [][Next]_vars

\* A process that can do something does something in the end: one of its
\* threads, or the loop with an attempt to connect that succeeds (the bound on
\* failures stands for: not all attempts fail); and the other relay of a sync
\* answers NEG-MSG, EVENT and REQ for as long as it is connected (an answer that
\* never comes stalls sync: it has no timeout).  Every step uses up work, so
\* that it does not matter which of them is taken.
Progress ==
    \/ Threads(ValidatorStep) \/ Threads(WriterStep)
    \/ Import
    \/ (LoopStep \/ Connected \/ OnTrigger) /\ UNCHANGED <<todo, syncVars>>
    \/ (SyncPush \/ ExitFlush \/ MsgNeg \/ MsgEose \/ \E id \in unanswered : MsgOk(id))
       /\ UNCHANGED <<todo, streamVars>>

FairSpec == Spec /\ WF_vars(Progress)

-----------------------------------------------------------------------------
(* Properties *)

\* When flush() has returned, every event given to write() is stored, unless it
\* does not verify, lost against a stored one, or others have removed it
\* since; each was counted once, as written, dup or rejected; nothing is live.
\* The command reports these totals and exits.
FlushedMeansStored ==
    (status \in {"destroy", "join"} \/ (Ended /\ flushInbox # <<>>)) =>
        /\ {input[i] : i \in DOMAIN input} \subseteq
               db \cup removed \cup Losing \cup (IF Fried THEN {} ELSE Invalid)
        /\ totals.processed = Len(input)
        /\ totals.processed = totals.written + totals.rejected + totals.dups
        /\ numLive = 0

\* import and sync end: the last flush of the destructor returns though the
\* threads are gone, and sync never waits for an answer that is not to come.
CommandEnds == cmd.name # "stream" => <>Ended

\* Once the loop of stream runs, an event that a change of the database has brought is not
\* slept through: it is sent, unless it came from there or is removed, or, when the
\* change is acted upon between two connections, lost for good: README.md:150
\* says that new events are posted.
ChangesForwarded ==
    \A ev \in Offered \cup OthersTouch :
        (Watching /\ status = "run" /\ changed /\ ev \in fresh)
        ~> (ev \in sent \cup received \cup removed \cup lost)
=============================================================================
