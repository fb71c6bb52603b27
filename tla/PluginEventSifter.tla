--------------------------- MODULE PluginEventSifter ---------------------------
(***************************************************************************)
(* PluginEventSifter.h: the write policy plugin, a process that reads one  *)
(* request per line and answers each with one line.  acceptEvent starts it *)
(* when there is none, again when its command or its script has changed,   *)
(* and gives it up on any error; the next event starts a new one.          *)
(*                                                                         *)
(* The plugin is external: once started it loads its script; it answers    *)
(* late or never, dies, prints lines that are not JSON, an answer without  *)
(* its fields, or an answer too many.  poll() looks at the pipe, fgets()   *)
(* takes all the pipe holds into the buffer of the FILE.                   *)
(***************************************************************************)
EXTENDS Integers, Sequences

CONSTANTS
    Cmds,        \* commands that may be configured; "" is none
    Paths,       \* those without a space: the path of a script
    Actions,     \* what it may answer, of "accept", "reject", "shadowReject"
    MaxTroubles  \* bound: faults of the plugin, changes of its command or script

ASSUME PluginAssumption == Paths \subseteq Cmds \ {""} /\ MaxTroubles \in Nat

NoRequest == [ev |-> 0, n |-> 0, cmd |-> "", time |-> 0]
NoProcess == [cmd |-> "", time |-> 0]
NotLoaded == -1

VARIABLES
    pluginCmd,   \* relay__writePolicy__plugin
    modTime,     \* of the script; 0: stat fails
    running,     \* NoProcess or [cmd, time]: currPluginCmd, lastModTime
    alive,       \* the process has not died
    loaded,      \* its script, as modified at that time, or NotLoaded
    toPlugin,    \* requests in the pipe to it: [ev, n]
    fromPlugin,  \* lines in the pipe from it
    rbuf,        \* lines in the buffer of r
    ppc,         \* acceptEvent: "idle", "stat", "poll", "done"
    request,     \* [ev, n, cmd, time] of acceptEvent: the command, its stat
    verdict,     \* the result, and why: "none", "answer" (and its line), or the error
    requests,    \* history, of this process: the requests written to it,
    junk, extra, \* ... whether it has printed such a line,
    raced,       \* ... whether its script was modified while it was being started
    troubles

history   == <<requests, junk, extra, raced>>
plugin    == <<running, alive, loaded, toPlugin, fromPlugin, rbuf, history>>
pluginEnv == <<pluginCmd, modTime, troubles>>
pluginVars == <<plugin, pluginEnv, ppc, request, verdict>>

NoVerdict == [action |-> "", why |-> "none", line |-> 0]

PluginIdle ==
    /\ modTime = 1
    /\ running = NoProcess /\ alive = FALSE /\ loaded = NotLoaded
    /\ toPlugin = <<>> /\ fromPlugin = <<>> /\ rbuf = <<>>
    /\ ppc = "idle" /\ request = NoRequest /\ verdict = NoVerdict
    /\ requests = 0 /\ junk = FALSE /\ extra = FALSE /\ raced = FALSE
    /\ troubles = 0

PluginInit == pluginCmd \in Cmds /\ PluginIdle

-----------------------------------------------------------------------------
(* acceptEvent *)

StatTime(cmd) == IF cmd \in Paths THEN modTime ELSE 0

\* stat() fails.
Missing(cmd) == cmd \in Paths /\ modTime = 0

\* No request is under way, no line in a pipe.
Fresh ==
    /\ toPlugin' = <<>> /\ fromPlugin' = <<>> /\ rbuf' = <<>>
    /\ requests' = 0 /\ junk' = FALSE /\ extra' = FALSE /\ raced' = FALSE
    /\ loaded' = NotLoaded

\* running.reset(): the pipes are closed and the process is killed.
Reset == running' = NoProcess /\ alive' = FALSE /\ Fresh

Return(action, why) ==
    /\ ppc' = "done"
    /\ verdict' = [action |-> action, why |-> why, line |-> 0]

\* The exception handler.
Throw(why) == Reset /\ Return("reject", why)

\* Mutant: the modification time is not looked at.
MutOutdated == running.cmd # pluginCmd

\* The running plugin is not the one configured, or its script was modified.
Outdated == running.cmd # pluginCmd \/ running.time # StatTime(pluginCmd)

\* No plugin: accept.
AskNobody ==
    /\ pluginCmd = ""
    /\ Reset
    /\ Return("accept", "none")

\* The script of the running plugin is gone.
AskUnknown ==
    /\ running.cmd = pluginCmd /\ Missing(pluginCmd)
    /\ Throw("stat")

\* The running plugin is the one to ask.
Current == pluginCmd # "" /\ ~Outdated /\ ~Missing(pluginCmd)

\* One that has died: the pipe cannot be written to.
AskDead == Current /\ ~alive /\ Throw("write")

AskPlugin(ev) ==
    /\ Current /\ alive
    /\ toPlugin' = Append(toPlugin, [ev |-> ev, n |-> requests + 1])
    /\ requests' = requests + 1
    /\ ppc' = "poll"
    /\ UNCHANGED <<running, alive, loaded, fromPlugin, rbuf, junk, extra, raced, verdict>>

\* setupPlugin: posix_spawnp, in place of the process there is.
SpawnPlugin ==
    /\ pluginCmd # "" /\ Outdated /\ ~(running.cmd = pluginCmd /\ Missing(pluginCmd))
    /\ running' = [cmd |-> pluginCmd, time |-> 0]
    /\ alive' = TRUE
    /\ Fresh
    /\ ppc' = "stat"
    /\ verdict' = verdict

Ask(ev) ==
    /\ ppc = "idle"
    /\ request' = [ev |-> ev, n |-> IF Outdated THEN 1 ELSE requests + 1, cmd |-> pluginCmd,
                   time |-> StatTime(pluginCmd)]
    /\ AskNobody \/ AskUnknown \/ AskDead \/ AskPlugin(ev) \/ SpawnPlugin
    /\ UNCHANGED pluginEnv

\* The constructor of RunningPlugin looks at the script of the process that is
\* starting, and the request is written.  (When stat fails, the new process is
\* left behind with its pipes open.)
StatFails == Missing(request.cmd) /\ Throw("stat") /\ request' = request
StatDead  == ~Missing(request.cmd) /\ ~alive /\ Throw("write") /\ request' = request
StatAsk ==
    /\ ~Missing(request.cmd) /\ alive
    /\ running' = [running EXCEPT !.time = StatTime(request.cmd)]
    /\ request' = [request EXCEPT !.time = StatTime(request.cmd)]
    /\ toPlugin' = <<[ev |-> request.ev, n |-> 1]>>
    /\ requests' = 1
    /\ ppc' = "poll"
    /\ UNCHANGED <<alive, loaded, fromPlugin, rbuf, junk, extra, raced, verdict>>

StatPlugin == ppc = "stat" /\ (StatFails \/ StatDead \/ StatAsk) /\ UNCHANGED pluginEnv

\* Mutant: the plugin is left running.
MutPollTimeout ==
    /\ ppc = "poll" /\ fromPlugin = <<>> /\ alive
    /\ Return("reject", "timeout")
    /\ UNCHANGED <<plugin, pluginEnv, request>>

PollTimeout ==
    /\ ppc = "poll" /\ fromPlugin = <<>> /\ alive
    /\ Throw("timeout")
    /\ UNCHANGED <<pluginEnv, request>>

Line(req, action) == [type |-> "answer", ev |-> req.ev, n |-> req.n, action |-> action,
                      cmd |-> running.cmd, script |-> loaded]
JunkLine == [type |-> "junk"]
BadLine  == [type |-> "malformed"]
Junk(line) == line.type = "junk"
Malformed(line) == line.type = "malformed"
IsAnswer(line) == line.type = "answer"

\* poll finds the pipe readable, by a line or by the end of a dead process;
\* fgets, and what becomes of the line: one that does not parse is skipped, one
\* without an id or with an action that is none throws.
Read ==
    /\ ppc = "poll" /\ (fromPlugin # <<>> \/ ~alive)
    /\ LET lines == IF rbuf # <<>> THEN rbuf ELSE fromPlugin
           Taken == /\ rbuf' = Tail(lines)
                    /\ fromPlugin' = IF rbuf # <<>> THEN fromPlugin ELSE <<>>
                    /\ UNCHANGED <<running, alive, loaded, toPlugin, history>>
       IN  \/ lines = <<>> /\ Throw("closed")
           \/ lines # <<>> /\ Junk(Head(lines)) /\ Taken /\ UNCHANGED <<ppc, verdict>>
           \/ lines # <<>> /\ Malformed(Head(lines)) /\ Throw("malformed")
           \/ lines # <<>> /\ IsAnswer(Head(lines)) /\ Head(lines).ev # request.ev
              /\ Throw("mismatch")
           \/ /\ lines # <<>> /\ IsAnswer(Head(lines)) /\ Head(lines).ev = request.ev
              /\ Taken
              /\ ppc' = "done"
              /\ verdict' = [action |-> Head(lines).action, why |-> "answer", line |-> Head(lines)]
    /\ UNCHANGED <<pluginEnv, request>>

AcceptEventStep == StatPlugin \/ PollTimeout \/ Read

\* The caller takes the result.
Returned ==
    /\ ppc = "done"
    /\ ppc' = "idle" /\ request' = NoRequest /\ verdict' = NoVerdict
    /\ UNCHANGED <<plugin, pluginEnv>>

-----------------------------------------------------------------------------
(* The plugin, the operator *)

\* The shell finds the script, as it is then, or ends.
PluginLoads ==
    /\ alive /\ loaded = NotLoaded
    /\ IF Missing(running.cmd)
       THEN alive' = FALSE /\ toPlugin' = <<>> /\ loaded' = loaded
       ELSE loaded' = StatTime(running.cmd) /\ UNCHANGED <<alive, toPlugin>>
    /\ UNCHANGED <<running, fromPlugin, rbuf, history, pluginEnv, ppc, request, verdict>>

PluginAnswers(action) ==
    /\ alive /\ loaded # NotLoaded /\ toPlugin # <<>>
    /\ fromPlugin' = Append(fromPlugin, Line(Head(toPlugin), action))
    /\ toPlugin' = Tail(toPlugin)
    /\ UNCHANGED <<running, alive, loaded, rbuf, history, pluginEnv, ppc, request, verdict>>

\* It prints something else first, a malformed answer, or the same answer twice.
PrintsJunk ==
    /\ fromPlugin' = Append(fromPlugin, JunkLine) /\ junk' = TRUE
    /\ UNCHANGED <<toPlugin, extra>>
PrintsMalformed ==
    /\ fromPlugin' = Append(fromPlugin, BadLine) /\ toPlugin' = Tail(toPlugin)
    /\ UNCHANGED <<junk, extra>>
PrintsTwice ==
    /\ fromPlugin' = fromPlugin \o <<Line(Head(toPlugin), "accept"), Line(Head(toPlugin), "accept")>>
    /\ toPlugin' = Tail(toPlugin) /\ extra' = TRUE /\ junk' = junk

PluginPrints ==
    /\ alive /\ loaded # NotLoaded /\ toPlugin # <<>> /\ troubles < MaxTroubles
    /\ PrintsJunk \/ PrintsMalformed \/ PrintsTwice
    /\ troubles' = troubles + 1
    /\ UNCHANGED <<running, alive, loaded, rbuf, requests, raced, pluginCmd, modTime, ppc, request,
                   verdict>>

PluginDies ==
    /\ alive /\ troubles < MaxTroubles
    /\ troubles' = troubles + 1
    /\ alive' = FALSE /\ toPlugin' = <<>>
    /\ UNCHANGED <<running, loaded, fromPlugin, rbuf, history, pluginCmd, modTime,
                   ppc, request, verdict>>

\* relay__writePolicy__plugin changes.
Reconfigure ==
    /\ troubles < MaxTroubles
    /\ troubles' = troubles + 1
    /\ \E cmd \in Cmds \ {pluginCmd} : pluginCmd' = cmd
    /\ UNCHANGED <<plugin, modTime, ppc, request, verdict>>

\* The script is modified or goes.
Modify ==
    /\ troubles < MaxTroubles
    /\ troubles' = troubles + 1
    /\ \E time \in {0, modTime + 1} \ {modTime} : modTime' = time
    /\ raced' = (raced \/ ppc = "stat" \/ (alive /\ loaded = NotLoaded))
    /\ UNCHANGED <<running, alive, loaded, toPlugin, fromPlugin, rbuf, requests, junk, extra,
                   pluginCmd, ppc, request, verdict>>

PluginStep == (\E action \in Actions : PluginAnswers(action))
              \/ PluginLoads \/ PluginPrints \/ PluginDies \/ Reconfigure \/ Modify

-----------------------------------------------------------------------------
(* Properties *)

\* A decision is the answer to this request, from a process that was started
\* with the command configured and runs the script that was found in place when
\* acceptEvent looked: no answer to an earlier request, and none of a plugin that
\* was replaced, is ever taken for it.  Two things can spoil it: an answer too
\* many, which passes for the answer to the next request if that is about the
\* same event; and a script modified while the process was being started, after
\* which the old one goes on (against docs/plugins.md:13).
DecisionFresh ==
    verdict.why = "answer" =>
        /\ verdict.line.ev = request.ev
        /\ verdict.line.n = request.n \/ extra
        /\ verdict.line.cmd = request.cmd
        /\ verdict.line.script = request.time \/ raced

\* An event is refused with an internal error only for something the plugin
\* does wrong now: a late answer to an earlier event, which poll had given
\* up on, never makes the next answer a mismatch, and a timeout means that
\* the answer was not written, or is in the buffer behind a line skipped.
ErrorsJustified ==
    [][ppc # "done" /\ ppc' = "done" =>
           /\ verdict'.why = "mismatch" => extra
           /\ verdict'.why = "timeout" => toPlugin # <<>> \/ junk]_pluginVars
=============================================================================
