-------------------------------- MODULE Router --------------------------------
(***************************************************************************)
(* `strfry router` (cmd_router.cpp): groups of connections to other relays *)
(* that events are streamed from, to, or both, following a configuration   *)
(* file that may change while it runs.                                     *)
(*                                                                         *)
(* One thread runs the event loop: it handles what the monitors of the two *)
(* files and the timer put into its inbox, and the callbacks of uWS, which  *)
(* is external: close() runs the disconnection handler at once, and an     *)
(* attempt to connect ends within the connection timeout.  Time is counted *)
(* in these timeouts, which is also the period of the timer.               *)
(*                                                                         *)
(* An event is its kind here, and a filter a set of kinds.  What comes     *)
(* down goes through plugin and pipeline (modules of their own) into the   *)
(* database, like what others store: Store.                                *)
(***************************************************************************)
EXTENDS Integers, Sequences, FiniteSets

CONSTANTS
    Groups,       \* their names; natural numbers, in the order of the map
    Urls,
    Configs,      \* files: functions from some groups to their spec
    StartConfigs, \* those the router may be started with
    Kinds,
    UpRefused,    \* kinds pluginUp does not let pass
    MaxSockets,   \* bound: sockets of a group and url at a time
    MaxEdits, MaxFailures, MaxEvents   \* bounds

\* A group in the file; error: what is wrong with it, if anything.  Of urls that
\* hold something else than a string ("url"), those before it.
GroupSpec == [dir : {"down", "up", "both"}, filter : SUBSET Kinds, urls : SUBSET Urls,
              error : {"", "dir", "filter", "urls", "url"}]

\* The filters that do not compile
BadFilters == UNION {{f[g].filter : g \in {h \in DOMAIN f : f[h].error = "filter"}} : f \in Configs}

\* A filter compiles or does not, wherever it stands.
ASSUME RouterAssumption ==
    /\ Groups \subseteq Nat
    /\ StartConfigs \subseteq Configs
    /\ \A f \in Configs : \A g \in DOMAIN f :
          /\ g \in Groups /\ f[g] \in GroupSpec
          /\ f[g].error \in {"", "urls", "url"} => f[g].filter \notin BadFilters
    /\ MaxSockets \in Nat /\ MaxEdits \in Nat /\ MaxFailures \in Nat /\ MaxEvents \in Nat

Sockets == Groups \X Urls \X (1..MaxSockets)

VARIABLES
    status,       \* "start", "loaded", "run", "exit"
    file,         \* the configuration file
    inbox,        \* of "ConfigFileChange", "DBChange", "ReconnectCron"
    groups,       \* streamGroups: NoGroup or [dir, filterStr, filter, urls, conns]
    socks,        \* external: NoSocket, or connecting with an age; once connOpen has
                  \* seen it, the REQ it got, where it began, what it was sent
    stale,        \* history: sockets under which a load that failed half-way has
                  \* changed the settings of their group
    unseen,       \* history: the file was edited while nothing watched it
    log,          \* table Event: the kind of the event with each levId
    currEventId,
    edits, failures

counters == <<edits, failures>>
vars == <<status, file, inbox, groups, socks, stale, unseen, log, currEventId, counters>>

NoGroup  == [dir |-> "none"]
NoConn   == [sock |-> 0, age |-> -1]
NoSocket == [state |-> "closed"]
NoReq    == {}

\* started = 0, or so long ago that tryConnects connects again
LongAgo == 3
NewConn == [sock |-> 0, age |-> LongAgo]

\* With a socket; started is not looked at again before connClose resets it.
Holding(n) == [sock |-> n, age |-> LongAgo]

Connecting == [state |-> "connecting", age |-> 0]
Opened(req) == [state |-> "open", req |-> req, from |-> currEventId, sent |-> <<>>]

\* A group as try_emplace makes it
NewGroup == [dir |-> "", filterStr |-> {}, filter |-> {}, urls |-> {},
             conns |-> [u \in Urls |-> NoConn]]

Init ==
    /\ status = "start"
    /\ file \in StartConfigs
    /\ inbox = <<>>
    /\ groups = [g \in Groups |-> NoGroup]
    /\ socks = [k \in Sockets |-> NoSocket] /\ stale = {} /\ unseen = FALSE
    /\ log = <<>> /\ currEventId = 0
    /\ edits = 0 /\ failures = 0

Exists(g) == groups[g] # NoGroup

\* Whether socket k is in the conns of its group, when gs are the groups
Holds(gs, k) == gs[k[1]] # NoGroup /\ gs[k[1]].conns[k[2]].sock = k[3]
Held(k) == Holds(groups, k)

-----------------------------------------------------------------------------
(* StreamGroup *)

\* tryConnects: the urls of group r that have no socket and no recent attempt
Due(r) == {u \in r.urls : r.conns[u] = NoConn \/ r.conns[u] = NewConn}

\* ... after which each url has a Connection and those have just been started.
Started(r) ==
    [r EXCEPT !.conns = [u \in Urls |->
        IF u \in Due(r) THEN [sock |-> 0, age |-> 0] ELSE r.conns[u]]]

\* The socket of an attempt to connect group g to u, when ss are the sockets
Free(ss, g, u) == {n \in 1..MaxSockets : ss[<<g, u, n>>] = NoSocket}
FreeSocket(ss, g, u) == CHOOSE n \in Free(ss, g, u) : TRUE

\* Mutant: a new filter takes effect without a new REQ.
MutNeedsReconnect(r, spec) == r.dir # spec.dir

\* configure: whether the connections are closed and made anew
NeedsReconnect(r, spec) == r.dir # spec.dir \/ r.filterStr # spec.filter

\* ... and the group, when nothing throws
Configured(r, spec) ==
    [dir |-> spec.dir, filterStr |-> spec.filter, filter |-> spec.filter, urls |-> spec.urls,
     conns |-> [u \in Urls |-> IF u \in spec.urls /\ ~NeedsReconnect(r, spec)
                               THEN r.conns[u] ELSE NoConn]]

\* What configure leaves when it throws: no dir; a filter that does not
\* compile; a plugin that is not a string or no urls; a url that is not a string.
HalfConfigured(r, spec) ==
    CASE spec.error = "dir"    -> r
      [] spec.error = "filter" -> [r EXCEPT !.dir = spec.dir, !.filterStr = spec.filter]
      [] spec.error = "urls"   -> [r EXCEPT !.dir = spec.dir, !.filterStr = spec.filter,
                                            !.filter = spec.filter]
      [] spec.error = "url"    -> [r EXCEPT !.dir = spec.dir, !.filterStr = spec.filter,
                                            !.filter = spec.filter, !.urls = spec.urls]

-----------------------------------------------------------------------------
(* reconcileConfig *)

Current(g) == IF Exists(g) THEN groups[g] ELSE NewGroup

\* The groups of the file whose spec throws; the first one ends the loading.
Faulty == {g \in DOMAIN file : file[g].error # ""}
Reached(g) == g \in DOMAIN file /\ \A h \in Faulty : g < h

\* The groups after loading, before their new attempts to connect
Loaded == [g \in Groups |->
    CASE Reached(g)                                  -> Configured(Current(g), file[g])
      [] g \in Faulty /\ \A h \in Faulty : g <= h    -> HalfConfigured(Current(g), file[g])
      [] g \notin DOMAIN file /\ Faulty = {}         -> NoGroup
      [] OTHER                                       -> groups[g]]

\* Mutant: ~Connection does not close its socket.
MutRemaining(gs) == socks

\* The sockets after loading: what a group no longer holds was closed.
Remaining(gs) == [k \in Sockets |-> IF Held(k) /\ ~Holds(gs, k) THEN NoSocket ELSE socks[k]]

Changed(r, s) == r.dir # s.dir \/ r.filter # s.filter

\* Those held on to under changed settings: the load has failed.
Outdated(gs) == {k \in Sockets :
    /\ Held(k) /\ Holds(gs, k)
    /\ k \in stale \/ (k[1] \in Faulty /\ Changed(groups[k[1]], gs[k[1]]))}

\* An attempt to connect for each url that is due in the groups gs among who
Attempted(gs, who, ss) == [k \in Sockets |->
    IF /\ k[1] \in who /\ gs[k[1]] # NoGroup /\ k[2] \in Due(gs[k[1]])
       /\ k[3] = FreeSocket(ss, k[1], k[2])
    THEN Connecting ELSE ss[k]]

Connect(gs, who, ss) ==
    /\ \A g \in who : gs[g] # NoGroup => \A u \in Due(gs[g]) : Free(ss, g, u) # {}
    /\ groups' = [g \in Groups |-> IF g \in who /\ gs[g] # NoGroup THEN Started(gs[g]) ELSE gs[g]]
    /\ socks' = Attempted(gs, who, ss)

ReconcileConfig ==
    /\ Connect(Loaded, {g \in Groups : Reached(g)}, Remaining(Loaded))
    /\ stale' = Outdated(Loaded)

\* The constructor; a file that does not load ends the process.
Start ==
    /\ status = "start"
    /\ ReconcileConfig
    /\ status' = IF Faulty = {} THEN "loaded" ELSE "exit"
    /\ UNCHANGED <<file, inbox, unseen, log, currEventId, counters>>

\* run(): from here on the two files are watched, and the loop runs.
Run ==
    /\ status = "loaded"
    /\ status' = "run"
    /\ UNCHANGED <<file, inbox, groups, socks, stale, unseen, log, currEventId, counters>>

-----------------------------------------------------------------------------
(* onTrigger: one message of the inbox *)

Handling(type) ==
    /\ status = "run" /\ inbox # <<>> /\ Head(inbox) = type
    /\ inbox' = Tail(inbox)
    /\ UNCHANGED <<status, file, log, counters>>

HandleConfig ==
    /\ Handling("ConfigFileChange")
    /\ ReconcileConfig
    /\ unseen' = FALSE
    /\ UNCHANGED currEventId

HandleCron ==
    /\ Handling("ReconnectCron")
    /\ Connect(groups, Groups, socks)
    /\ UNCHANGED <<stale, unseen, currEventId>>

\* outgoingEvent
Uploads(r, kind) == r.dir # "down" /\ kind \in r.filter /\ kind \notin UpRefused

\* Mutant: starts at currEventId, and sends the last event again.
MutNewIds == {i \in DOMAIN log : i >= currEventId}

\* The events above currEventId
NewIds == (currEventId + 1)..Len(log)

\* A set of numbers in ascending order
InOrder(s, S) ==
    /\ \A i, j \in DOMAIN s : i < j => s[i] < s[j]
    /\ {s[i] : i \in DOMAIN s} = S
Ascending(S) == CHOOSE s \in [1..Cardinality(S) -> S] : InOrder(s, S)

\* The new events a group sends
Upload(r) == Ascending({i \in NewIds : Uploads(r, log[i])})

HandleDBChange ==
    /\ Handling("DBChange")
    /\ currEventId' = Len(log)
    /\ socks' = [k \in Sockets |->
         IF Held(k) THEN [socks[k] EXCEPT !.sent = socks[k].sent \o Upload(groups[k[1]])]
                    ELSE socks[k]]
    /\ UNCHANGED <<groups, stale, unseen>>

-----------------------------------------------------------------------------
(* The callbacks of the hub *)

\* Mutant: the pointer to the socket stays.
MutClosed(k) ==
    /\ socks' = [socks EXCEPT ![k] = NoSocket]
    /\ stale' = stale \ {k}
    /\ groups' = groups

\* onDisconnection for socket k: connClose, if it is the one that is held.
Closed(k) ==
    /\ socks' = [socks EXCEPT ![k] = NoSocket]
    /\ stale' = stale \ {k}
    /\ groups' = IF Held(k) THEN [groups EXCEPT ![k[1]].conns[k[2]] = NewConn] ELSE groups

Running == status = "run"

\* The filter of the REQ for a direction and filter
Wanted(r) == IF r.dir # "up" THEN r.filter ELSE NoReq

\* onConnection and connOpen: closed if its group is gone or there is another
\* socket; left alone if the url is gone; else held, and sent a REQ.
ConnOpen(k) ==
    /\ Running /\ socks[k].state = "connecting"
    /\ \/ /\ Exists(k[1]) => groups[k[1]].conns[k[2]].sock # 0
          /\ Closed(k)
       \/ /\ Exists(k[1]) /\ groups[k[1]].conns[k[2]] = NoConn
          /\ socks' = [socks EXCEPT ![k] = Opened(NoReq)]
          /\ UNCHANGED <<groups, stale>>
       \/ /\ Exists(k[1]) /\ groups[k[1]].conns[k[2]] # NoConn
          /\ groups[k[1]].conns[k[2]].sock = 0
          /\ groups' = [groups EXCEPT ![k[1]].conns[k[2]] = Holding(k[3])]
          /\ socks' = [socks EXCEPT ![k] = Opened(Wanted(groups[k[1]]))]
          /\ UNCHANGED stale
    /\ UNCHANGED <<status, file, inbox, unseen, log, currEventId, counters>>

\* onError: the attempt has failed or timed out.
ConnError(k) ==
    /\ Running /\ socks[k].state = "connecting"
    /\ failures < MaxFailures
    /\ failures' = failures + 1
    /\ socks' = [socks EXCEPT ![k] = NoSocket]
    /\ UNCHANGED <<status, file, inbox, groups, stale, unseen, log, currEventId, edits>>

ConnLost(k) ==
    /\ Running /\ socks[k].state = "open"
    /\ failures < MaxFailures
    /\ failures' = failures + 1
    /\ Closed(k)
    /\ UNCHANGED <<status, file, inbox, unseen, log, currEventId, edits>>

\* onMessage2 for a group that is gone
StrayMessage(k) ==
    /\ Running /\ socks[k].state = "open" /\ ~Exists(k[1])
    /\ Closed(k)
    /\ UNCHANGED <<status, file, inbox, unseen, log, currEventId, counters>>

-----------------------------------------------------------------------------
(* The monitors and the timer, once run() has started them.  Messages alike *)
(* in a row have the effect of one.                                        *)

Post(type) == inbox' = IF ~Running \/ (inbox # <<>> /\ inbox[Len(inbox)] = type)
                       THEN inbox ELSE Append(inbox, type)

Edit ==
    /\ status \in {"loaded", "run"} /\ edits < MaxEdits
    /\ edits' = edits + 1
    /\ file' \in Configs \ {file}
    /\ Post("ConfigFileChange")
    /\ unseen' = (unseen \/ ~Running)
    /\ UNCHANGED <<status, groups, socks, stale, log, currEventId, failures>>

\* Someone stores an event: another process or the pipeline.
Store(kind) ==
    /\ status \in {"loaded", "run"} /\ Len(log) < MaxEvents
    /\ log' = Append(log, kind)
    /\ Post("DBChange")
    /\ UNCHANGED <<status, file, groups, socks, stale, unseen, currEventId, counters>>

\* A Connection whose last attempt is a timeout older
Older(c) == IF c.age \in 0..(LongAgo - 1) THEN [c EXCEPT !.age = c.age + 1] ELSE c

\* A connection timeout passes.  The loop has handled its inbox by then, and
\* no attempt to connect lives on for another.
Tick ==
    /\ Running /\ inbox = <<>>
    /\ \A k \in Sockets : socks[k].state = "connecting" => socks[k].age = 0
    /\ socks' = [k \in Sockets |-> IF socks[k].state = "connecting"
                                   THEN [socks[k] EXCEPT !.age = 1] ELSE socks[k]]
    /\ groups' = [g \in Groups |->
         IF ~Exists(g) THEN NoGroup
         ELSE [groups[g] EXCEPT !.conns = [u \in Urls |-> Older(groups[g].conns[u])]]]
    /\ Post("ReconnectCron")
    /\ UNCHANGED <<status, file, stale, unseen, log, currEventId, counters>>

-----------------------------------------------------------------------------
Loop == Start \/ Run \/ HandleConfig \/ HandleCron \/ HandleDBChange

Next ==
    \/ Loop \/ Edit \/ Tick
    \/ \E kind \in Kinds : Store(kind)
    \/ \E k \in Sockets : ConnOpen(k) \/ ConnError(k) \/ ConnLost(k) \/ StrayMessage(k)

Spec == Init /\ [][Next]_vars

\* The loop goes on, time passes, attempts to connect end (the bound on failures
\* stands for: not all of them fail).  One such step can be taken at any time
\* until the process exits, and each of the others uses up a bound or a stray
\* socket: this is weak fairness of Loop, Tick and ConnOpen together.
FairSpec == Spec /\ ([]<>(status = "exit") \/ []<><<UNCHANGED <<counters, log>>>>_vars)

-----------------------------------------------------------------------------
(* Properties *)

Open(k) == socks[k].state = "open"

\* A socket that its group does not hold (any more) never was subscribed and
\* never gets an event: removing a url or a group, and reconnecting, close what
\* they drop, whatever attempts were under way; and what a group holds is open.
NoOrphans ==
    \A k \in Sockets :
        IF Held(k) THEN Open(k)
        ELSE Open(k) => socks[k].req = NoReq /\ socks[k].sent = <<>>

\* A connection is subscribed with the filter its group has now, if events go
\* down; unless a load that failed half-way has changed the group under it.
Subscribed ==
    \A k \in Sockets :
        Held(k) /\ k \notin stale => socks[k].req = Wanted(groups[k[1]])

\* While it is open a connection gets each new event its group is to upload,
\* once and in order, whatever is reloaded or reconnected around it; unless a
\* load that failed half-way has changed the group under it.
UploadsExact ==
    \A k \in Sockets :
        Held(k) /\ k \notin stale
        => InOrder(socks[k].sent, {i \in (socks[k].from + 1)..currEventId :
                                     Uploads(groups[k[1]], log[i])})

\* Connection k of a url in the file, subscribed as the file says
Serves(k) == /\ Held(k) /\ Open(k)
             /\ k \in stale \/ socks[k].req = Wanted(file[k[1]])

AsConfigured ==
    /\ \A g \in Groups : Exists(g) <=> g \in DOMAIN file
    /\ \A g \in DOMAIN file :
          /\ groups[g].dir = file[g].dir /\ groups[g].filter = file[g].filter
          /\ groups[g].urls = file[g].urls
          /\ \A u \in file[g].urls : \E n \in 1..MaxSockets : Serves(<<g, u, n>>)
    /\ \A k \in Sockets : Held(k) => k[2] \in file[k[1]].urls

\* When the file stops changing, and loads, the router ends up with its groups and
\* connected to the urls of each and no others, subscribed as the file says, after
\* any lost connections, failed attempts and failed loads.  Two things spoil it:
\* an edit between the constructor's load and run(), which nobody notices; and
\* a connection kept through a load that failed half-way, whose REQ is the old
\* one (FilterInForce).
Converges == <>[](Running /\ Faulty = {} /\ ~unseen => AsConfigured)

\* docs/router.md:15, 83: a file that loads is reconciled with the state there
\* is, and a changed filter closes and opens the connections again; so, once it
\* is loaded, every connection that is held is subscribed as it says.
FilterInForce ==
    Running /\ Faulty = {} /\ ~unseen /\ (\A i \in DOMAIN inbox : inbox[i] # "ConfigFileChange")
    => \A k \in Sockets : Held(k) => socks[k].req = Wanted(file[k[1]])
=============================================================================
