--------------------------- MODULE NegentropyViews ---------------------------
(***************************************************************************)
(* The Negentropy thread of the relay (RelayNegentropy.cpp): the views of  *)
(* each connection, the QueryScheduler that fills memory views slice by    *)
(* slice, and the database changing below between two loops of the thread. *)
(*                                                                         *)
(* An event is its levId.  A NEG-OPEN asks for a tree the database keeps,  *)
(* or carries one filter: the events it matches and the client's limit (an *)
(* array of filters, which the code takes too, is left out).  A payload is *)
(* reduced to whether it parses.  The k-th message the thread              *)
(* handles has number k; a NEG-OPEN's number names its subscription, query *)
(* and view.  Messages are chosen when they are handled: the client sends  *)
(* what it likes, so the inbox before that is not observable.  The thread  *)
(* reads one snapshot per round and a commit during the round is first     *)
(* seen in the next one, so commits are placed between rounds and db is    *)
(* the snapshot of the round under way.                                    *)
(***************************************************************************)
EXTENDS Integers, Sequences, FiniteSets

CONSTANTS
    Conns, SubIds,
    MemFilters,          \* filters: the levIds that match, the client's limit
    CreatedAt,           \* levId -> created_at
    MaxSubsPerConn,      \* cfg().relay__maxSubsPerConnection
    MaxSyncEvents,       \* cfg().relay__negentropy__maxSyncEvents
    StartDb,             \* levIds stored at the start
    MaxLevId, MaxMsgs, MaxPauses, MaxRemovals    \* bounds

ASSUME NegAssumption ==
    /\ MaxSubsPerConn \in Nat \ {0} /\ MaxSyncEvents \in Nat
    /\ MaxLevId \in Nat /\ MaxMsgs \in Nat /\ MaxPauses \in Nat /\ MaxRemovals \in Nat
    /\ StartDb \subseteq 1..MaxLevId /\ CreatedAt \in [1..MaxLevId -> Nat]
    /\ \E m \in StartDb \cup {0} : \A n \in StartDb : n <= m
    /\ \A f \in MemFilters : f.match \subseteq 1..MaxLevId /\ f.limit \in Nat

Ids == Conns \X SubIds      \* views and queries are keyed by connection and id
Msgs == 1..MaxMsgs

VARIABLES
    db, lastLevId, removed,     \* the Event table, its highest levId, a counter
    pc,        \* "top", "batch", "open" (in NegOpen's process), "end", or the end of
               \* the process: "bad_variant", "undefined"
    handled,   \* number of messages handled
    views,     \* NegentropyViews::conns, as a partial function on Ids
    reg,       \* QueryScheduler::conns: Ids -> number of the query
    running,   \* QueryScheduler::running
    queries,   \* number -> the DBQuery
    dead,      \* DBQuery::dead
    closed,    \* connections closed
    current,   \* history: the subscription each id has for the client, or 0
    overtaken, \* history: queries whose view a tree's NEG-OPEN took away
    out        \* history: the answers to each NEG-OPEN

database == <<db, lastLevId, removed>>
sched == <<reg, running, queries, dead>>
vars == <<database, sched, pc, handled, views, closed, current, overtaken, out>>

NoQuery == [id |-> CHOOSE i \in Ids : TRUE, filter |-> [match |-> {}, limit |-> 0],
            latest |-> 0, ok |-> TRUE, got |-> {}, buf |-> {}, pauses |-> 0]

Remove(f, id) == [i \in DOMAIN f \ {id} |-> f[i]]
Set(f, id, v) == [i \in DOMAIN f \cup {id} |-> IF i = id THEN v ELSE f[i]]
OfConn(f, c) == {i \in DOMAIN f : i[1] = c}
MaxOf(S) == CHOOSE m \in S \cup {0} : \A n \in S : n <= m

Init ==
    /\ db = StartDb /\ lastLevId = MaxOf(StartDb) /\ removed = 0
    /\ pc = "top" /\ handled = 0
    /\ views = <<>> /\ reg = <<>> /\ running = <<>>
    /\ queries = [g \in Msgs |-> NoQuery] /\ dead = {} /\ closed = {}
    /\ current = [i \in Ids |-> 0] /\ overtaken = {}
    /\ out = [g \in Msgs |-> <<>>]

-----------------------------------------------------------------------------
(* The database: the writer appends, cron removes all but the most recent. *)

WriteEvent ==
    /\ pc = "top" /\ lastLevId < MaxLevId
    /\ lastLevId' = lastLevId + 1
    /\ db' = db \cup {lastLevId + 1}
    /\ UNCHANGED <<removed, sched, pc, handled, views, closed, current, overtaken, out>>

RemoveEvent(e) ==
    /\ pc = "top" /\ removed < MaxRemovals
    /\ e \in db \ {lastLevId}
    /\ db' = db \ {e}
    /\ removed' = removed + 1
    /\ UNCHANGED <<lastLevId, sched, pc, handled, views, closed, current, overtaken, out>>

-----------------------------------------------------------------------------
(* QueryScheduler *)

\* The query removeSub or closeConn marks dead.
Kill(id) == IF id \in DOMAIN reg THEN {reg[id]} ELSE {}

\* removeSub
RemoveSub(id) == dead' = dead \cup Kill(id) /\ reg' = Remove(reg, id)

\* addSub's limit; a query of the same id has been removed before.
QueriesFull(id) == Cardinality(OfConn(Remove(reg, id), id[1])) >= MaxSubsPerConn

\* The same for addMemoryView and addStatelessView.
ViewsFull(id) == Cardinality(OfConn(Remove(views, id), id[1])) >= MaxSubsPerConn

-----------------------------------------------------------------------------
(* The thread's loop *)

\* Mutant: the thread always waits for a message.
MutWake ==
    /\ pc = "top" /\ handled < MaxMsgs
    /\ pc' = "batch"
    /\ UNCHANGED <<database, sched, handled, views, closed, current, overtaken, out>>

\* pop_all, which waits only while no query is running, and txn_ro.
Wake ==
    /\ pc = "top"
    /\ running # <<>> \/ handled < MaxMsgs
    /\ pc' = "batch"
    /\ UNCHANGED <<database, sched, handled, views, closed, current, overtaken, out>>

EndBatch ==
    /\ pc = "batch"
    /\ pc' = "end"
    /\ UNCHANGED <<database, sched, handled, views, closed, current, overtaken, out>>

\* The next message of the batch, from connection c.
Handling(c) ==
    /\ pc = "batch" /\ handled < MaxMsgs /\ c \notin closed
    /\ handled' = handled + 1
    /\ UNCHANGED database

Reply(g, what) == out' = [out EXCEPT ![g] = @ \o what]

\* The view a NEG-OPEN with a tree leaves behind: handleReconcile removes it
\* when the payload does not parse, addStatelessView adds it all the same,
\* unless the connection has too many.
NegOpenTree(id, ok) ==
    LET g == handled + 1 IN
    /\ Handling(id[1])
    /\ IF ViewsFull(id)
       THEN /\ views' = Remove(views, id)
            /\ RemoveSub(id)
            /\ UNCHANGED overtaken
       ELSE /\ views' = Set(views, id, [kind |-> "tree", gen |-> g, levIds |-> {},
                                        sealed |-> TRUE, found |-> {}, held |-> {}])
            /\ overtaken' = overtaken \cup (Kill(id) \ dead)
            /\ UNCHANGED <<reg, dead>>
    /\ Reply(g, <<IF ok THEN "NEG-MSG" ELSE "NEG-ERR">>
                  \o IF ViewsFull(id) THEN <<"NOTICE">> ELSE <<>>)
    /\ current' = [current EXCEPT ![id] = g]
    /\ UNCHANGED <<pc, running, queries, closed>>

\* addSub and addMemoryView; the call of queries.process that ends the handler
\* is the next step.
NegOpenMemory(id, f, ok) ==
    LET g     == handled + 1
        added == ~QueriesFull(id)
        kept  == ~ViewsFull(id)
    IN
    /\ Handling(id[1])
    /\ dead' = dead \cup Kill(id) \cup (IF added /\ ~kept THEN {g} ELSE {})
    /\ reg' = IF added /\ kept THEN Set(reg, id, g) ELSE Remove(reg, id)
    /\ running' = IF added THEN <<g>> \o running ELSE running
    /\ queries' = [queries EXCEPT ![g] =
           [id |-> id, filter |-> f, latest |-> MaxOf(db), ok |-> ok,
            got |-> {}, buf |-> {}, pauses |-> 0]]
    /\ views' = IF kept THEN Set(views, id, [kind |-> "memory", gen |-> g, levIds |-> {},
                                             sealed |-> FALSE, found |-> {}, held |-> {}])
                ELSE Remove(views, id)
    /\ Reply(g, (IF added THEN <<>> ELSE <<"NOTICE">>) \o (IF kept THEN <<>> ELSE <<"NOTICE">>))
    /\ current' = [current EXCEPT ![id] = g]
    /\ pc' = "open"
    /\ UNCHANGED <<closed, overtaken>>

\* NEG-ERR for an unknown subscription, a NOTICE for one that is not complete;
\* otherwise handleReconcile, which removes the view if the payload is bad.
NegMsg(id, ok) ==
    /\ Handling(id[1])
    /\ views' = IF id \in DOMAIN views /\ views[id].sealed /\ ~ok
                THEN Remove(views, id) ELSE views
    /\ UNCHANGED <<sched, pc, closed, current, overtaken, out>>

\* Mutant: the view is dropped, its query is not.
MutNegClose(id) ==
    /\ Handling(id[1])
    /\ views' = Remove(views, id)
    /\ current' = [current EXCEPT ![id] = 0]
    /\ UNCHANGED <<reg, dead, running, queries, pc, closed, overtaken, out>>

NegClose(id) ==
    /\ Handling(id[1])
    /\ RemoveSub(id)
    /\ views' = Remove(views, id)
    /\ current' = [current EXCEPT ![id] = 0]
    /\ UNCHANGED <<running, queries, pc, closed, overtaken, out>>

\* The last message of a connection.
CloseConn(c) ==
    /\ Handling(c)
    /\ closed' = closed \cup {c}
    /\ dead' = dead \cup UNION {Kill(i) : i \in OfConn(reg, c)}
    /\ reg' = [i \in DOMAIN reg \ OfConn(reg, c) |-> reg[i]]
    /\ views' = [i \in DOMAIN views \ OfConn(views, c) |-> views[i]]
    /\ current' = [i \in Ids |-> IF i[1] = c THEN 0 ELSE current[i]]
    /\ UNCHANGED <<running, queries, pc, overtaken, out>>

-----------------------------------------------------------------------------
(* QueryScheduler::process with the callbacks of the thread *)

Return == pc' = IF pc = "open" THEN "batch" ELSE "top"

ProcessNothing ==
    /\ pc \in {"open", "end"} /\ running = <<>>
    /\ Return
    /\ UNCHANGED <<database, sched, handled, views, closed, current, overtaken, out>>

\* delete q
Delete(g) ==
    /\ running' = Tail(running)
    /\ queries' = [queries EXCEPT ![g] = NoQuery]
    /\ overtaken' = overtaken \ {g}

ProcessDead ==
    /\ pc \in {"open", "end"} /\ running # <<>> /\ Head(running) \in dead
    /\ Return
    /\ Delete(Head(running))
    /\ dead' = dead \ {Head(running)}
    /\ UNCHANGED <<database, reg, handled, views, closed, current, out>>

\* Events the query has yet to deliver.
Due(q) == {e \in db \cap q.filter.match : e <= q.latest} \ q.got

\* The filter's own limit, but at most maxSyncEvents + 1.
Limit(q) == IF q.filter.limit > MaxSyncEvents THEN MaxSyncEvents + 1 ELSE q.filter.limit

\* What one slice may deliver: events due, the newest first, and candidates
\* queued by an earlier slice, which may have been removed since.
Delivers(q, S) ==
    /\ S \subseteq (Due(q) \cup q.buf)
    /\ Cardinality(q.got \cup S) <= Limit(q)
    /\ \A d \in S, e \in Due(q) \ S : CreatedAt[e] <= CreatedAt[d]

Completes(q, S) == Due(q) \subseteq S \/ Cardinality(q.got \cup S) = Limit(q)

Sliced == pc \in {"open", "end"} /\ running # <<>> /\ Head(running) \notin dead

\* The slice ends before the scan: the view keeps what was found.
SlicePauses(S) ==
    LET g == Head(running)  q == queries[g] IN
    /\ q.pauses < MaxPauses
    /\ queries' = [queries EXCEPT ![g] = [q EXCEPT !.got = @ \cup S,
                                                   !.buf = (@ \cup Due(q)) \ S,
                                                   !.pauses = @ + 1]]
    /\ running' = Append(Tail(running), g)
    /\ views' = IF q.id \in DOMAIN views
                THEN [views EXCEPT ![q.id].levIds = @ \cup S] ELSE views
    /\ Return
    /\ UNCHANGED <<reg, dead, overtaken, out>>

\* Mutant: levIds are taken into the view without looking them up.
MutStillThere(levIds) == levIds

\* lookupEventByLevId throws for those that were removed meanwhile.
StillThere(levIds) == levIds \cap db

\* The scan is complete: removeSub, then onComplete.
SliceCompletes(S) ==
    LET g == Head(running)  q == queries[g]
        found == views[q.id].levIds \cup S
    IN
    /\ Completes(q, S)
    /\ reg' = Remove(reg, q.id)       \* removeSub, for the query itself
    /\ dead' = dead \cup (Kill(q.id) \ {g})
    /\ Delete(g)
    /\ \/ q.id \notin DOMAIN views /\ Return /\ UNCHANGED <<views, out>>
       \/ /\ q.id \in DOMAIN views /\ Cardinality(found) > MaxSyncEvents
          /\ Reply(views[q.id].gen, <<"NEG-ERR">>)
          /\ views' = Remove(views, q.id)
          /\ Return
       \/ /\ q.id \in DOMAIN views /\ Cardinality(found) <= MaxSyncEvents /\ q.ok
          /\ Reply(views[q.id].gen, <<"NEG-MSG">>)
          /\ views' = [views EXCEPT ![q.id] = [@ EXCEPT !.levIds = {}, !.sealed = TRUE, !.found = found,
                                                        !.held = StillThere(found)]]
          /\ Return
          \* The payload does not parse: the view is removed, and its initialMsg
          \* is cleared after that, which is undefined behaviour.
       \/ /\ q.id \in DOMAIN views /\ Cardinality(found) <= MaxSyncEvents /\ ~q.ok
          /\ Reply(views[q.id].gen, <<"NEG-ERR">>)
          /\ views' = Remove(views, q.id)
          /\ Return \/ pc' = "undefined"

\* One call of DBQuery::process for the query in front.
Slice(S) ==
    LET q == queries[Head(running)] IN
    /\ Sliced
    /\ Delivers(q, S)
    /\ q.id \in DOMAIN views => views[q.id].kind = "memory"
    /\ SlicePauses(S) \/ SliceCompletes(S)
    /\ UNCHANGED <<database, handled, closed, current>>

\* onEventBatch finds a tree view under the query's id: "bad variant".  Nothing
\* catches the exception.
SliceThrows ==
    /\ Sliced
    /\ LET id == queries[Head(running)].id IN
       id \in DOMAIN views /\ views[id].kind = "tree"
    /\ pc' = "bad_variant"
    /\ UNCHANGED <<database, sched, handled, views, closed, current, overtaken, out>>

Thread ==
    \/ Wake \/ EndBatch \/ ProcessNothing \/ ProcessDead \/ SliceThrows
    \/ /\ Sliced
       /\ LET q == queries[Head(running)] IN \E S \in SUBSET (Due(q) \cup q.buf) : Slice(S)

Client ==
    \/ \E id \in Ids, ok \in BOOLEAN :
          \/ NegOpenTree(id, ok) \/ NegMsg(id, ok)
          \/ \E f \in MemFilters : NegOpenMemory(id, f, ok)
    \/ \E id \in Ids : NegClose(id)
    \/ \E c \in Conns : CloseConn(c)

Next == Thread \/ Client \/ WriteEvent \/ \E e \in db : RemoveEvent(e)

\* The thread runs for ever; clients and the database owe nothing.
Spec == Init /\ [][Next]_vars /\ WF_vars(Thread)

-----------------------------------------------------------------------------
(* Properties *)

\* A live query.
Live == {running[k] : k \in DOMAIN running} \ dead

\* A query that may still run is registered under its id, and the view under
\* that id is the one its own NEG-OPEN made: onEventBatch and onComplete, which
\* find the view by id, never pour a query's results into the view of another
\* one.  Only a NEG-OPEN answered from a tree can come between them, and the
\* "bad variant" exception has no other cause.
QueryOwnsView ==
    /\ \A g \in Live \ overtaken :
          LET id == queries[g].id IN
          /\ id \in DOMAIN reg /\ reg[id] = g
          /\ id \in DOMAIN views /\ views[id].gen = g /\ ~views[id].sealed
    /\ pc = "bad_variant" => Head(running) \in overtaken

\* A memory view that is sealed holds events that matched its own filter when
\* the NEG-OPEN was handled and that still exist, although they were collected
\* in several snapshots with events added and removed between.  It holds all of
\* them, unless the client asked for fewer than maxSyncEvents + 1: then the
\* query has found as many as that, and none that is left out is newer than one
\* of those.
SealedExact ==
    [][\A id \in DOMAIN views \cap DOMAIN views' :
         ~views[id].sealed /\ views'[id].sealed /\ views'[id].kind = "memory"
         => LET q == queries[views[id].gen]
                v == views'[id]
                matching == {e \in q.filter.match \cap db : e <= q.latest}
            IN  /\ v.held \subseteq matching
                /\ \A e \in matching \ v.held :
                     /\ Cardinality(v.found) = q.filter.limit
                     /\ \A d \in v.found : CreatedAt[e] <= CreatedAt[d]]_vars

\* Every NEG-OPEN is answered, in the end, unless the client has closed or
\* replaced the subscription or the process has ended: a paused query goes on
\* although no further message arrives.
EveryOpenAnswered ==
    \A g \in Msgs :
        (\E id \in Ids : current[id] = g)
        ~> \/ out[g] # <<>> \/ \A id \in Ids : current[id] # g
           \/ pc \in {"bad_variant", "undefined"}
=============================================================================
