--------------------------- MODULE StoreRefinement ---------------------------
(* EventStore implements AbstractStore: levIds are forgotten, and the        *)
(* writer's copy is the open transaction for as long as it is writing.       *)
EXTENDS EventStore

EventsIn(d) == {r.ev : r \in d}

Abs == INSTANCE AbstractStore WITH
           stored <- EventsIn(db),
           open   <- pc = "writing",
           work   <- IF pc = "writing" THEN EventsIn(wdb) ELSE {}

\* Every behaviour of the relay's store (batches, cron, crashes, negentropy
\* commands) is one of the abstract store: writeEvents, which inserts under the
\* next levId, looks at the last entry of the replace index only and deletes
\* afterwards by levId, has the effect of accepting each event atomically, a
\* batch becomes visible as a whole or not at all, and nothing leaves the store
\* except by being superseded, deleted by its author or expired.
Implements == Abs!Spec
=============================================================================
