---------------------------- MODULE AbstractStore ----------------------------
(***************************************************************************)
(* What the event store promises, without levIds, indices, batches' order  *)
(* or threads: a set of events that changes by transactions.  Inside a     *)
(* transaction an event is put at once together with everything it makes   *)
(* disappear; outside of one, expired events vanish.                       *)
(***************************************************************************)
EXTENDS PackedEvent

CONSTANTS Events, EphemeralLifetime, StartNow, MaxNow

VARIABLES
    stored,   \* the events anybody can read
    open,     \* a write transaction is open
    work,     \* what will be stored if it commits
    now

vars == <<stored, open, work, now>>

Init == stored = {} /\ open = FALSE /\ work = {} /\ now = StartNow

\* The versions of ev: stored events with its address.
VersionsOf(S, ev) == {x \in S : Versioned(ev) /\ HasD(x) /\ ReplaceKey(x) = ReplaceKey(ev)}

Begin == ~open /\ open' = TRUE /\ work' = stored /\ UNCHANGED <<stored, now>>

\* An event is accepted when it is new, nobody deleted it and it supersedes
\* every version there is; what it supersedes or deletes leaves with it.
Put(ev) ==
    /\ open
    /\ ev \notin work
    /\ \A x \in work : ~Deletes(x, ev)
    /\ \A x \in VersionsOf(work, ev) : Supersedes(ev, x)
    /\ work' = {x \in work \cup {ev} : x \notin VersionsOf(work, ev) /\ ~Deletes(ev, x)}
    /\ UNCHANGED <<stored, open, now>>

Commit == open /\ open' = FALSE /\ stored' = work /\ work' = {} /\ UNCHANGED now

Abort == open /\ open' = FALSE /\ work' = {} /\ UNCHANGED <<stored, now>>

MayExpire(ev) ==
    /\ ev.expiration # 0 /\ ev.expiration <= now
    /\ ev.expiration = 1 => ev.created + EphemeralLifetime <= now

Expire(S) ==
    /\ ~open
    /\ \A x \in S : MayExpire(x)
    /\ stored' = stored \ S
    /\ UNCHANGED <<open, work, now>>

Tick == now < MaxNow /\ now' = now + 1 /\ UNCHANGED <<stored, open, work>>

Next ==
    \/ Begin \/ Commit \/ Abort \/ Tick
    \/ \E ev \in Events : Put(ev)
    \/ \E S \in SUBSET stored : Expire(S)

Spec == Init /\ [][Next]_vars
=============================================================================
