------------------------------- MODULE DBScan -------------------------------
(***************************************************************************)
(* A query (DBQuery.h): DBQuery::process runs one DBScan per filter of the *)
(* group.  A scan has one cursor per key of the index it chose, collects a *)
(* few candidates from each, and works through them newest first, asking a *)
(* cursor for more when its last candidate has been taken.  A query may    *)
(* pause at the top of any round of its loop; the database changes below   *)
(* it only while it is paused, because a time slice reads one snapshot.    *)
(*                                                                         *)
(* The event with levId n is EventAt[n].  An index is a set of records     *)
(* [key, created, levId]; keys are numbers in the order of the index.      *)
(***************************************************************************)
EXTENDS Filters, FilterSet, Functions

CONSTANTS
    EventAt,          \* the events in the order in which they are written
    StartLevId,       \* the most recent one when the query begins
    Groups,           \* filter groups; a filter has a limit as well
    InitialScanDepth, \* clamp(limit / cursors, 5, 50)
    RefillScanDepth,  \* ten times that
    SmallProduct,     \* 1'000: authors x kinds below it use one index
    CreatedLimit,     \* 2^40: created of a CandidateEvent is below it
    TagKey,           \* where a tag [name, val] is in the order of its index,
    PubkeyKindKey,    \* and a pair of pubkey and kind: distinct numbers
    MaxPauses, MaxRemovals   \* bounds

\* A NostrFilter: finite sets of values, at most one of each kind.
FilterOK(f) ==
    /\ {f.since, f.until, f.limit} \subseteq Nat
    /\ \A field \in {f.ids, f.authors, f.kinds} :
         /\ field = {} \/ \E vals \in field : field = {vals}
         /\ \A vals \in field : vals \subseteq Nat /\ IsFiniteSet(vals)
    /\ \A a \in UNION f.authors, k \in UNION f.kinds : <<a, k>> \in DOMAIN PubkeyKindKey
    /\ IsFiniteSet(DOMAIN f.tags)
    /\ \A name \in DOMAIN f.tags :
         /\ IsFiniteSet(f.tags[name])
         /\ \A v \in f.tags[name] : [name |-> name, val |-> v] \in DOMAIN TagKey

\* A stored event.  The timestamp check of the relay keeps created_at near the
\* present, far below 2^40.  (`strfry import` does not check it.)
EventOK(ev) ==
    /\ {ev.id, ev.pubkey, ev.kind} \subseteq Nat
    /\ ev.created \in 0..(CreatedLimit - 1)
    /\ <<ev.pubkey, ev.kind>> \in DOMAIN PubkeyKindKey
    /\ IsFiniteSet(DOMAIN ev.tags)
    /\ \A i \in DOMAIN ev.tags : ev.tags[i] \in DOMAIN TagKey

ASSUME KeyAssumption ==
    /\ \A keys \in {TagKey, PubkeyKindKey} :
         IsInjective(keys) /\ \A x \in DOMAIN keys : keys[x] \in Nat
    /\ \A t \in DOMAIN TagKey : t = [name |-> t.name, val |-> t.val]

ASSUME ScanAssumption ==
    /\ CreatedLimit \in Nat \ {0}
    /\ EventAt \in Seq(Range(EventAt))
    /\ StartLevId \in DOMAIN EventAt
    /\ InitialScanDepth \in Nat \ {0} /\ RefillScanDepth \in Nat \ {0} /\ SmallProduct \in Nat
    /\ \A n \in DOMAIN EventAt : EventOK(EventAt[n])
    /\ \A g \in Groups : g \in Seq(Range(g)) /\ \A k \in DOMAIN g : FilterOK(g[k])

VARIABLES
    group,      \* the filters of the query
    db,         \* levIds stored
    written,    \* the highest levId given out
    pc,         \* "filter", "scan", "paused", "filterDone", "complete"
    filter,     \* filterGroupIndex, from 1
    scanner,    \* [index, indexOnly] of the DBScan
    cursors,    \* [key, pos, outstanding]; pos is Inactive at the end
    queue,      \* eventQueue: sequence of [packed, levId]
    nextInit,   \* nextInitIndex, from 1
    order,      \* sentEventsCurr, in the order of insertion
    sent,       \* sentEventsFull, in the order in which the callback got them
    pauses, removals

scan == <<scanner, cursors, queue, nextInit>>
vars == <<group, db, written, pc, filter, scan, order, sent, pauses, removals>>

F == group[filter]

-----------------------------------------------------------------------------
(* CandidateEvent *)

Candidate(levId, created, scanIndex) ==
    [packed |-> scanIndex * CreatedLimit + created, levId |-> levId]

CreatedOf(c) == c.packed % CreatedLimit

ScanIndexOf(c) == c.packed \div CreatedLimit

\* cmp of scan: the order of the queue, newest first.
Cmp(a, b) ==
    IF CreatedOf(a) = CreatedOf(b) THEN a.levId > b.levId ELSE CreatedOf(a) > CreatedOf(b)

-----------------------------------------------------------------------------
(* The constructor of DBScan: which index, which keys, index only or not. *)

IndexKeys(index, ev) ==
    CASE index = "ID"         -> {ev.id}
      [] index = "Tag"        -> {TagKey[ev.tags[i]] : i \in DOMAIN ev.tags}
      [] index = "PubkeyKind" -> {PubkeyKindKey[<<ev.pubkey, ev.kind>>]}
      [] index = "Pubkey"     -> {ev.pubkey}
      [] index = "Kind"       -> {ev.kind}
      [] index = "CreatedAt"  -> {0}

\* The tag with the fewest values.
ScanTag(f) ==
    CHOOSE n \in DOMAIN f.tags :
        \A m \in DOMAIN f.tags : Cardinality(f.tags[n]) <= Cardinality(f.tags[m])

Product(f) == {PubkeyKindKey[<<a, k>>] : a \in UNION f.authors, k \in UNION f.kinds}

IndexOf(f) ==
    CASE f.ids # {}                -> "ID"
      [] f.ids = {} /\ DOMAIN f.tags # {} -> "Tag"
      [] f.ids = {} /\ DOMAIN f.tags = {} /\ f.authors # {} /\ f.kinds # {}
         /\ Cardinality(Product(f)) < SmallProduct -> "PubkeyKind"
      [] f.ids = {} /\ DOMAIN f.tags = {} /\ f.authors # {}
         /\ (f.kinds = {} \/ Cardinality(Product(f)) >= SmallProduct) -> "Pubkey"
      [] f.ids = {} /\ DOMAIN f.tags = {} /\ f.authors = {} /\ f.kinds # {} -> "Kind"
      [] OTHER -> "CreatedAt"

SearchKeys(f) ==
    CASE IndexOf(f) = "ID"         -> UNION f.ids
      [] IndexOf(f) = "Tag"        -> {TagKey[[name |-> ScanTag(f), val |-> v]] : v \in f.tags[ScanTag(f)]}
      [] IndexOf(f) = "PubkeyKind" -> Product(f)
      [] IndexOf(f) = "Pubkey"     -> UNION f.authors
      [] IndexOf(f) = "Kind"       -> UNION f.kinds
      [] IndexOf(f) = "CreatedAt"  -> {0}

\* One cursor per key; the filter's values are sorted.
Searches(f) == SortedBy(SearchKeys(f), <)

MajorFields(f) ==
    Cardinality(f.ids) + Cardinality(f.authors) + Cardinality(f.kinds)
    + Cardinality(DOMAIN f.tags)

\* NostrFilter::indexOnlyScans, and the exception of the pubkey index.
IndexOnly(f) ==
    /\ MajorFields(f) <= 1 \/ (MajorFields(f) = 2 /\ f.authors # {} /\ f.kinds # {})
    /\ ~(IndexOf(f) = "Pubkey" /\ f.kinds # {})

-----------------------------------------------------------------------------
(* ScanCursor::collect *)

Records(index, d) ==
    UNION {{[key |-> k, created |-> EventAt[n].created, levId |-> n] :
              k \in IndexKeys(index, EventAt[n])} : n \in d}

RecordLess(r, s) ==
    \/ r.key < s.key
    \/ r.key = s.key /\ r.created < s.created
    \/ r.key = s.key /\ r.created = s.created /\ r.levId < s.levId

\* The order in which a cursor goes through the index.
RecordAfter(r, s) == RecordLess(s, r)

\* resumeKey is empty.
Inactive == [key |-> -1, created |-> 0, levId |-> 0]

\* The first position of a cursor: behind every record of its key.
StartPos(key) == [key |-> key, created |-> CreatedLimit, levId |-> Len(EventAt) + 1]

\* The records a cursor takes from here on: those of its key, within the
\* times of the filter.  created_at below since ends the cursor; above until it
\* jumps, unless until is 0.
Takes(i, pos) ==
    {r \in Records(scanner.index, db) :
        /\ r.key = cursors[i].key
        /\ r = pos \/ RecordLess(r, pos)
        /\ F.since # 0 => r.created >= F.since
        /\ F.until # 0 => r.created <= F.until}

\* Where the scan goes on when the limit is reached: at the next record of the
\* index, of whatever key.
Resume(taken) ==
    LET rest == {r \in Records(scanner.index, db) : RecordLess(r, taken[Len(taken)])} IN
    IF rest = {} THEN Inactive
    ELSE CHOOSE r \in rest : \A s \in rest : s = r \/ RecordLess(s, r)

\* Mutant: a cursor that found the end stays where it was.
MutNextPos(pos, all, taken, limit) == IF Len(all) < limit THEN pos ELSE Resume(taken)

NextPos(pos, all, taken, limit) == IF Len(all) < limit THEN Inactive ELSE Resume(taken)

\* collect with a limit: the candidates and the cursor after it.  Its loop over
\* the records is one step here.
Collect(i, limit) ==
    LET pos   == cursors[i].pos
        found == IF pos = Inactive THEN {} ELSE Takes(i, pos)
        all   == SortedBy(found, RecordAfter)
        taken == SubSeq(all, 1, IF Len(all) < limit THEN Len(all) ELSE limit)
    IN  [output |-> [k \in DOMAIN taken |-> Candidate(taken[k].levId, taken[k].created, i)],
         cursor |-> [key |-> cursors[i].key,
                     pos |-> NextPos(pos, all, taken, limit),
                     outstanding |-> cursors[i].outstanding + Len(taken)]]

-----------------------------------------------------------------------------
(* DBScan::scan and DBQuery::process *)

\* std::merge: from[n] of the first n come from a, the rest from b.
Merge(a, b) ==
    LET from[n \in 0..(Len(a) + Len(b))] ==
          IF n = 0 THEN 0
          ELSE LET i == from[n - 1]
                   j == n - 1 - i
                   takeA == i < Len(a) /\ (j < Len(b) => ~Cmp(b[j + 1], a[i + 1]))
               IN  IF takeA THEN i + 1 ELSE i
    IN  [n \in 1..(Len(a) + Len(b)) |->
            IF from[n] > from[n - 1] THEN a[from[n]] ELSE b[n - from[n]]]

\* std::sort; candidates of one event are equal, in any order.
SortLess(a, b) == Cmp(a, b) \/ (~Cmp(b, a) /\ a.packed < b.packed)
Sort(q) == SortedBy(Range(q), SortLess)

Init ==
    /\ group \in Groups
    /\ db \in {d \in SUBSET (1..StartLevId) : StartLevId \in d}
    /\ written = StartLevId
    /\ pc = (IF group = <<>> THEN "complete" ELSE "filter") /\ filter = 1
    /\ scanner = <<>> /\ cursors = <<>> /\ queue = <<>> /\ nextInit = 1
    /\ order = <<>> /\ sent = <<>>
    /\ pauses = 0 /\ removals = 0

StartFilter ==
    /\ pc = "filter" /\ filter \in DOMAIN group
    /\ scanner' = [index |-> IndexOf(F), indexOnly |-> IndexOnly(F)]
    /\ cursors' = LET keys == Searches(F) IN
                  [i \in DOMAIN keys |->
                      [key |-> keys[i], pos |-> StartPos(keys[i]), outstanding |-> 0]]
    /\ queue' = <<>> /\ nextInit' = 1
    /\ pc' = "scan"
    /\ UNCHANGED <<group, db, written, filter, order, sent, pauses, removals>>

InitCursor ==
    /\ pc = "scan" /\ nextInit \in DOMAIN cursors
    /\ LET c == Collect(nextInit, InitialScanDepth)
           q == queue \o c.output
       IN  /\ cursors' = [cursors EXCEPT ![nextInit] = c.cursor]
           /\ queue' = IF nextInit = Len(cursors) THEN Sort(q) ELSE q
    /\ nextInit' = nextInit + 1
    /\ UNCHANGED <<group, db, written, pc, filter, scanner, order, sent, pauses, removals>>

ScanEnds ==
    /\ pc = "scan" /\ nextInit \notin DOMAIN cursors /\ queue = <<>>
    /\ pc' = "filterDone"
    /\ UNCHANGED <<group, db, written, filter, scan, order, sent, pauses, removals>>

\* Is the candidate in front of the queue to be sent?
DoSend(c) ==
    IF scanner.indexOnly THEN DoesMatchTimes(F, CreatedOf(c))
    ELSE c.levId \in db /\ DoesMatch(F, EventAt[c.levId])

\* The query leaves events written after it began to the monitor.
Accepted(levId) == levId <= StartLevId

\* Mutant: the refill goes to the end of the queue.
MutRefilled(i) ==
    LET c == Collect(i, RefillScanDepth) IN
    /\ queue' = Tail(queue) \o c.output
    /\ cursors' = [cursors EXCEPT ![i] = [c.cursor EXCEPT !.outstanding = @ - 1]]

\* A cursor whose last candidate is taken collects more, merged into the queue.
Refilled(i) ==
    LET c == Collect(i, RefillScanDepth) IN
    /\ queue' = Merge(Tail(queue), c.output)
    /\ cursors' = [cursors EXCEPT ![i] = [c.cursor EXCEPT !.outstanding = @ - 1]]

\* Mutant: the count is looked at before it is decremented.
MutTaken(i) ==
    /\ queue' = Tail(queue)
    /\ cursors' = [cursors EXCEPT ![i].outstanding = @ - 1]

Taken(i) ==
    IF cursors[i].outstanding = 1 THEN Refilled(i)
    ELSE /\ queue' = Tail(queue)
         /\ cursors' = [cursors EXCEPT ![i].outstanding = @ - 1]

\* One round: the callback decides whether the filter has enough.
PopEvent ==
    /\ pc = "scan" /\ nextInit \notin DOMAIN cursors /\ queue # <<>>
    /\ LET c     == Head(queue)
           adds  == DoSend(c) /\ F.limit # 0 /\ Accepted(c.levId)
           ids   == IF adds /\ c.levId \notin Range(order) THEN Append(order, c.levId) ELSE order
           stops == (DoSend(c) /\ F.limit = 0) \/ (adds /\ Len(ids) >= F.limit)
       IN  /\ order' = ids
           /\ sent' = IF adds /\ c.levId \notin Range(sent) THEN Append(sent, c.levId) ELSE sent
           /\ IF stops THEN pc' = "filterDone" /\ UNCHANGED <<queue, cursors>>
              ELSE Taken(ScanIndexOf(c)) /\ UNCHANGED pc
    /\ UNCHANGED <<group, db, written, filter, scanner, nextInit, pauses, removals>>

\* scanner.reset and the next filter.
NextFilter ==
    /\ pc = "filterDone"
    /\ filter' = filter + 1
    /\ pc' = IF filter = Len(group) THEN "complete" ELSE "filter"
    /\ order' = <<>> /\ scanner' = <<>> /\ cursors' = <<>> /\ queue' = <<>> /\ nextInit' = 1
    /\ UNCHANGED <<group, db, written, sent, pauses, removals>>

\* doPause, at the top of the loop once the time budget is spent.
Pause ==
    /\ pc = "scan" /\ pauses < MaxPauses
    /\ pc' = "paused" /\ pauses' = pauses + 1
    /\ UNCHANGED <<group, db, written, filter, scan, order, sent, removals>>

\* The scheduler gives the query its next slice, in a new snapshot.
Continue ==
    /\ pc = "paused"
    /\ pc' = "scan"
    /\ UNCHANGED <<group, db, written, filter, scan, order, sent, pauses, removals>>

-----------------------------------------------------------------------------
(* The database *)

WriteEvent ==
    /\ pc = "paused" /\ written < Len(EventAt)
    /\ written' = written + 1 /\ db' = db \cup {written + 1}
    /\ UNCHANGED <<group, pc, filter, scan, order, sent, pauses, removals>>

RemoveEvent(n) ==
    /\ pc = "paused" /\ removals < MaxRemovals /\ n # written
    /\ db' = db \ {n} /\ removals' = removals + 1
    /\ UNCHANGED <<group, written, pc, filter, scan, order, sent, pauses>>

Query == StartFilter \/ InitCursor \/ ScanEnds \/ PopEvent \/ NextFilter \/ Continue

Next == Query \/ Pause \/ WriteEvent \/ \E n \in db : RemoveEvent(n)

\* The scheduler runs its queries in turn, so each of them goes on: this is
\* WF_vars(Query) with ENABLED Query, which is pc # "complete", written out.
Fairness == []<>(pc = "complete") \/ []<><<Query>>_vars

Spec == Init /\ [][Next]_vars /\ Fairness

-----------------------------------------------------------------------------
(* Properties *)

Newer(m, n) ==
    \/ EventAt[m].created > EventAt[n].created
    \/ EventAt[m].created = EventAt[n].created /\ m > n

\* Stored since before the query, and matching.
Eligible == {n \in db : n <= StartLevId /\ DoesMatch(F, EventAt[n])}

\* A filter gets its matches newest first and never skips one: whatever was
\* stored when the query began and still is, is handed over before anything
\* older, and is left out only when the limit cut it off.  Cursors, their
\* resume points, the refills and the merge of collect and scan are right.
NewestFirst ==
    pc \in {"scan", "paused", "filterDone"} =>
        /\ \A i, j \in DOMAIN order : i < j => Newer(order[i], order[j])
        /\ \A i \in DOMAIN order : DoesMatch(F, EventAt[order[i]])
        /\ \A n \in Eligible \ Range(order) :
              /\ \A i \in DOMAIN order : Newer(order[i], n)
              /\ pc = "filterDone" => Len(order) = F.limit

\* `outstanding` is the number of candidates of a cursor that are queued, and a
\* cursor that has more to give has one there: otherwise it would never be asked
\* again (the refill of DBScan::scan happens only when one of its own is taken).
OutstandingExact ==
    pc \in {"scan", "paused"} =>
        \A i \in DOMAIN cursors :
            /\ cursors[i].outstanding = Cardinality({k \in DOMAIN queue : ScanIndexOf(queue[k]) = i})
            /\ nextInit > i /\ cursors[i].pos # Inactive => cursors[i].outstanding > 0

\* The query ends, however often its cursors run dry, are refilled and pause.
\* (That the loop inside one call of collect ends is taken for granted.)
QueryEnds == <>(pc = "complete")
=============================================================================
