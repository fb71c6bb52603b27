------------------------------ MODULE MCDBScan ------------------------------
(* Small instances of DBScan and FilterSet. *)
EXTENDS DBScan

Event(id, pubkey, created, kind, vals) ==
    NostrJsonToPackedEvent([id |-> id, pubkey |-> pubkey, created |-> created, kind |-> kind,
        tags |-> [i \in DOMAIN vals |-> [name |-> "t", val |-> vals[i], len |-> 1]]])

\* Not written in the order of created_at; two at the same time; one with two
\* tags a filter may name; the last two are written while the query runs, one
\* of them older than what it has already seen.
ScanEvents == <<
    Event(1, 1, 3, 1, <<1, 2>>),
    Event(2, 2, 2, 1, <<2>>),
    Event(3, 1, 2, 2, <<1>>),
    Event(4, 1, 1, 1, <<2>>),
    Event(5, 2, 2, 1, <<1, 2>>),
    Event(6, 1, 1, 1, <<1, 2>>),
    Event(7, 1, 3, 2, <<1>>)>>

Filter(ids, authors, kinds, tags, since, until, limit) ==
    [ids |-> ids, authors |-> authors, kinds |-> kinds, tags |-> tags,
     since |-> since, until |-> until, limit |-> limit]
Ever == 100

Tags == [name : {"d", "e", "p", "t"}, val : 0..9]
ScanTagKey ==
    [t \in Tags |-> t.val + CASE t.name = "d" -> 10 [] t.name = "e" -> 20
                              [] t.name = "p" -> 30 [] t.name = "t" -> 40]
ScanPubkeyKindKey == [p \in (1..2) \X (1..3) |-> 10 * p[1] + p[2]]

ScanGroups == {
    <<>>,
    <<Filter({}, {}, {}, [t |-> {1, 2}], 0, Ever, 3)>>,
    <<Filter({}, {}, {{1}}, [t |-> {1, 2}], 0, Ever, 5)>>,
    <<Filter({}, {{1, 2}}, {{1, 2}}, <<>>, 2, Ever, 5)>>,
    <<Filter({}, {{1, 2}}, {{1, 2, 3}}, <<>>, 0, 2, 2)>>,
    <<Filter({}, {{1, 2}}, {}, <<>>, 0, Ever, 5)>>,
    <<Filter({}, {}, {{1, 2}}, <<>>, 2, 2, 1), Filter({}, {}, {}, <<>>, 0, 0, 5)>>,
    <<Filter({}, {}, {}, <<>>, 0, 2, 2), Filter({{1, 4}}, {}, {{1}}, <<>>, 0, Ever, 0)>>}

\* A query, or a table of filter values and a query without filters.
MCInit ==
    \/ Init /\ values = {}
    \/ /\ values \in Tables
       /\ group = <<>> /\ db = {} /\ written = StartLevId
       /\ pc = "complete" /\ filter = 1
       /\ scanner = <<>> /\ cursors = <<>> /\ queue = <<>> /\ nextInit = 1
       /\ order = <<>> /\ sent = <<>> /\ pauses = 0 /\ removals = 0

MCSpec == MCInit /\ [][Next /\ UNCHANGED values]_<<vars, values>> /\ Fairness
=============================================================================
