--------------------------- MODULE MCActiveMonitors ---------------------------
(* Small instances of ActiveMonitors. *)
EXTENDS ActiveMonitors

Event(id, pubkey, kind, tags) ==
    NostrJsonToPackedEvent([id |-> id, pubkey |-> pubkey, created |-> 100,
                            kind |-> kind, tags |-> tags])
Tag(n, v) == [name |-> n, val |-> v, len |-> IF n \in {"e", "p"} THEN 64 ELSE 1]

\* A note with a repeated tag and two different ones, one that shares a tag,
\* and an ephemeral event.
SomeEvents == {
    Event(1, 1, 1, <<Tag("t", "x"), Tag("t", "y"), Tag("p", 2), Tag("t", "x")>>),
    Event(2, 2, 1, <<Tag("t", "y")>>),
    Event(3, 1, 20000, <<>>)}

Filter(ids, authors, kinds, tags) ==
    [ids |-> ids, authors |-> authors, kinds |-> kinds, tags |-> tags,
     since |-> 0, until |-> 1000]

ByTags == Filter({}, {}, {{1}}, [t |-> {"x", "y"}, p |-> {2}])
ByTag == Filter({}, {}, {}, [t |-> {"y"}])
ByKinds == Filter({}, {}, {{1, 20000}}, <<>>)
ByAuthor == Filter({}, {{1}}, {{20000}}, <<>>)
ById == Filter({{1, 3}}, {{1}}, {}, <<>>)
Everything == Filter({}, {}, {}, <<>>)
Old == [Everything EXCEPT !.until = 50]

\* Groups with overlapping filters.
SomeGroups == {<<ByTags, ByTag>>, <<ByKinds, ByKinds>>, <<ById, Everything>>, <<Old>>,
               <<ByAuthor, ByKinds>>}
=============================================================================
