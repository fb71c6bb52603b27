---------------------------- MODULE MCEventStore ----------------------------
(* Small instances of EventStore. *)
EXTENDS StoreRefinement

Tag(n, v) == [name |-> n, val |-> v, len |-> IF n \in {"e", "p"} THEN 64 ELSE 1]
Raw(id, pubkey, created, kind, tags) ==
    [id |-> id, pubkey |-> pubkey, created |-> created, kind |-> kind, tags |-> tags]

\* What the parser makes of those it does not refuse.
Parsed(raws) == {NostrJsonToPackedEvent(r) : r \in {s \in raws : ~Refused(s)}}

\* Two versions of one profile with the same created_at (the lower id wins),
\* a later third one, a note of another author that expires, an ephemeral
\* event, and a deletion of an earlier and a later version by their author,
\* which names the note in vain.
WriteEvents == Parsed({
    Raw(1, 1, 100, 0, <<>>),
    Raw(2, 1, 100, 0, <<Tag("d", "x")>>),
    Raw(3, 1, 101, 0, <<>>),
    Raw(4, 2, 100, 1, <<Tag("expiration", 102)>>),
    Raw(5, 2, 101, 20000, <<>>),
    Raw(6, 1, 100, 5, <<Tag("e", 2), Tag("e", 3), Tag("e", 4)>>)})

\* For the trees: two versions under the first of two d-tags, and an expiring
\* note of another author; the parser refuses one that expired at once.
TreeEvents == Parsed({
    Raw(1, 1, 100, 30000, <<Tag("d", "x"), Tag("d", "y")>>),
    Raw(2, 1, 101, 30000, <<Tag("d", "x")>>),
    Raw(3, 2, 100, 1, <<Tag("expiration", 101)>>),
    Raw(4, 2, 100, 1, <<Tag("expiration", 1)>>)})

Filter(kinds, authors, limit) ==
    [array |-> FALSE, kinds |-> kinds, authors |-> authors, limit |-> limit]

AuthorFilter == Filter({{1, 30000}}, {{1}}, {})
NewestOnly == Filter({}, {}, {1})
ArrayFilter == [AuthorFilter EXCEPT !.array = TRUE]

NoFilters == {}
TreeFilters == {AuthorFilter, NewestOnly, ArrayFilter}
=============================================================================
