------------------------------- MODULE Filters -------------------------------
(***************************************************************************)
(* Nostr filters (filters.h).  A filter is a record                        *)
(*   [ids, authors, kinds, tags, since, until]                             *)
(* where ids, authors and kinds are std::optional: a set that is empty or  *)
(* has the set of allowed values as its one member, and tags is a function *)
(* from tag names to sets of values.  Filters with an empty list, which    *)
(* never match, are dropped from their group when it is parsed.            *)
(***************************************************************************)
EXTENDS PackedEvent

\* NostrFilter::doesMatchTimes
DoesMatchTimes(f, created) == f.since <= created /\ created <= f.until

\* NostrFilter::doesMatch
DoesMatch(f, ev) ==
    /\ DoesMatchTimes(f, ev.created)
    /\ \A ids \in f.ids : ev.id \in ids
    /\ \A authors \in f.authors : ev.pubkey \in authors
    /\ \A kinds \in f.kinds : ev.kind \in kinds
    /\ \A name \in DOMAIN f.tags : \E i \in DOMAIN ev.tags :
         ev.tags[i].name = name /\ ev.tags[i].val \in f.tags[name]

\* NostrFilterGroup::doesMatch
GroupMatches(filters, ev) == \E i \in DOMAIN filters : DoesMatch(filters[i], ev)
=============================================================================
