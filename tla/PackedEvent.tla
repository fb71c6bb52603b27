----------------------------- MODULE PackedEvent -----------------------------
(***************************************************************************)
(* The event as the database sees it: EventKind (events.h), the conversion *)
(* of a received JSON event into a packed event (nostrJsonToPackedEvent in *)
(* events_parse.cpp) and the keys golpe.yaml derives from it.              *)
(*                                                                         *)
(* A received event is a record [id, pubkey, created, kind, tags]; a tag   *)
(* is [name, val, len] where len is the size of val in bytes.  Ids and     *)
(* pubkeys are numbers: the code only compares them, ids with < as well.   *)
(* A packed event is [id, pubkey, created, kind, expiration, tags] with    *)
(* tags a sequence of [name, val].                                         *)
(***************************************************************************)
EXTENDS Integers, Sequences

MaxIndexedTagValSize == 255   \* MAX_INDEXED_TAG_VAL_SIZE
MaxTagValSize == 1024         \* cfg().events__maxTagValSize
MaxNumTags == 2000            \* cfg().events__maxNumTags

\* EventKind::isReplaceable
IsReplaceable(kind) == kind \in {0, 3, 41} \/ (kind >= 10000 /\ kind < 20000)

\* EventKind::isParamReplaceable
IsParamReplaceable(kind) == kind >= 30000 /\ kind < 40000

\* EventKind::isEphemeral
IsEphemeral(kind) == kind >= 20000 /\ kind < 30000

\* EventKind::isDeletion
IsDeletion(kind) == kind = 5

-----------------------------------------------------------------------------
(* nostrJsonToPackedEvent *)

SingleLetter == {"d", "e", "p", "t", "-"}

\* The virtual d-tag: in front for a replaceable kind (so it wins over any
\* d-tag of the author), at the end for a parameterized one (so it is only a
\* default).
EmptyD == [name |-> "d", val |-> ""]

ExpirationTags(raw) == SelectSeq(raw.tags, LAMBDA t : t.name = "expiration")

\* The conditions under which the conversion throws and the event is refused.
Refused(raw) ==
    \/ Len(raw.tags) > MaxNumTags
    \/ \E i \in DOMAIN raw.tags :
         LET t == raw.tags[i] IN
         \/ t.name \in {"e", "p"} /\ t.len # 64
         \/ t.name \in SingleLetter \ {"e", "p"} /\ t.len > MaxTagValSize
    \/ /\ ExpirationTags(raw) # <<>>
       /\ Head(ExpirationTags(raw)).val < 100

\* The tags the packed event keeps: one-letter ones, unless their value is
\* too long to be indexed.
KeptTags(raw) ==
    LET Kept(t) == t.name \in SingleLetter /\ t.len <= MaxIndexedTagValSize
        body    == SelectSeq(raw.tags, Kept)
    IN  [i \in DOMAIN body |-> [name |-> body[i].name, val |-> body[i].val]]

PackedTags(raw) ==
       (IF IsReplaceable(raw.kind) THEN <<EmptyD>> ELSE <<>>)
    \o KeptTags(raw)
    \o (IF IsParamReplaceable(raw.kind) THEN <<EmptyD>> ELSE <<>>)

\* 0: never expires; 1: ephemeral; the first expiration tag otherwise.
PackedExpiration(raw) ==
    IF IsEphemeral(raw.kind) THEN 1
    ELSE IF ExpirationTags(raw) # <<>> THEN Head(ExpirationTags(raw)).val
    ELSE 0

NostrJsonToPackedEvent(raw) ==
    [id |-> raw.id, pubkey |-> raw.pubkey, created |-> raw.created,
     kind |-> raw.kind, expiration |-> PackedExpiration(raw),
     tags |-> PackedTags(raw)]

-----------------------------------------------------------------------------
(* The index keys of an event (golpe.yaml, indexPrelude of Event) *)

DTags(ev) == {i \in DOMAIN ev.tags : ev.tags[i].name = "d"}

HasD(ev) == DTags(ev) # {}

FirstD(ev) == ev.tags[CHOOSE i \in DTags(ev) : \A j \in DTags(ev) : i <= j].val

\* Key of the replace index: only the first d-tag counts.
ReplaceKey(ev) == <<ev.pubkey, FirstD(ev), ev.kind>>

\* The values of the e-tags; with the author's pubkey, the keys of the
\* deletion index.
ETags(ev) == {ev.tags[i].val : i \in {j \in DOMAIN ev.tags : ev.tags[j].name = "e"}}

\* Does del, once stored, forbid ev?
Deletes(del, ev) ==
    IsDeletion(del.kind) /\ ev.id \in ETags(del) /\ del.pubkey = ev.pubkey

\* An event of which the relay keeps one version per ReplaceKey.
Versioned(ev) == (IsReplaceable(ev.kind) \/ IsParamReplaceable(ev.kind)) /\ HasD(ev)

\* The comparison in checkReplaceable: the later created_at wins, the lower
\* id on a tie.
Supersedes(ev, other) ==
    \/ other.created < ev.created
    \/ other.created = ev.created /\ ev.id < other.id
=============================================================================
