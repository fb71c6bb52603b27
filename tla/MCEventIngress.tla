--------------------------- MODULE MCEventIngress ---------------------------
(* Small instances of EventIngress. *)
EXTENDS EventIngress

CONSTANTS eph, del, noid, prot, c1, c2
\* An ephemeral event, its author's deletion of it, an event that does not even
\* have an id, a protected one.
AllSorts == {eph, del, noid, prot}
SetEph == {eph}
SetNoId == {noid}
SetProt == {prot}

MCBeats == [ev \in AllSorts |-> IF ev = del THEN {eph} ELSE {}]

\* The order of the events by time
InOrder == <<eph, del, noid, prot>>
MCRank == [ev \in AllSorts |-> CHOOSE i \in DOMAIN InOrder : InOrder[i] = ev]

Empty == {{}}

BothConns == {c1, c2}
=============================================================================
