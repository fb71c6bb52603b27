------------------------- MODULE MCNegentropyViews -------------------------
(* Small instances of NegentropyViews. *)
EXTENDS NegentropyViews

\* The old events and one to come, all of them or only the newest.
NegFilters == {[match |-> {1, 2, 3}, limit |-> n] : n \in {1, 9}}

\* The second event stored is older than the first.
Times == <<2, 1, 3>>
=============================================================================
