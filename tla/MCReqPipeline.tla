---------------------------- MODULE MCReqPipeline ----------------------------
(* Small instances of ReqPipeline. *)
EXTENDS ReqPipeline, TLC

F(match, limit) == [match |-> match, limit |-> limit]
Req(filters) == [count |-> FALSE, filters |-> filters]

\* Larger than the number of events: no limit.
Unlimited == 9

\* Everything.
OneReq == {Req(<<F(Evs, Unlimited)>>)}

\* Two filters that overlap, the first with a limit; a COUNT of filters that
\* overlap, with one that ends at once, and one that has a limit below the cap.
MixedReqs == {Req(<<F(Evs, 1), F(Evs, Unlimited)>>),
              [count |-> TRUE,
               filters |-> <<F(Evs, 0), F(Evs, Unlimited), F(Evs, Unlimited)>>],
              [count |-> TRUE, filters |-> <<F(Evs, 1)>>]}

EvSymmetry == Permutations(Evs)
=============================================================================
