---------------------------- MODULE MCHedgeService ----------------------------
(***************************************************************************)
(* Constants for model-checking HedgeService: two backends, either of      *)
(* which has nothing with content to say, or two chunks that have some.    *)
(***************************************************************************)
EXTENDS HedgeService

MCCost == [i \in 1 .. NB |-> i]

MCPolicies == {[maxInFlight |-> 2, costCeiling |-> 0, requestTimeout |-> FALSE],
               [maxInFlight |-> 1, costCeiling |-> 0, requestTimeout |-> TRUE]}

\* 0 is a chunk without content, 1 one with.
MCAnswers == {<<0>>, <<1, 1>>}
MCContentful == {1}

MCBounds == <<1>>
=============================================================================
