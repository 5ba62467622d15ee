--------------------------- MODULE MCHedgeEngine ---------------------------
(***************************************************************************)
(* Constants for model-checking HedgeEngine.                               *)
(***************************************************************************)
EXTENDS HedgeEngine, TLC

MCCost == [i \in 1 .. NB |-> i]

\* Two models: one hedged, one not.
MCPolicies == {[maxInFlight |-> m, costCeiling |-> 0] : m \in 1 .. 2}

MCSymmetry == Permutations(Runs)
=============================================================================
