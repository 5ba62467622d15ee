----------------------------- MODULE MCHedgeRun -----------------------------
(***************************************************************************)
(* Constants for model-checking HedgeRun.                                  *)
(***************************************************************************)
EXTENDS HedgeRunRefinement

MCCost == [i \in 1 .. NB |-> i]

Policy(m, c, t) == [maxInFlight |-> m, costCeiling |-> c, requestTimeout |-> t]

\* Hedging off, with a timeout; hedging on, with one and without.
MCPolicies == {Policy(1, 0, TRUE), Policy(2, 0, FALSE), Policy(2, 0, TRUE)}

\* Three backends of which two may run: losses and timer fires compete for
\* the third, which the cost gate admits only if the second never started.
\* Or hedging is off and there is a timeout.
MCGated == {Policy(2, 4, FALSE), Policy(1, 0, TRUE)}
MCTwoOfThree == {Policy(2, 0, FALSE)}
MCEventsCap == 2 * NB
=============================================================================
