------------------------- MODULE HedgeRunRefinement -------------------------
(***************************************************************************)
(* HedgeRun implements HedgeContract.  An upstream request is open from    *)
(* the moment its backend is dialed until the dial fails or the producer   *)
(* has ended and closed the response body.                                 *)
(***************************************************************************)
EXTENDS HedgeRun

Live == {i \in Started : prod[i] = "running" \/ (pc = "dialing" /\ i = started)}

Contract == INSTANCE HedgeContract
    WITH limit <- EffectiveMaxInFlight(pol),
         asked <- started,
         live <- Live,
         sent <- log,
         outcome <- result,
         Limits <- {EffectiveMaxInFlight(p) : p \in Policies}

\* Every step of the race loop, its forwarders and its producers is a step of
\* the contract or changes nothing it speaks of.
KeepsContract == Contract!Spec
=============================================================================
