---------------------------- MODULE HedgePolicy ----------------------------
(***************************************************************************)
(* The pure decision functions of internal/policy/policy.go.  A policy is a *)
(* record with at least the fields maxInFlight and costCeiling; costs are  *)
(* integers (the float64 of the code is only ever added and compared).     *)
(***************************************************************************)
EXTENDS Integers

\* A non-positive MaxInFlight means no hedging: the primary alone.
EffectiveMaxInFlight(p) == IF p.maxInFlight <= 0 THEN 1 ELSE p.maxInFlight

\* The cheap check the engine makes before arming its fire-after timer.
HasHeadroom(p, inFlight) == inFlight < EffectiveMaxInFlight(p)

\* A ceiling of zero (or less) switches the cost gate off.
CostAllows(p, committed, candidate) ==
    p.costCeiling > 0 => committed + candidate <= p.costCeiling

\* The gate every backup passes before it is dialed.
AllowStart(p, inFlight, committed, candidate) ==
    /\ inFlight < EffectiveMaxInFlight(p)
    /\ CostAllows(p, committed, candidate)
=============================================================================
