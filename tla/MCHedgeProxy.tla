---------------------------- MODULE MCHedgeProxy ----------------------------
(***************************************************************************)
(* Constants for model-checking HedgeProxy.                                *)
(***************************************************************************)
EXTENDS HedgeProxy, TLC

MCKinds == Kind

\* Two reasons stand for three: only a failed start is told from the others.
MCReasons == {"error", "canceled"}

\* One sample on the bound, one above it.
MCBounds == <<1>>
MCLatencies == {1, 2}

\* Which of two counters was inserted first makes no difference: a state is told
\* from others by what each label reads and whose counter a request holds.
MCView ==
    <<handler, wire, todo, added, lat, totals, hist, page,
      [label \in Labels |-> <<series[label] # 0, Read(label)>>],
      [r \in Requests |->
         <<held[r] # 0, {label \in Labels : series[label] = held[r]}>>]>>

MCSymmetry == Permutations(Requests)
=============================================================================
