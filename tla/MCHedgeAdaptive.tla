-------------------------- MODULE MCHedgeAdaptive --------------------------
(***************************************************************************)
(* Constants for model-checking HedgeAdaptive.                             *)
(***************************************************************************)
EXTENDS HedgeAdaptive, TLC

CONSTANTS b1, b2

MCBackends == {b1, b2}
Entry(b) == [name |-> b, whole |-> TRUE, cost |-> 1]
Both == <<Entry(b1), Entry(b2)>>

\* What an operator may write for the one model that has an override: nothing,
\* another delay, no delay, or a bound that has to be refused.
MCOverrides ==
    {<<>>, ("fast" :> ("fireAfter" :> 3)), ("fast" :> ("fireAfter" :> 0)),
     ("fast" :> ("maxInFlight" :> 0))}

File(p, o, a, b) == [policy |-> p, overrides |-> o, adaptive |-> a, backends |-> b]

\* Off, or on with the default window or one that min_samples may exceed.
MCAdaptive ==
    {[enabled |-> FALSE, window |-> 2, minSamples |-> 3]}
      \cup {[enabled |-> TRUE, window |-> ws[1], minSamples |-> ws[2]] :
              ws \in {<<0, 3>>, <<2, 3>>, <<2, 0>>, <<0, -1>>}}

\* More milliseconds than a Duration of this instance holds: accepted if no
\* model has an override, or its override names a delay of its own.
MCTooLong ==
    {File("fireAfter" :> 500, oe[1],
          [enabled |-> oe[2], window |-> 2, minSamples |-> 3], Both) :
        oe \in {<<<<>>, FALSE>>, <<("fast" :> ("maxInFlight" :> 1)), FALSE>>,
                <<("fast" :> ("fireAfter" :> 3)), TRUE>>}}

\* Also files that leave settings to the defaults, and lists of backends that
\* are refused.
MCFiles ==
    {File("fireAfter" :> f, o, a, Both) :
        f \in {0, 2, -1}, o \in MCOverrides, a \in MCAdaptive}
      \cup MCTooLong
      \cup {File(<<>>, <<>>, "minSamples" :> 1, b) :
              b \in {<<>>, <<Entry(b1)>>, <<Entry(b2)>>, <<Entry(b1), Entry(b1)>>}}

Env(p, t, a) == [policy |-> p, typos |-> t, adaptive |-> a]
MCEnvs ==
    {Env(<<>>, {}, <<>>), Env("maxInFlight" :> 0, {}, <<>>),
     Env(<<>>, {"fireAfter"}, <<>>), Env("fireAfter" :> 2, {}, "enabled" :> TRUE)}

\* The documented case: adaptive timing over a delay that a model overrides.
MCDocumented ==
    {f \in MCFiles : /\ f.adaptive = [enabled |-> TRUE, window |-> 2, minSamples |-> 3]
                     /\ f.policy = ("fireAfter" :> 2)}

MCSymmetry == Permutations(Requests) \cup Permutations(MCBackends)
=============================================================================
