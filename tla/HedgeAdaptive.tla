--------------------------- MODULE HedgeAdaptive ---------------------------
(***************************************************************************)
(* How a request comes by its policy and its fire-after delay: the default *)
(* policy, the override of the model it names (internal/config), and the   *)
(* rolling latencies of its primary (internal/adaptive), as the daemon     *)
(* wires them (cmd/hedge-llm/main.go).  Requests run concurrently: one     *)
(* reads the estimator while others report to it, and one suggestion takes *)
(* the estimator's mutex twice.                                            *)
(*                                                                         *)
(* A policy's durations are what its milliseconds convert to; a measured   *)
(* latency is a natural.  A race is reduced to its winner's first-token    *)
(* latency, which the estimator is given whatever the race was like.       *)
(***************************************************************************)
EXTENDS HedgeConfig, FiniteSets

CONSTANTS
    Requests,      \* concurrent requests
    Backends,      \* any may be the first eligible one, or the winner
    Models,        \* the models a client may name
    Latencies,     \* first-token latencies a race may measure
    Files,         \* the configuration files an operator may write
    Envs,          \* the environments the daemon may be started in
    MaxSamples     \* bound: samples a backend is given at most

ASSUME AdaptiveAssumption ==
    /\ Latencies \subseteq Nat
    /\ MaxSamples \in Nat
    /\ \A f \in Files :
         /\ IsFile(f) /\ DOMAIN f.overrides \subseteq Models
         /\ \A i \in DOMAIN f.backends : f.backends[i].name \in Backends
    /\ \A e \in Envs : IsEnv(e)

VARIABLES
    conf,    \* the configuration the daemon was started with
    rings,   \* Estimator.rings: [buf, next, count] of each backend
    given,   \* history: every sample each backend was given, oldest first
    phase,   \* where each request is
    primary, \* its first eligible backend
    pol,     \* its resolved policy
    delay    \* its resolved fire-after

requestVars == <<phase, primary, pol, delay>>
vars == <<conf, rings, given, requestVars>>

-----------------------------------------------------------------------------
(* The estimator.                                                          *)

Configured == {conf.backends[i].name : i \in DOMAIN conf.backends}

Window == IF conf.adaptive.window <= 0 THEN DefaultWindow ELSE conf.adaptive.window
NewRing(w) == [buf |-> [i \in 0 .. w - 1 |-> 0], next |-> 0, count |-> 0]

AddUntilFull(ring, d) == \* a slip: a full ring takes no more
    IF ring.count = Window THEN ring
    ELSE [buf |-> [ring.buf EXCEPT ![ring.next] = d],
          next |-> (ring.next + 1) % Window, count |-> ring.count + 1]
Add(ring, d) ==
    [buf |-> [ring.buf EXCEPT ![ring.next] = d],
     next |-> (ring.next + 1) % Window,
     count |-> IF ring.count < Window THEN ring.count + 1 ELSE ring.count]

\* snapshot(): the k-th smallest of the live slots, counted from 0.
LiveSlots(ring) == 0 .. ring.count - 1
Sorted(ring, k) ==
    LET atMost(v) == Cardinality({i \in LiveSlots(ring) : ring.buf[i] <= v})
        below(v) == Cardinality({i \in LiveSlots(ring) : ring.buf[i] < v})
    IN CHOOSE v \in {ring.buf[i] : i \in LiveSlots(ring)} :
         below(v) <= k /\ k < atMost(v)

\* The rank of percentile q (in hundredths) among n: q * (n - 1), rounded.
RankOfLength(q, n) == \* a slip: n for n - 1
    LET rank == (2 * q * n + 100) \div 200
    IN IF rank >= n THEN n - 1 ELSE rank
Rank(q, n) == (2 * q * (n - 1) + 100) \div 200
Percentile(ring, q) == Sorted(ring, Rank(q, ring.count))

Need == IF conf.adaptive.minSamples < 1 THEN 1 ELSE conf.adaptive.minSamples
WarmEarly(ring) == ring.count + 1 >= Need \* a slip: the sample to come counts
Warm(ring) == ring.count >= Need

\* main.go gives the estimator the default policy's delay to fall back to.
StaticFireAfter == HedgePolicy(conf).fireAfter

ResolveFireAfter(suggested, p) ==
    IF suggested > 0 THEN suggested ELSE p.fireAfter

-----------------------------------------------------------------------------
Init ==
    /\ \E f \in Files, e \in Envs : Loads(f, e) /\ conf = Loaded(f, e)
    /\ rings = [b \in Backends |-> NewRing(Window)]
    /\ given = [b \in Backends |-> <<>>]
    /\ phase = [r \in Requests |-> "idle"]
    /\ primary \in {[r \in Requests |-> b] : b \in Configured}
    /\ pol = [r \in Requests |-> HedgePolicy(conf)]
    /\ delay = [r \in Requests |-> 0]

\* Run resolves the policy of the model, then asks for a delay.  Without the
\* adaptive option that is the policy's; with it, the estimator first looks at
\* how many samples the primary has.
Resolve(r, m, b) ==
    /\ phase[r] = "idle"
    /\ primary' = [primary EXCEPT ![r] = b]
    /\ pol' = [pol EXCEPT ![r] = HedgePolicyFor(conf, m)]
    /\ \/ /\ conf.adaptive.enabled /\ Warm(rings[b])
          /\ phase' = [phase EXCEPT ![r] = "suggesting"]
          /\ UNCHANGED delay
       \/ /\ conf.adaptive.enabled /\ ~Warm(rings[b])
          /\ phase' = [phase EXCEPT ![r] = "racing"]
          /\ delay' = [delay EXCEPT ![r] =
                         ResolveFireAfter(StaticFireAfter, pol'[r])]
       \/ /\ ~conf.adaptive.enabled
          /\ phase' = [phase EXCEPT ![r] = "racing"]
          /\ delay' = [delay EXCEPT ![r] = pol'[r].fireAfter]
    /\ UNCHANGED <<conf, rings, given>>

\* ... then locks again to take its median.
Suggest(r) ==
    /\ phase[r] = "suggesting"
    /\ LET ring == rings[primary[r]]
           suggested == IF ring.count = 0 THEN StaticFireAfter
                        ELSE Percentile(ring, 50)
       IN delay' = [delay EXCEPT ![r] = ResolveFireAfter(suggested, pol[r])]
    /\ phase' = [phase EXCEPT ![r] = "racing"]
    /\ UNCHANGED <<conf, rings, given, primary, pol>>

\* The race ends and is reported: a winner's positive latency is observed.
Observe(b, d) ==
    /\ rings' = [rings EXCEPT ![b] = Add(@, d)]
    /\ given' = [given EXCEPT ![b] = Append(@, d)]

Finish(r) ==
    /\ phase[r] = "racing"
    /\ phase' = [phase EXCEPT ![r] = "idle"]
    /\ delay' = [delay EXCEPT ![r] = 0]
    /\ pol' = [pol EXCEPT ![r] = HedgePolicy(conf)]
    /\ UNCHANGED <<conf, primary>>

Win(r, b, d) ==
    /\ Finish(r)
    /\ IF conf.adaptive.enabled /\ d > 0
       THEN Len(given[b]) < MaxSamples /\ Observe(b, d)
       ELSE UNCHANGED <<rings, given>>

Lose(r) == Finish(r) /\ UNCHANGED <<rings, given>>

Next ==
    \E r \in Requests :
      \/ \E m \in Models, b \in Configured : Resolve(r, m, b)
      \/ Suggest(r)
      \/ \E b \in Configured, d \in Latencies : Win(r, b, d)
      \/ Lose(r)

Spec == Init /\ [][Next]_vars

-----------------------------------------------------------------------------
(* Properties.                                                             *)

\* Every variable keeps its type; the write index stays inside the ring.
TypeOK ==
    /\ Validate(conf)
    /\ rings \in [Backends -> [buf : [0 .. Window - 1 -> Nat],
                              next : 0 .. Window - 1, count : 0 .. Window]]
    /\ given \in [Backends -> Seq(Latencies)]
    /\ phase \in [Requests -> {"idle", "suggesting", "racing"}]
    /\ primary \in [Requests -> Backends]
    /\ delay \in [Requests -> Int]
    /\ pol \in [Requests -> [Knobs \cup Cooldown -> Int]]

\* However requests interleave, a ring holds exactly the latest samples its
\* backend was given, as many as fit: the one given k-th last is k slots
\* behind the write index.
RingHoldsTheLatest ==
    \A b \in Backends :
        LET n == Len(given[b]) IN
        /\ rings[b].count = IF n < Window THEN n ELSE Window
        /\ \A k \in 1 .. rings[b].count :
             rings[b].buf[(rings[b].next - k) % Window] = given[b][n + 1 - k]

\* The suggestion is a median of the samples retained: at least half of them
\* are no larger, at least half no smaller.
SuggestionIsMedian ==
    \A b \in Backends :
        LET n == Len(given[b])
            recent == (IF n < Window THEN 1 ELSE n - Window + 1) .. n
            p50 == Percentile(rings[b], 50)
            half(S) == 2 * Cardinality(S) >= Cardinality(recent)
        IN recent # {} =>
             /\ half({i \in recent : given[b][i] <= p50})
             /\ half({i \in recent : given[b][i] >= p50})

\* A primary with fewer than min_samples is hedged after the configured delay
\* and never by what it measured, no matter what is reported while the request
\* asks; and never at once unless the policy says so, as 0 is no suggestion.
ColdPrimaryStaysStatic ==
    \A r \in Requests :
        phase[r] = "racing" /\ Len(given[primary[r]]) < Need
          => delay[r] = IF conf.adaptive.enabled /\ StaticFireAfter > 0
                        THEN StaticFireAfter ELSE pol[r].fireAfter

\* Between the two locks of a suggestion the samples it counted cannot go
\* away: the fallback after a failed Percentile is never taken.
PercentileNeverMisses ==
    \A r \in Requests : phase[r] = "suggesting" => rings[primary[r]].count > 0

\* A daemon that started runs every request within the bounds that Validate
\* checks, whatever its file says, its environment overrides and the request
\* names for a model - but for a default in milliseconds that is more than a
\* Duration holds: that is accepted, and may come out below zero, where the
\* model has no override, and so may the delay taken from it.
PolicyIsInBounds ==
    \A r \in Requests :
        /\ pol[r].maxInFlight >= 1 /\ pol[r].costCeiling >= 0
        /\ \A k \in {"fireAfter", "requestTimeout"} :
             pol[r][k] < 0 =>
               pol[r] = HedgePolicy(conf) /\ conf.policy[k] * NsPerMs > MaxInt
        /\ delay[r] < 0 => pol[r].fireAfter < 0

\* README: with adaptive timing the per-model fire_after_ms is what the
\* estimator falls back to until the primary has collected min_samples.
OverrideIsTheFallback ==
    \A r \in Requests :
        phase[r] = "racing" /\ Len(given[primary[r]]) < Need
          => delay[r] = pol[r].fireAfter
=============================================================================
