-------------------------- MODULE HedgeAdaptiveProofs --------------------------
(***************************************************************************)
(* Proofs about HedgeAdaptive: for any number of concurrent requests, any  *)
(* backends, files, environments, window and latencies, a ring holds the   *)
(* latest samples, a suggestion is their median and is never missed, a     *)
(* cold primary stays with the configured delay, and a policy is within    *)
(* its bounds unless the default overflows its Duration.                   *)
(***************************************************************************)
EXTENDS HedgeAdaptive, HedgeSums, SequenceTheorems, FunctionTheorems

-----------------------------------------------------------------------------
(* Order statistics.                                                       *)

\* Among finitely many numbers one is the largest.
LEMMA LargestOf ==
    ASSUME NEW S, IsFiniteSet(S), S # {}, NEW f, \A i \in S : f[i] \in Nat
    PROVE  \E i \in S : \A j \in S : f[j] <= f[i]
<1> DEFINE HasLargest(s) == \E i \in s : \A j \in s : f[j] <= f[i]
           T == {s \in SUBSET S : s # {} /\ ~HasLargest(s)}
<1>1. SUFFICES ASSUME T # {} PROVE FALSE
  <2>1. S \in SUBSET S
    OBVIOUS
  <2> QED
    BY <1>1, <2>1
<1>2. PICK m \in T : \A s \in T : ~(s \subseteq m /\ s # m)
  <2>1. T \in SUBSET SUBSET S
    OBVIOUS
  <2> HIDE DEF T
  <2> QED
    BY <1>1, <2>1, SmallestSubset
<1>3. PICK x \in m : m \in SUBSET S /\ ~HasLargest(m)
  BY <1>2
<1>4. m \ {x} # {}
  <2>1. \A j \in m : j = x => f[j] <= f[x]
    BY <1>3
  <2> QED
    BY <1>3, <2>1
<1>5. m \ {x} \notin T
  BY <1>2, <1>3
<1>6. PICK y \in m \ {x} : \A j \in m \ {x} : f[j] <= f[y]
  BY <1>3, <1>4, <1>5
<1>7. f[x] \in Nat /\ f[y] \in Nat /\ \A j \in m : f[j] \in Nat
  BY <1>3, <1>6
<1>8. CASE f[x] <= f[y]
  BY <1>3, <1>6, <1>8
<1>9. CASE f[y] < f[x]
  <2>1. \A j \in m : f[j] <= f[x]
    BY <1>6, <1>7, <1>9
  <2> QED
    BY <1>3, <2>1
<1> QED
  BY <1>7, <1>8, <1>9

AtMost(S, f, v) == {i \in S : f[i] <= v}
Below(S, f, v) == {i \in S : f[i] < v}

\* The k-th smallest of finitely many numbers, counted from 0: one of them, with
\* no more than k smaller and more than k not larger.
LEMMA OrderStatistic ==
    ASSUME NEW S, IsFiniteSet(S), NEW f, \A i \in S : f[i] \in Nat,
           NEW k \in Nat, k < Cardinality(S)
    PROVE  \E v \in {f[i] : i \in S} : /\ Cardinality(Below(S, f, v)) <= k
                                       /\ k < Cardinality(AtMost(S, f, v))
<1> DEFINE T == {v \in {f[i] : i \in S} : k < Cardinality(AtMost(S, f, v))}
<1>1. Cardinality(S) \in Nat /\ S # {}
  BY FS_CardinalityType, FS_EmptySet
<1>2. T # {}
  <2>1. PICK i \in S : \A j \in S : f[j] <= f[i]
    BY <1>1, LargestOf
  <2>2. AtMost(S, f, f[i]) = S
    BY <2>1 DEF AtMost
  <2> QED
    BY <2>2
<1>3. PICK v \in T : \A u \in T : v <= u
  <2>1. T \in SUBSET Nat
    OBVIOUS
  <2> HIDE DEF T
  <2> QED
    BY <1>2, <2>1, SmallestNumber
<1>4. v \in Nat
  OBVIOUS
<1>5. IsFiniteSet(Below(S, f, v)) /\ Cardinality(Below(S, f, v)) \in Nat
  <2>1. Below(S, f, v) \subseteq S
    BY DEF Below
  <2> QED
    BY <2>1, FS_Subset, FS_CardinalityType
<1>6. ASSUME k < Cardinality(Below(S, f, v)) PROVE FALSE
  <2>1. Below(S, f, v) # {}
    BY <1>5, <1>6, FS_EmptySet
  <2>2. PICK i \in Below(S, f, v) : \A j \in Below(S, f, v) : f[j] <= f[i]
    <3>1. \A j \in Below(S, f, v) : f[j] \in Nat
      BY DEF Below
    <3> QED
      BY <1>5, <2>1, <3>1, LargestOf
  <2>3. i \in S /\ f[i] < v /\ f[i] \in Nat
    BY <2>2 DEF Below
  <2>4. AtMost(S, f, f[i]) = Below(S, f, v)
    BY <1>4, <2>2, <2>3 DEF AtMost, Below
  <2>5. f[i] \in T
    BY <1>6, <2>3, <2>4
  <2> HIDE DEF T
  <2> QED
    BY <1>3, <1>4, <2>3, <2>5
<1>7. Cardinality(Below(S, f, v)) <= k
  BY <1>5, <1>6
<1> QED
  BY <1>3, <1>7

\* Counting on one side of a bijection is counting on the other.
LEMMA CountAcross ==
    ASSUME NEW A, IsFiniteSet(A), NEW B, NEW g \in Bijection(A, B), NEW D \in SUBSET B
    PROVE  Cardinality({a \in A : g[a] \in D}) = Cardinality(D)
<1> DEFINE C == {a \in A : g[a] \in D}
           h == [c \in C |-> g[c]]
<1>1. /\ g \in [A -> B]
      /\ \A a1, a2 \in A : g[a1] = g[a2] => a1 = a2
      /\ \A b \in B : \E a \in A : g[a] = b
  BY Fun_BijectionProperties
<1>2. IsFiniteSet(C)
  BY FS_Subset
<1>3. h \in Bijection(C, D)
  <2>1. h \in [C -> D]
    BY <1>1
  <2>2. \A c1, c2 \in C : h[c1] = h[c2] => c1 = c2
    BY <1>1
  <2>3. \A d \in D : \E c \in C : h[c] = d
    BY <1>1
  <2> HIDE DEF C, h
  <2> QED
    BY <2>1, <2>2, <2>3, Fun_IsBij
<1>4. ExistsBijection(C, D)
  BY <1>3 DEF ExistsBijection
<1> HIDE DEF C
<1>5. Cardinality(C) = Cardinality(D)
  BY <1>2, <1>4, FS_Bijection
<1> QED
  BY <1>5 DEF C

-----------------------------------------------------------------------------
(* The configuration.                                                      *)

Settings == Knobs \cup Cooldown

ConfTyped ==
    /\ conf.policy \in [Settings -> Int]
    /\ conf.adaptive.enabled \in BOOLEAN /\ conf.adaptive.window \in Int
    /\ conf.adaptive.minSamples \in Int
    /\ \A m \in DOMAIN conf.overrides : IsNamed(conf.overrides[m], Knobs)
    /\ Configured \subseteq Backends

\* All settings but the switch are numbers.
LEMMA NamedNumbers ==
    ASSUME NEW o, NEW S, IsNamed(o, S)
    PROVE  /\ \A k \in DOMAIN o : k # "enabled" => o[k] \in Int
           /\ "enabled" \in DOMAIN o => o["enabled"] \in BOOLEAN
<1>1. MachineInt \subseteq Int
  BY ConfigAssumption DEF MachineInt
<1>2. \A k : k # "enabled" => ValuesOf(k) \subseteq Int
  BY <1>1 DEF ValuesOf
<1>3. ValuesOf("enabled") = BOOLEAN
  BY DEF ValuesOf
<1> QED
  BY <1>2, <1>3 DEF IsNamed

\* A Duration is a number, and what fits is not wrapped.
LEMMA WrapType ==
    ASSUME NEW n \in Int
    PROVE  Wrap(n) \in Int /\ (0 <= n /\ n <= MaxInt => Wrap(n) = n)
<1> DEFINE K == 2 * (MaxInt + 1)
<1>1. K \in Nat \ {0} /\ MaxInt \in Nat /\ n + MaxInt + 1 \in Int
  BY ConfigAssumption
<1>2. (n + MaxInt + 1) % K \in Int
  <2> HIDE DEF K
  <2> QED
    BY <1>1
<1>3. ASSUME 0 <= n, n <= MaxInt PROVE (n + MaxInt + 1) % K = n + MaxInt + 1
  <2>1. n + MaxInt + 1 \in 0 .. K - 1
    BY <1>1, <1>3
  <2> HIDE DEF K
  <2>2. \A a \in 0 .. K - 1 : a % K = a
    BY <1>1
  <2> QED
    BY <2>1, <2>2
<1> QED
  BY <1>1, <1>2, <1>3 DEF Wrap

\* Converting numbers makes numbers, below zero only by way of an overflow.
LEMMA ConversionType ==
    ASSUME NEW o, NEW k \in DOMAIN o, o[k] \in Int
    PROVE  /\ DOMAIN Converted(o) = DOMAIN o /\ Converted(o)[k] \in Int
           /\ k \notin Durations => Converted(o)[k] = o[k]
           /\ o[k] >= 0 /\ Converted(o)[k] < 0 => o[k] * NsPerMs > MaxInt
<1>1. PICK n \in Int : n = o[k] * NsPerMs /\ (o[k] >= 0 => n >= 0)
  BY ConfigAssumption
<1>2. Wrap(n) \in Int /\ (0 <= n /\ n <= MaxInt => Wrap(n) = n) /\ MaxInt \in Int
  BY WrapType, ConfigAssumption
<1>3. Converted(o)[k] = IF k \in Durations THEN Wrap(n) ELSE o[k]
  BY <1>1 DEF Converted, Milliseconds
<1>4. DOMAIN Converted(o) = DOMAIN o
  BY DEF Converted
<1> QED
  BY <1>1, <1>2, <1>3, <1>4

\* A merge takes numbers to numbers.
LEMMA ApplyType ==
    ASSUME NEW o, NEW base \in [Settings -> Int],
           \A k \in Settings \cap DOMAIN o : o[k] \in Int
    PROVE  Apply(o, base) \in [Settings -> Int]
<1>1. DOMAIN base = Settings
  OBVIOUS
<1>2. Apply(o, base) = [k \in Settings |-> IF k \in DOMAIN o THEN o[k] ELSE base[k]]
  BY <1>1 DEF Apply
<1> QED
  BY <1>2

\* What the daemon starts with is typed.
LEMMA LoadedIsTyped ==
    ASSUME NEW f \in Files, NEW e \in Envs, conf = Loaded(f, e)
    PROVE  ConfTyped
<1>f. /\ IsNamed(f.policy, Settings) /\ IsNamed(f.adaptive, Adaptive)
      /\ \A m \in DOMAIN f.overrides : IsNamed(f.overrides[m], Knobs)
      /\ \A i \in DOMAIN f.backends : f.backends[i].name \in Backends
      /\ IsNamed(e.policy, Knobs) /\ IsNamed(e.adaptive, {"enabled"})
      /\ DefaultWindow \in Nat
  BY AdaptiveAssumption, ConfigAssumption DEF IsFile, IsEnv, Settings
<1> DEFINE d == Decode(f)
<1>1. /\ conf.policy = Apply(e.policy, d.policy)
      /\ conf.adaptive = Apply(e.adaptive, d.adaptive)
      /\ conf.overrides = f.overrides /\ conf.backends = f.backends
      /\ d.policy = Apply(f.policy, Default.policy)
      /\ d.adaptive = Apply(f.adaptive, Default.adaptive)
  BY DEF Loaded, ApplyEnv, Decode
<1>2. conf.policy \in [Settings -> Int]
  <2>1. Default.policy \in [Settings -> Int]
    BY DEF Default, Settings, Knobs, Cooldown
  <2>2. /\ \A k \in Settings \cap DOMAIN f.policy : f.policy[k] \in Int
        /\ \A k \in Settings \cap DOMAIN e.policy : e.policy[k] \in Int
    <3>1. \A k \in Settings : k # "enabled"
      BY DEF Settings, Knobs, Cooldown
    <3> QED
      BY <1>f, <3>1, NamedNumbers
  <2>3. d.policy \in [Settings -> Int]
    BY <1>1, <2>1, <2>2, ApplyType
  <2> HIDE DEF d
  <2> QED
    BY <1>1, <2>2, <2>3, ApplyType
<1>3. /\ conf.adaptive.enabled \in BOOLEAN /\ conf.adaptive.window \in Int
      /\ conf.adaptive.minSamples \in Int
  <2>1. /\ DOMAIN Default.adaptive = Adaptive /\ Default.adaptive["enabled"] \in BOOLEAN
        /\ Default.adaptive["window"] \in Int /\ Default.adaptive["minSamples"] \in Int
    <3>1. Default.adaptive = [enabled |-> FALSE, window |-> DefaultWindow, minSamples |-> 10]
      BY DEF Default
    <3>2. DOMAIN Default.adaptive = Adaptive
      BY <3>1 DEF Adaptive
    <3>3. Default.adaptive.enabled = FALSE
      BY <3>1
    <3>4. Default.adaptive.window = DefaultWindow /\ Default.adaptive.minSamples = 10
      BY <3>1
    <3> HIDE DEF Default
    <3>5. Default.adaptive["enabled"] \in BOOLEAN
      BY <3>3
    <3> QED
      BY <1>f, <3>2, <3>4, <3>5
  <2>2. ASSUME NEW o, NEW base, NEW S, IsNamed(o, S), DOMAIN base = Adaptive,
               base["enabled"] \in BOOLEAN, base["window"] \in Int,
               base["minSamples"] \in Int
        PROVE  LET a == Apply(o, base)
               IN /\ DOMAIN a = Adaptive /\ a["enabled"] \in BOOLEAN
                  /\ a["window"] \in Int /\ a["minSamples"] \in Int
    <3> DEFINE a == Apply(o, base)
    <3>1. a = [k \in Adaptive |-> IF k \in DOMAIN o THEN o[k] ELSE base[k]]
      BY <2>2 DEF Apply
    <3>2. \A k \in DOMAIN o : IF k = "enabled" THEN o[k] \in BOOLEAN ELSE o[k] \in Int
      BY <2>2, NamedNumbers
    <3>3. "enabled" \in Adaptive /\ "window" \in Adaptive /\ "minSamples" \in Adaptive
      BY DEF Adaptive
    <3> HIDE DEF a
    <3>4. DOMAIN a = Adaptive /\ a["window"] \in Int /\ a["minSamples"] \in Int
      BY <2>2, <3>1, <3>2, <3>3
    <3>5. a["enabled"] \in BOOLEAN
      <4>1. a["enabled"] = IF "enabled" \in DOMAIN o THEN o["enabled"] ELSE base["enabled"]
        BY <3>1, <3>3
      <4> QED
        BY <2>2, <3>2, <4>1
    <3> QED
      BY <3>4, <3>5 DEF a
  <2>3. /\ DOMAIN d.adaptive = Adaptive /\ d.adaptive["enabled"] \in BOOLEAN
        /\ d.adaptive["window"] \in Int /\ d.adaptive["minSamples"] \in Int
    BY <1>f, <1>1, <2>1, <2>2
  <2> HIDE DEF d
  <2>4. /\ conf.adaptive["enabled"] \in BOOLEAN /\ conf.adaptive["window"] \in Int
        /\ conf.adaptive["minSamples"] \in Int
    BY <1>f, <1>1, <2>2, <2>3
  <2> QED
    BY <2>4
<1>4. Configured \subseteq Backends
  BY <1>f, <1>1 DEF Configured
<1> QED
  BY <1>f, <1>1, <1>2, <1>3, <1>4 DEF ConfTyped

\* The window holds a sample at least, and a warm ring has one.
LEMMA WindowAndNeed ==
    ASSUME ConfTyped
    PROVE  Window \in Nat \ {0} /\ Need \in Nat \ {0}
BY ConfigAssumption DEF ConfTyped, Window, Need

Bounded(p) ==
    /\ p \in [Settings -> Int] /\ p.maxInFlight >= 1 /\ p.costCeiling >= 0
    /\ \A k \in {"fireAfter", "requestTimeout"} :
         p[k] < 0 => p = HedgePolicy(conf) /\ conf.policy[k] * NsPerMs > MaxInt

\* A policy is typed and within its bounds, whatever the model.
LEMMA PolicyIsBounded ==
    ASSUME ConfTyped, Validate(conf), NEW m
    PROVE  Bounded(HedgePolicyFor(conf, m)) /\ Bounded(HedgePolicy(conf))
<1> DEFINE h == HedgePolicy(conf)
           o == conf.overrides[m]
           p == Apply(Converted(o), h)
<1>s. /\ {"fireAfter", "requestTimeout", "maxInFlight", "costCeiling"} \subseteq Settings
      /\ "maxInFlight" \notin Durations /\ "costCeiling" \notin Durations
      /\ \A k \in Settings : k # "enabled"
      /\ {"fireAfter", "requestTimeout", "costCeiling"} \subseteq Knobs
  BY DEF Settings, Knobs, Cooldown, Durations
<1>1. /\ conf.policy \in [Settings -> Int] /\ conf.policy["maxInFlight"] >= 1
      /\ \A k \in Settings : conf.policy[k] >= 0
  BY DEF ConfTyped, Validate, ValidSettings, Settings
<1>2. ASSUME NEW k \in Settings
      PROVE  /\ DOMAIN h = Settings /\ h[k] \in Int
             /\ k \notin Durations => h[k] = conf.policy[k]
             /\ h[k] < 0 => conf.policy[k] * NsPerMs > MaxInt
  <2>1. k \in DOMAIN conf.policy /\ conf.policy[k] \in Int /\ conf.policy[k] >= 0
        /\ DOMAIN conf.policy = Settings
    BY <1>1
  <2> QED
    BY <2>1, ConversionType DEF HedgePolicy
<1>3. h \in [Settings -> Int]
  <2>1. h = [k \in DOMAIN h |-> h[k]]
    BY DEF HedgePolicy, Converted
  <2> HIDE DEF h
  <2> QED
    BY <1>s, <1>2, <2>1
<1>4. Bounded(h)
  <2>1. h["maxInFlight"] >= 1 /\ h["costCeiling"] >= 0
    BY <1>s, <1>1, <1>2
  <2>2. \A k \in {"fireAfter", "requestTimeout"} :
          h[k] < 0 => conf.policy[k] * NsPerMs > MaxInt
    BY <1>s, <1>2
  <2> QED
    BY <1>3, <2>1, <2>2 DEF Bounded
<1>5. CASE m \in DOMAIN conf.overrides
  <2>1. IsNamed(o, Knobs) /\ HedgePolicyFor(conf, m) = p /\ ValidPolicy(p)
    BY <1>5 DEF ConfTyped, Validate, HedgePolicyFor
  <2>2. \A k \in Settings \cap DOMAIN Converted(o) : Converted(o)[k] \in Int
    <3>1. DOMAIN Converted(o) = DOMAIN o
      BY DEF Converted
    <3>2. \A k \in Settings \cap DOMAIN o : o[k] \in Int
      BY <1>s, <2>1, NamedNumbers
    <3> QED
      BY <3>1, <3>2, ConversionType
  <2>3. p \in [Settings -> Int]
    <3> HIDE DEF h, o
    <3> QED
      BY <1>3, <2>2, ApplyType
  <2>4. p["maxInFlight"] >= 1 /\ \A k \in Knobs : p[k] >= 0
    BY <2>1 DEF ValidPolicy
  <2>5. Bounded(p)
    <3> HIDE DEF p
    <3>1. \A k \in {"fireAfter", "requestTimeout", "costCeiling"} : p[k] \in Int /\ ~(p[k] < 0)
      BY <1>s, <2>3, <2>4
    <3> QED
      BY <1>s, <2>3, <2>4, <3>1 DEF Bounded
  <2> QED
    BY <1>4, <2>1, <2>5
<1>6. CASE m \notin DOMAIN conf.overrides
  BY <1>4, <1>6 DEF HedgePolicyFor
<1> QED
  BY <1>5, <1>6

-----------------------------------------------------------------------------
(* The rings.                                                              *)

\* Of a remainder: an index is its own, and one that is too low is one round up.
LEMMA RoundUp ==
    ASSUME NEW w \in Nat \ {0}, NEW m \in Int, m < 0, -w <= m
    PROVE  m % w = m + w
OBVIOUS

\* The length is no index but the first one again.
LEMMA RoundOff == ASSUME NEW w \in Nat \ {0} PROVE w % w = 0
OBVIOUS

\* Indices go round.
LEMMA Around ==
    ASSUME NEW w \in Nat \ {0}, NEW a \in 0 .. w - 1
    PROVE  /\ (a + 1) % w = IF a + 1 = w THEN 0 ELSE a + 1
           /\ \A k \in 0 .. w : (a - k) % w = IF k <= a THEN a - k ELSE a - k + w
<1>1. ASSUME NEW m \in 0 .. w - 1 PROVE m % w = m
  OBVIOUS
<1>3. w % w = 0
  BY RoundOff
<1>4. ASSUME NEW k \in 0 .. w
      PROVE  (a - k) % w = IF k <= a THEN a - k ELSE a - k + w
  <2>1. CASE k <= a
    <3>1. a - k \in 0 .. w - 1
      BY <2>1
    <3> QED
      BY <1>1, <2>1, <3>1
  <2>2. CASE ~(k <= a)
    <3>1. a - k \in Int /\ a - k < 0 /\ -w <= a - k
      BY <2>2
    <3> QED
      BY <2>2, <3>1, RoundUp
  <2> QED
    BY <2>1, <2>2
<1>5. (a + 1) % w = IF a + 1 = w THEN 0 ELSE a + 1
  <2>1. CASE a + 1 = w
    BY <1>3, <2>1
  <2>2. CASE a + 1 # w
    <3>1. a + 1 \in 0 .. w - 1
      BY <2>2
    <3> QED
      BY <1>1, <2>2, <3>1
  <2> QED
    BY <2>1, <2>2
<1> QED
  BY <1>4, <1>5

\* One step on and one more back leads to the same place.
LEMMA SamePlace ==
    ASSUME NEW w \in Nat \ {0}, NEW a \in 0 .. w - 1, NEW k \in 2 .. w
    PROVE  (((a + 1) % w) - k) % w = (a - (k - 1)) % w
<1>1. (a + 1) % w = IF a + 1 = w THEN 0 ELSE a + 1
  BY Around
<1>2. k \in 0 .. w /\ k - 1 \in 0 .. w
  OBVIOUS
<1>3. (a - (k - 1)) % w = IF k - 1 <= a THEN a - (k - 1) ELSE a - (k - 1) + w
  BY <1>2, Around
<1>4. CASE a + 1 = w
  <2>1. (a + 1) % w = 0 /\ 0 \in 0 .. w - 1
    BY <1>1, <1>4
  <2>2. (0 - k) % w = IF k <= 0 THEN 0 - k ELSE 0 - k + w
    BY <1>2, <2>1, Around
  <2>3. k - 1 <= a /\ a = w - 1 /\ ~(k <= 0)
    BY <1>4
  <2> QED
    BY <1>3, <2>1, <2>2, <2>3
<1>5. CASE a + 1 # w
  <2>1. (a + 1) % w = a + 1 /\ a + 1 \in 0 .. w - 1
    BY <1>1, <1>5
  <2>2. ((a + 1) - k) % w = IF k <= a + 1 THEN (a + 1) - k ELSE (a + 1) - k + w
    BY <1>2, <2>1, Around
  <2>3. (a + 1) - k = a - (k - 1) /\ (k <= a + 1 <=> k - 1 <= a)
    OBVIOUS
  <2> QED
    BY <1>3, <2>1, <2>2, <2>3
<1> QED
  BY <1>4, <1>5

Rings == [buf : [0 .. Window - 1 -> Nat], next : 0 .. Window - 1, count : 0 .. Window]

\* A ring that holds the latest w of the samples g, the one added last just
\* behind the write index; one that is not full was filled from slot 0.
Holds(ring, g, w) ==
    /\ ring.count = IF Len(g) < w THEN Len(g) ELSE w
    /\ Len(g) < w => ring.next = Len(g)
    /\ \A k \in 1 .. ring.count : ring.buf[(ring.next - k) % w] = g[Len(g) + 1 - k]

RingsInv == \A b \in Backends : Holds(rings[b], given[b], Window)

\* A ring that is given another sample holds it too.
LEMMA AddHolds ==
    ASSUME ConfTyped, NEW ring \in Rings, NEW g \in Seq(Nat), NEW d \in Nat,
           Holds(ring, g, Window)
    PROVE  /\ Add(ring, d) \in Rings
           /\ Holds(Add(ring, d), Append(g, d), Window)
<1> DEFINE new == Add(ring, d)
           gg == Append(g, d)
<1>1. PICK w \in Nat \ {0} : w = Window
  BY WindowAndNeed
<1>2. /\ new.buf = [ring.buf EXCEPT ![ring.next] = d]
      /\ new.next = (ring.next + 1) % w
      /\ new.count = IF ring.count < w THEN ring.count + 1 ELSE ring.count
      /\ new = [buf |-> new.buf, next |-> new.next, count |-> new.count]
  BY <1>1 DEF Add
<1>3. /\ ring.buf \in [0 .. w - 1 -> Nat] /\ ring.next \in 0 .. w - 1
      /\ ring.count \in 0 .. w
  BY <1>1 DEF Rings
<1>4. /\ Len(g) \in Nat /\ Len(gg) = Len(g) + 1 /\ gg[Len(g) + 1] = d
      /\ \A i \in 1 .. Len(g) : gg[i] = g[i]
  BY LenProperties, AppendProperties
<1>5. /\ ring.count = IF Len(g) < w THEN Len(g) ELSE w
      /\ Len(g) < w => ring.next = Len(g)
      /\ \A k \in 1 .. ring.count : ring.buf[(ring.next - k) % w] = g[Len(g) + 1 - k]
  BY <1>1 DEF Holds
<1>6. /\ (ring.next + 1) % w = IF ring.next + 1 = w THEN 0 ELSE ring.next + 1
      /\ \A k \in 0 .. w : (ring.next - k) % w =
           IF k <= ring.next THEN ring.next - k ELSE ring.next - k + w
  BY <1>3, Around
<1> HIDE DEF new, gg
<1>n. new.next = IF ring.next + 1 = w THEN 0 ELSE ring.next + 1
  BY <1>2, <1>6
<1>c. new.count = IF ring.count < w THEN ring.count + 1 ELSE ring.count
  BY <1>2
<1>7. new.next \in 0 .. w - 1 /\ new.count \in 0 .. w
  BY <1>3, <1>n, <1>c, SMTT(30)
<1>8. \A k \in 0 .. w : (new.next - k) % w =
        IF k <= new.next THEN new.next - k ELSE new.next - k + w
  BY <1>7, Around
<1>9. new.buf \in [0 .. w - 1 -> Nat]
  BY <1>2, <1>3
<1>10. new \in Rings
  BY <1>1, <1>2, <1>7, <1>9 DEF Rings
<1>11. new.count = IF Len(gg) < w THEN Len(gg) ELSE w
  BY <1>2, <1>4, <1>5
<1>12. Len(gg) < w => new.next = Len(gg)
  BY <1>2, <1>3, <1>4, <1>5, <1>6
<1>13. ASSUME NEW k \in 1 .. new.count
       PROVE  new.buf[(new.next - k) % w] = gg[Len(gg) + 1 - k]
  <2>1. CASE k = 1
    <3>1. (new.next - 1) % w = ring.next
      <4>1. 1 \in 0 .. w
        OBVIOUS
      <4>2. (new.next - 1) % w = IF 1 <= new.next THEN new.next - 1 ELSE new.next - 1 + w
        BY <1>8, <4>1
      <4> QED
        BY <1>3, <1>n, <4>2, SMTT(30)
    <3>2. new.buf[ring.next] = d
      BY <1>2, <1>3
    <3>3. Len(gg) + 1 - 1 = Len(g) + 1
      BY <1>4
    <3> QED
      BY <1>4, <2>1, <3>1, <3>2, <3>3
  <2>2. CASE k # 1
    <3>1. k - 1 \in 1 .. ring.count /\ k - 1 \in 1 .. w - 1 /\ k \in 0 .. w
      BY <1>3, <1>7, <1>c, <2>2
    <3>2. (new.next - k) % w = (ring.next - (k - 1)) % w
      <4>1. k \in 2 .. w /\ new.next = (ring.next + 1) % w
        BY <1>2, <2>2, <3>1
      <4> QED
        BY <1>3, <4>1, SamePlace
    <3>3. /\ (ring.next - (k - 1)) % w # ring.next
          /\ (ring.next - (k - 1)) % w \in 0 .. w - 1
      <4>1. k - 1 \in 0 .. w
        BY <3>1
      <4>2. (ring.next - (k - 1)) % w =
              IF k - 1 <= ring.next THEN ring.next - (k - 1) ELSE ring.next - (k - 1) + w
        BY <1>6, <4>1
      <4>3. PICK x \in 0 .. w - 1 : x = ring.next
        BY <1>3
      <4>4. ASSUME k - 1 <= x
            PROVE  x - (k - 1) # x /\ x - (k - 1) \in 0 .. w - 1
        BY <3>1, <4>4
      <4>5. ASSUME ~(k - 1 <= x)
            PROVE  x - (k - 1) + w # x /\ x - (k - 1) + w \in 0 .. w - 1
        BY <3>1, <4>5
      <4> QED
        BY <4>2, <4>3, <4>4, <4>5
    <3>4. new.buf[(ring.next - (k - 1)) % w] = ring.buf[(ring.next - (k - 1)) % w]
      BY <1>2, <1>3, <3>3
    <3>5. ring.buf[(ring.next - (k - 1)) % w] = g[Len(g) + 1 - (k - 1)]
      BY <1>5, <3>1
    <3>6. Len(g) + 1 - (k - 1) = Len(gg) + 1 - k /\ Len(gg) + 1 - k \in 1 .. Len(g)
      BY <1>3, <1>4, <1>5, <3>1
    <3>7. gg[Len(gg) + 1 - k] = g[Len(gg) + 1 - k]
      BY <1>4, <3>6
    <3> QED
      BY <3>2, <3>4, <3>5, <3>6, <3>7
  <2> QED
    BY <2>1, <2>2
<1>14. Holds(new, gg, w)
  BY <1>11, <1>12, <1>13 DEF Holds
<1> QED
  BY <1>1, <1>10, <1>14 DEF new, gg

\* A percentile of a ring that has samples is one of them, of the right rank.
LEMMA PercentileIs ==
    ASSUME ConfTyped, NEW ring \in Rings, ring.count > 0
    PROVE  LET p == Percentile(ring, 50)
               h == ring.count \div 2
           IN /\ p \in Nat
              /\ Cardinality({i \in LiveSlots(ring) : ring.buf[i] < p}) <= h
              /\ h < Cardinality({i \in LiveSlots(ring) : ring.buf[i] <= p})
<1> DEFINE n == ring.count
           k == Rank(50, n)
           S == LiveSlots(ring)
           f == ring.buf
<1>1. PICK w \in Nat \ {0} : w = Window
  BY WindowAndNeed
<1>2. /\ n \in Nat /\ n > 0 /\ n <= w /\ \A i \in 0 .. w - 1 : f[i] \in Nat
  BY <1>1 DEF Rings
<1>3. k = n \div 2 /\ k \in Nat /\ k < n
  BY <1>2 DEF Rank
<1>4. S = 0 .. n - 1 /\ IsFiniteSet(S) /\ Cardinality(S) = n /\ \A i \in S : f[i] \in Nat
  <2>1. S = 0 .. n - 1
    BY DEF LiveSlots
  <2>2. IsFiniteSet(0 .. n - 1) /\ Cardinality(0 .. n - 1) = n
    <3>1. 0 \in Int /\ n - 1 \in Int /\ ~(0 > n - 1) /\ n - 1 - 0 + 1 = n
      BY <1>2
    <3> HIDE DEF n
    <3> QED
      BY <3>1, FS_Interval
  <2> QED
    BY <1>2, <2>1, <2>2
<1>5. \E v \in {f[i] : i \in S} : /\ Cardinality(Below(S, f, v)) <= k
                                  /\ k < Cardinality(AtMost(S, f, v))
  <2> HIDE DEF k, S, f, n
  <2> QED
    BY <1>3, <1>4, OrderStatistic
<1> DEFINE p == Sorted(ring, k)
<1>6. p = CHOOSE v \in {f[i] : i \in S} : /\ Cardinality(Below(S, f, v)) <= k
                                          /\ k < Cardinality(AtMost(S, f, v))
  BY DEF Sorted, Below, AtMost
<1>7. /\ p \in {f[i] : i \in S}
      /\ Cardinality(Below(S, f, p)) <= k /\ k < Cardinality(AtMost(S, f, p))
  <2> HIDE DEF k, S, f, n, p
  <2> QED
    BY <1>5, <1>6
<1>8. p \in Nat
  BY <1>4, <1>7
<1> QED
  BY <1>3, <1>7, <1>8 DEF Percentile, Below, AtMost

-----------------------------------------------------------------------------
(* The invariant.                                                          *)

\* A request that is between the two locks counted enough samples under the
\* first.
WarmInv ==
    \A r \in Requests : phase[r] = "suggesting" => rings[primary[r]].count >= Need

\* Policies are bounded, and a delay is below zero only by its policy's.
PolicyInv ==
    \A r \in Requests :
        /\ Bounded(pol[r]) /\ (delay[r] < 0 => pol[r].fireAfter < 0)
        /\ phase[r] # "racing" => delay[r] = 0

AdaptiveInv ==
    /\ ConfTyped /\ TypeOK /\ RingsInv /\ WarmInv /\ PolicyInv
    /\ ColdPrimaryStaysStatic

\* TypeOK, part by part.
LEMMA AdaptiveTypes ==
    ASSUME TypeOK
    PROVE  /\ Validate(conf) /\ rings \in [Backends -> Rings]
           /\ given \in [Backends -> Seq(Latencies)] /\ given \in [Backends -> Seq(Nat)]
           /\ phase \in [Requests -> {"idle", "suggesting", "racing"}]
           /\ primary \in [Requests -> Backends] /\ delay \in [Requests -> Int]
           /\ pol \in [Requests -> [Settings -> Int]]
<1>1. given \in [Backends -> Seq(Nat)]
  <2>1. given \in [Backends -> Seq(Latencies)] /\ Latencies \subseteq Nat
    BY AdaptiveAssumption DEF TypeOK
  <2>2. \A g \in Seq(Latencies) : g \in Seq(Nat)
    BY <2>1, SeqMonotonic
  <2> QED
    BY <2>1, <2>2
<1> QED
  BY <1>1 DEF TypeOK, Rings, Settings

\* The daemon starts with empty rings and a valid configuration.
LEMMA AdaptiveInit == Init => AdaptiveInv
<1> SUFFICES ASSUME Init PROVE AdaptiveInv
  OBVIOUS
<1>1. ConfTyped /\ Validate(conf)
  <2>1. PICK f \in Files, e \in Envs : Loads(f, e) /\ conf = Loaded(f, e)
    BY DEF Init
  <2> QED
    BY <2>1, LoadedIsTyped DEF Loads
<1>2. PICK w \in Nat \ {0} : w = Window
  BY <1>1, WindowAndNeed
<1>3. /\ rings = [b \in Backends |-> NewRing(w)] /\ given = [b \in Backends |-> <<>>]
      /\ phase = [r \in Requests |-> "idle"] /\ delay = [r \in Requests |-> 0]
      /\ pol = [r \in Requests |-> HedgePolicy(conf)]
      /\ \E b \in Configured : primary = [r \in Requests |-> b]
  BY <1>2 DEF Init
<1>4. Bounded(HedgePolicy(conf)) /\ HedgePolicy(conf) \in [Settings -> Int]
  BY <1>1, PolicyIsBounded DEF Bounded
<1>5. NewRing(w) \in Rings /\ Holds(NewRing(w), <<>>, w)
  <2>1. NewRing(w) = [buf |-> [i \in 0 .. w - 1 |-> 0], next |-> 0, count |-> 0]
    BY DEF NewRing
  <2>2. NewRing(w) \in Rings
    BY <1>2, <2>1 DEF Rings
  <2>3. NewRing(w).count = 0 /\ NewRing(w).next = 0
    BY DEF NewRing
  <2>5. Len(<<>>) = 0 /\ 0 < w
    OBVIOUS
  <2>4. 1 .. 0 = {}
    OBVIOUS
  <2> QED
    BY <2>2, <2>3, <2>4, <2>5 DEF Holds
<1>6. TypeOK
  <2>1. rings \in [Backends -> Rings]
    BY <1>3, <1>5
  <2>2. given \in [Backends -> Seq(Latencies)]
    BY <1>3
  <2>3. primary \in [Requests -> Backends]
    BY <1>1, <1>3 DEF ConfTyped
  <2>4. pol \in [Requests -> [Settings -> Int]]
    BY <1>3, <1>4
  <2>5. delay \in [Requests -> Int] /\ phase \in [Requests -> {"idle", "suggesting", "racing"}]
    BY <1>3
  <2> QED
    BY <1>1, <2>1, <2>2, <2>3, <2>4, <2>5 DEF TypeOK, Rings, Settings
<1>7. RingsInv
  BY <1>2, <1>3, <1>5 DEF RingsInv
<1>8. WarmInv /\ PolicyInv /\ ColdPrimaryStaysStatic
  BY <1>3, <1>4 DEF WarmInv, PolicyInv, ColdPrimaryStaysStatic
<1> QED
  BY <1>1, <1>6, <1>7, <1>8 DEF AdaptiveInv

\* The delay is a suggestion above zero or else the policy's.
LEMMA DelayType ==
    ASSUME NEW p \in [Settings -> Int], NEW s \in Int
    PROVE  /\ ResolveFireAfter(s, p) \in Int /\ p.fireAfter \in Int
           /\ ResolveFireAfter(s, p) < 0 => p.fireAfter < 0
<1>1. p["fireAfter"] \in Int
  BY DEF Settings, Knobs
<1> QED
  BY <1>1 DEF ResolveFireAfter

\* A request that asks for its delay.
LEMMA ResolveStep ==
    ASSUME AdaptiveInv, NEW r \in Requests, NEW m \in Models, NEW b \in Configured,
           Resolve(r, m, b)
    PROVE  AdaptiveInv'
<1>i. ConfTyped /\ TypeOK /\ RingsInv /\ WarmInv /\ PolicyInv /\ ColdPrimaryStaysStatic
  BY DEF AdaptiveInv
<1>t. /\ Validate(conf) /\ rings \in [Backends -> Rings]
      /\ phase \in [Requests -> {"idle", "suggesting", "racing"}]
      /\ primary \in [Requests -> Backends] /\ delay \in [Requests -> Int]
      /\ pol \in [Requests -> [Settings -> Int]] /\ b \in Backends
  BY <1>i, AdaptiveTypes DEF ConfTyped
<1>1. PICK p \in [Settings -> Int] : p = HedgePolicyFor(conf, m) /\ Bounded(p)
  BY <1>i, <1>t, PolicyIsBounded DEF Bounded
<1>2. /\ UNCHANGED <<conf, rings, given>>
      /\ primary' = [primary EXCEPT ![r] = b] /\ pol' = [pol EXCEPT ![r] = p]
      /\ pol'[r] = p
  BY <1>1, <1>t DEF Resolve
<1>3. \/ /\ Warm(rings[b]) /\ phase' = [phase EXCEPT ![r] = "suggesting"] /\ delay' = delay
      \/ /\ phase' = [phase EXCEPT ![r] = "racing"]
         /\ \/ conf.adaptive.enabled /\ delay' = [delay EXCEPT ![r] = ResolveFireAfter(StaticFireAfter, p)]
            \/ ~conf.adaptive.enabled /\ delay' = [delay EXCEPT ![r] = p.fireAfter]
  BY <1>2 DEF Resolve
<1>4. /\ StaticFireAfter \in Int /\ ResolveFireAfter(StaticFireAfter, p) \in Int
      /\ p.fireAfter \in Int
      /\ ResolveFireAfter(StaticFireAfter, p) < 0 => p.fireAfter < 0
  <2>1. PICK h \in [Settings -> Int] : h = HedgePolicy(conf)
    BY <1>i, <1>t, PolicyIsBounded DEF Bounded
  <2>2. h.fireAfter \in Int
    BY <2>1, DelayType
  <2>3. StaticFireAfter \in Int
    BY <2>1, <2>2 DEF StaticFireAfter
  <2> QED
    BY <2>3, DelayType
<1>5. /\ phase' \in [Requests -> {"idle", "suggesting", "racing"}]
      /\ delay' \in [Requests -> Int]
  BY <1>t, <1>3, <1>4
<1>6. primary' \in [Requests -> Backends] /\ pol' \in [Requests -> [Settings -> Int]]
  BY <1>t, <1>2
<1>7. TypeOK'
  BY <1>i, <1>2, <1>5, <1>6 DEF TypeOK, Settings, Window
<1>8. ConfTyped' /\ RingsInv'
  BY <1>i, <1>2 DEF ConfTyped, RingsInv, Window, Configured
<1>9. \A q \in Requests : q # r =>
        /\ phase'[q] = phase[q] /\ primary'[q] = primary[q] /\ pol'[q] = pol[q]
        /\ delay'[q] = delay[q]
  BY <1>t, <1>2, <1>3
<1>10. /\ primary'[r] = b
       /\ phase'[r] = "suggesting" => Warm(rings[b])
  BY <1>t, <1>2, <1>3
<1>11. WarmInv'
  <2> SUFFICES ASSUME NEW q \in Requests, phase'[q] = "suggesting"
               PROVE  rings'[primary'[q]].count >= Need'
    BY DEF WarmInv
  <2>1. Need' = Need /\ rings' = rings
    BY <1>2 DEF Need
  <2>2. CASE q = r
    BY <1>10, <2>1, <2>2 DEF Warm
  <2>3. CASE q # r
    BY <1>i, <1>9, <2>1, <2>3 DEF WarmInv
  <2> QED
    BY <2>2, <2>3
<1>12. PolicyInv'
  <2>1. \A x : Bounded(x)' <=> Bounded(x)
    BY <1>2 DEF Bounded
  <2>2. delay[r] = 0
    BY <1>i DEF PolicyInv, Resolve
  <2>3. /\ delay'[r] < 0 => p.fireAfter < 0
        /\ phase'[r] # "racing" => delay'[r] = 0
    BY <1>t, <1>3, <1>4, <2>2
  <2>4. ASSUME NEW q \in Requests
        PROVE  /\ Bounded(pol'[q]) /\ (delay'[q] < 0 => pol'[q].fireAfter < 0)
               /\ phase'[q] # "racing" => delay'[q] = 0
    BY <1>i, <1>1, <1>2, <1>9, <2>3 DEF PolicyInv
  <2> QED
    BY <2>1, <2>4 DEF PolicyInv
<1>13. ColdPrimaryStaysStatic'
  <2>1. phase'[r] = "racing" =>
          delay'[r] = IF conf.adaptive.enabled /\ StaticFireAfter > 0
                      THEN StaticFireAfter ELSE p.fireAfter
    BY <1>t, <1>3 DEF ResolveFireAfter
  <2>2. Need' = Need /\ StaticFireAfter' = StaticFireAfter
    BY <1>2 DEF Need, StaticFireAfter
  <2> QED
    BY <1>i, <1>2, <1>9, <2>1, <2>2 DEF ColdPrimaryStaysStatic
<1> QED
  BY <1>7, <1>8, <1>11, <1>12, <1>13 DEF AdaptiveInv

\* A request that takes the median of its primary.
LEMMA SuggestStep ==
    ASSUME AdaptiveInv, NEW r \in Requests, Suggest(r)
    PROVE  AdaptiveInv'
<1>i. ConfTyped /\ TypeOK /\ RingsInv /\ WarmInv /\ PolicyInv /\ ColdPrimaryStaysStatic
  BY DEF AdaptiveInv
<1>t. /\ rings \in [Backends -> Rings]
      /\ phase \in [Requests -> {"idle", "suggesting", "racing"}]
      /\ primary \in [Requests -> Backends] /\ delay \in [Requests -> Int]
      /\ pol \in [Requests -> [Settings -> Int]] /\ given \in [Backends -> Seq(Nat)]
  BY <1>i, AdaptiveTypes
<1>1. PICK b \in Backends : b = primary[r]
  BY <1>t
<1>2. rings[b].count >= Need /\ Need \in Nat \ {0} /\ rings[b].count \in Nat
  <2>1. Window \in Nat /\ Need \in Nat \ {0}
    BY <1>i, WindowAndNeed
  <2>2. rings[b] \in Rings
    BY <1>t
  <2>3. rings[b].count \in 0 .. Window
    BY <2>2 DEF Rings
  <2> QED
    BY <1>i, <1>1, <2>1, <2>3 DEF Suggest, WarmInv
<1>3. PICK s \in Nat : delay' = [delay EXCEPT ![r] = ResolveFireAfter(s, pol[r])]
  <2>0. rings[b].count > 0 /\ rings[b].count # 0 /\ rings[b] \in Rings
    BY <1>t, <1>2
  <2>1. Percentile(rings[b], 50) \in Nat
    BY <1>i, <2>0, PercentileIs
  <2>2. delay' = [delay EXCEPT ![r] = ResolveFireAfter(Percentile(rings[b], 50), pol[r])]
    BY <1>1, <2>0 DEF Suggest
  <2> QED
    BY <2>1, <2>2
<1>4. /\ phase' = [phase EXCEPT ![r] = "racing"] /\ UNCHANGED <<conf, rings, given, primary, pol>>
  BY DEF Suggest
<1>5. delay' \in [Requests -> Int] /\ (delay'[r] < 0 => pol[r].fireAfter < 0)
  <2>1. pol[r] \in [Settings -> Int]
    BY <1>t
  <2>2. /\ ResolveFireAfter(s, pol[r]) \in Int
        /\ ResolveFireAfter(s, pol[r]) < 0 => pol[r].fireAfter < 0
    <3>1. PICK p \in [Settings -> Int] : p = pol[r]
      BY <2>1
    <3> QED
      BY <3>1, DelayType
  <2> QED
    BY <1>t, <1>3, <2>2
<1>6. TypeOK'
  BY <1>i, <1>t, <1>4, <1>5 DEF TypeOK, Window
<1>7. ConfTyped' /\ RingsInv' /\ PolicyInv'
  <2>1. \A x : Bounded(x)' <=> Bounded(x)
    BY <1>4 DEF Bounded
  <2>2. \A q \in Requests : q # r => phase'[q] = phase[q] /\ delay'[q] = delay[q]
    BY <1>t, <1>3, <1>4
  <2>3. phase'[r] = "racing"
    BY <1>t, <1>4
  <2>4. PolicyInv'
    BY <1>i, <1>4, <1>5, <2>1, <2>2, <2>3 DEF PolicyInv
  <2> QED
    BY <1>i, <1>4, <2>4 DEF ConfTyped, RingsInv, Window, Configured
<1>8. WarmInv'
  BY <1>i, <1>t, <1>4 DEF WarmInv, Need
<1>9. Len(given[b]) >= Need
  <2>1. rings[b].count = IF Len(given[b]) < Window THEN Len(given[b]) ELSE Window
    BY <1>i DEF RingsInv, Holds
  <2>2. Len(given[b]) \in Nat /\ Window \in Nat
    BY <1>i, <1>t, LenProperties, WindowAndNeed
  <2> QED
    BY <1>2, <2>1, <2>2
<1>10. ColdPrimaryStaysStatic'
  <2>1. Need' = Need /\ StaticFireAfter' = StaticFireAfter
    BY <1>4 DEF Need, StaticFireAfter
  <2>2. \A q \in Requests : q # r => phase'[q] = phase[q] /\ delay'[q] = delay[q]
    BY <1>t, <1>3, <1>4
  <2>3. Len(given[b]) \in Nat
    BY <1>t, LenProperties
  <2>4. ~(Len(given'[primary'[r]]) < Need)
    BY <1>1, <1>2, <1>4, <1>9, <2>3
  <2> QED
    BY <1>i, <1>4, <2>1, <2>2, <2>4 DEF ColdPrimaryStaysStatic
<1> QED
  BY <1>6, <1>7, <1>8, <1>10 DEF AdaptiveInv

\* A request that ends, with a sample for the estimator or without.
LEMMA FinishStep ==
    ASSUME AdaptiveInv, NEW r \in Requests, Finish(r),
           \/ UNCHANGED <<rings, given>>
           \/ \E b \in Configured, d \in Latencies : Observe(b, d)
    PROVE  AdaptiveInv'
<1>i. ConfTyped /\ TypeOK /\ RingsInv /\ WarmInv /\ PolicyInv /\ ColdPrimaryStaysStatic
  BY DEF AdaptiveInv
<1>t. /\ Validate(conf) /\ rings \in [Backends -> Rings]
      /\ given \in [Backends -> Seq(Latencies)] /\ given \in [Backends -> Seq(Nat)]
      /\ phase \in [Requests -> {"idle", "suggesting", "racing"}]
      /\ primary \in [Requests -> Backends] /\ delay \in [Requests -> Int]
      /\ pol \in [Requests -> [Settings -> Int]]
  BY <1>i, AdaptiveTypes
<1>1. /\ phase' = [phase EXCEPT ![r] = "idle"] /\ delay' = [delay EXCEPT ![r] = 0]
      /\ pol' = [pol EXCEPT ![r] = HedgePolicy(conf)] /\ UNCHANGED <<conf, primary>>
  BY DEF Finish
<1>2. Bounded(HedgePolicy(conf)) /\ HedgePolicy(conf) \in [Settings -> Int]
  BY <1>i, <1>t, PolicyIsBounded DEF Bounded
<1>w. PICK w \in Nat \ {0} : w = Window /\ w = Window'
  BY <1>i, <1>1, WindowAndNeed DEF Window
<1>r. Rings' = Rings
  BY <1>w DEF Rings
<1>3. /\ rings' \in [Backends -> Rings] /\ given' \in [Backends -> Seq(Latencies)]
      /\ RingsInv'
      /\ \A b \in Backends : /\ rings'[b].count >= rings[b].count
                             /\ Len(given'[b]) >= Len(given[b])
  <2>0. ASSUME NEW b \in Backends
        PROVE  Len(given[b]) \in Nat /\ rings[b].count \in Int /\ rings[b] \in Rings
    <3>1. rings[b] \in Rings
      BY <1>t
    <3>2. rings[b].count \in 0 .. w
      BY <1>w, <3>1 DEF Rings
    <3> QED
      BY <1>t, <3>1, <3>2, LenProperties
  <2>1. CASE UNCHANGED <<rings, given>>
    BY <1>i, <1>t, <1>w, <2>0, <2>1 DEF RingsInv
  <2>2. ASSUME NEW b \in Configured, NEW d \in Latencies, Observe(b, d)
        PROVE  /\ rings' \in [Backends -> Rings] /\ given' \in [Backends -> Seq(Latencies)]
               /\ RingsInv'
               /\ \A c \in Backends : /\ rings'[c].count >= rings[c].count
                                      /\ Len(given'[c]) >= Len(given[c])
    <3>1. b \in Backends /\ d \in Nat
      BY <1>i, AdaptiveAssumption DEF ConfTyped
    <3>2. /\ rings' = [rings EXCEPT ![b] = Add(rings[b], d)]
          /\ given' = [given EXCEPT ![b] = Append(given[b], d)]
      BY <2>2 DEF Observe
    <3>3. rings[b] \in Rings /\ given[b] \in Seq(Nat) /\ Holds(rings[b], given[b], Window)
      BY <1>i, <1>t, <3>1 DEF RingsInv
    <3>4. /\ Add(rings[b], d) \in Rings
          /\ Holds(Add(rings[b], d), Append(given[b], d), w)
      BY <1>i, <1>w, <3>1, <3>3, AddHolds
    <3>5. rings' \in [Backends -> Rings]
      BY <1>t, <3>2, <3>4
    <3>6. given' \in [Backends -> Seq(Latencies)]
      <4>1. Append(given[b], d) \in Seq(Latencies)
        BY <1>t, <3>1
      <4> QED
        BY <1>t, <3>2, <4>1
    <3>7. ASSUME NEW c \in Backends PROVE Holds(rings'[c], given'[c], w)
      <4>1. CASE c = b
        BY <1>t, <3>2, <3>4, <4>1
      <4>2. CASE c # b
        BY <1>i, <1>t, <1>w, <3>2, <4>2 DEF RingsInv
      <4> QED
        BY <4>1, <4>2
    <3>8. RingsInv'
      BY <1>w, <3>7 DEF RingsInv
    <3>9. /\ rings'[b].count >= rings[b].count /\ Len(given'[b]) >= Len(given[b])
          /\ \A c \in Backends : c # b => rings'[c] = rings[c] /\ given'[c] = given[c]
      <4>1. rings'[b] = Add(rings[b], d) /\ given'[b] = Append(given[b], d)
        BY <1>t, <3>1, <3>2
      <4>2. Len(Append(given[b], d)) = Len(given[b]) + 1
        BY <3>1, <3>3, AppendProperties
      <4>3. Add(rings[b], d).count =
              IF rings[b].count < w THEN rings[b].count + 1 ELSE rings[b].count
        BY <1>w DEF Add
      <4>4. \A c \in Backends : c # b => rings'[c] = rings[c] /\ given'[c] = given[c]
        BY <1>t, <3>2
      <4> QED
        BY <2>0, <3>1, <4>1, <4>2, <4>3, <4>4
    <3> QED
      BY <2>0, <3>5, <3>6, <3>8, <3>9, SMTT(30)
  <2> QED
    BY <2>1, <2>2
<1>4. TypeOK'
  <2>1. /\ phase' \in [Requests -> {"idle", "suggesting", "racing"}]
        /\ delay' \in [Requests -> Int] /\ pol' \in [Requests -> [Settings -> Int]]
    BY <1>t, <1>1, <1>2
  <2>2. rings' \in [Backends -> [buf : [0 .. Window - 1 -> Nat], next : 0 .. Window - 1,
                                 count : 0 .. Window]]
    BY <1>3 DEF Rings
  <2> QED
    BY <1>t, <1>1, <1>3, <1>w, <2>1, <2>2 DEF TypeOK, Settings
<1>5. ConfTyped'
  BY <1>i, <1>1 DEF ConfTyped, Configured
<1>6. /\ phase'[r] = "idle"
      /\ \A q \in Requests : q # r =>
           /\ phase'[q] = phase[q] /\ delay'[q] = delay[q] /\ pol'[q] = pol[q]
  BY <1>t, <1>1
<1>7. PolicyInv'
  <2>1. pol'[r] = HedgePolicy(conf) /\ delay'[r] = 0
    BY <1>t, <1>1
  <2>2. \A x : Bounded(x)' <=> Bounded(x)
    BY <1>1 DEF Bounded
  <2> QED
    BY <1>i, <1>2, <1>6, <2>1, <2>2 DEF PolicyInv
<1>n. /\ Need' = Need /\ StaticFireAfter' = StaticFireAfter /\ Need \in Nat
      /\ \A q \in Requests : primary'[q] = primary[q] /\ primary[q] \in Backends
  BY <1>i, <1>t, <1>1, WindowAndNeed DEF Need, StaticFireAfter
<1>c. \A b \in Backends : /\ rings[b].count \in Int /\ rings'[b].count \in Int
                          /\ Len(given[b]) \in Int /\ Len(given'[b]) \in Int
  <2>1. \A x \in Rings : x.count \in Int
    BY <1>w DEF Rings
  <2> QED
    BY <1>t, <1>3, <2>1, LenProperties
<1>8. WarmInv'
  <2> SUFFICES ASSUME NEW q \in Requests, phase'[q] = "suggesting"
               PROVE  rings'[primary'[q]].count >= Need'
    BY DEF WarmInv
  <2>1. phase[q] = "suggesting"
    BY <1>6
  <2>2. PICK b \in Backends : b = primary[q] /\ b = primary'[q]
    BY <1>n
  <2>3. rings[b].count >= Need /\ rings'[b].count >= rings[b].count
    BY <1>i, <1>3, <2>1, <2>2 DEF WarmInv
  <2> QED
    BY <1>c, <1>n, <2>2, <2>3
<1>9. ColdPrimaryStaysStatic'
  <2> SUFFICES ASSUME NEW q \in Requests, phase'[q] = "racing",
                      Len(given'[primary'[q]]) < Need'
               PROVE  delay'[q] = IF conf'.adaptive.enabled /\ StaticFireAfter' > 0
                                  THEN StaticFireAfter' ELSE pol'[q].fireAfter
    BY DEF ColdPrimaryStaysStatic
  <2>1. phase[q] = "racing" /\ delay'[q] = delay[q] /\ pol'[q] = pol[q]
    BY <1>6
  <2>2. PICK b \in Backends : b = primary[q] /\ b = primary'[q]
    BY <1>n
  <2>3. Len(given[b]) < Need
    BY <1>3, <1>c, <1>n, <2>2
  <2> QED
    BY <1>i, <1>1, <1>n, <2>1, <2>2, <2>3 DEF ColdPrimaryStaysStatic
<1> QED
  BY <1>3, <1>4, <1>5, <1>7, <1>8, <1>9 DEF AdaptiveInv

\* Every step keeps the invariant.
LEMMA AdaptiveStep == AdaptiveInv /\ [Next]_vars => AdaptiveInv'
<1> SUFFICES ASSUME AdaptiveInv, [Next]_vars PROVE AdaptiveInv'
  OBVIOUS
<1>1. ASSUME NEW r \in Requests, NEW b \in Configured, NEW d \in Latencies, Win(r, b, d)
      PROVE  AdaptiveInv'
  <2>1. /\ Finish(r)
        /\ \/ UNCHANGED <<rings, given>>
           \/ Observe(b, d)
    BY <1>1 DEF Win
  <2> QED
    BY <2>1, FinishStep
<1>2. ASSUME NEW r \in Requests, Lose(r) PROVE AdaptiveInv'
  BY <1>2, FinishStep DEF Lose
<1>3. CASE UNCHANGED vars
  <2>1. UNCHANGED <<conf, rings, given, phase, primary, pol, delay>>
    BY <1>3 DEF vars, requestVars
  <2>2. Window' = Window /\ Need' = Need /\ StaticFireAfter' = StaticFireAfter
        /\ Configured' = Configured
    BY <2>1 DEF Window, Need, StaticFireAfter, Configured
  <2> QED
    BY <2>1, <2>2 DEF AdaptiveInv, ConfTyped, TypeOK, RingsInv, WarmInv,
       PolicyInv, Bounded, ColdPrimaryStaysStatic
<1> QED
  BY <1>1, <1>2, <1>3, ResolveStep, SuggestStep DEF Next

\* In every reachable state the rings hold what was given, and every request
\* has the policy and the delay it is due.
THEOREM AdaptiveInvariance == Spec => []AdaptiveInv
BY AdaptiveInit, AdaptiveStep, PTL DEF Spec

\* Every variable keeps its type; the write index stays inside the ring.
THEOREM AdaptiveTypeCorrect == Spec => []TypeOK
<1>1. AdaptiveInv => TypeOK
  BY DEF AdaptiveInv
<1> QED
  BY <1>1, AdaptiveInvariance, PTL

\* A ring holds exactly the latest samples, as many as fit.
THEOREM RingsHoldTheLatest == Spec => []RingHoldsTheLatest
<1>1. AdaptiveInv => RingHoldsTheLatest
  BY DEF AdaptiveInv, RingsInv, Holds, RingHoldsTheLatest
<1> QED
  BY <1>1, AdaptiveInvariance, PTL

\* Between the two locks of a suggestion no sample goes away.
THEOREM PercentilesNeverMiss == Spec => []PercentileNeverMisses
<1>1. ASSUME AdaptiveInv PROVE PercentileNeverMisses
  <2>1. Need \in Nat \ {0} /\ WarmInv
    BY <1>1, WindowAndNeed DEF AdaptiveInv
  <2>2. ASSUME NEW r \in Requests PROVE rings[primary[r]].count \in Int
    <3>1. Window \in Nat /\ rings[primary[r]] \in Rings
      BY <1>1, AdaptiveTypes, WindowAndNeed DEF AdaptiveInv
    <3> QED
      BY <3>1 DEF Rings
  <2> QED
    BY <2>1, <2>2 DEF WarmInv, PercentileNeverMisses
<1> QED
  BY <1>1, AdaptiveInvariance, PTL

\* A primary with fewer than min_samples is hedged after the configured delay.
THEOREM ColdPrimariesStayStatic == Spec => []ColdPrimaryStaysStatic
<1>1. AdaptiveInv => ColdPrimaryStaysStatic
  BY DEF AdaptiveInv
<1> QED
  BY <1>1, AdaptiveInvariance, PTL

\* Every request runs under a policy and a delay within their bounds, unless
\* the default's milliseconds overflow a Duration.
THEOREM PoliciesAreInBounds == Spec => []PolicyIsInBounds
<1>1. AdaptiveInv => PolicyIsInBounds
  BY DEF AdaptiveInv, PolicyInv, Bounded, PolicyIsInBounds
<1> QED
  BY <1>1, AdaptiveInvariance, PTL

-----------------------------------------------------------------------------
(* The suggestion is a median.                                             *)

\* The slot of the sample added k-th last, in a ring of w that writes at x next.
Slot(x, k, w) == IF k <= x THEN x - k ELSE x - k + w

\* The slots of the c samples retained are the live ones, each of them once.
LEMMA SlotsAreLive ==
    ASSUME NEW w \in Nat \ {0}, NEW x \in 0 .. w - 1, NEW c \in 0 .. w, c < w => x = c
    PROVE  /\ \A k \in 1 .. c : Slot(x, k, w) \in 0 .. c - 1
           /\ \A k, m \in 1 .. c : Slot(x, k, w) = Slot(x, m, w) => k = m
           /\ \A s \in 0 .. c - 1 : \E k \in 1 .. c : Slot(x, k, w) = s
<1>1. ASSUME NEW k \in 1 .. c PROVE Slot(x, k, w) \in 0 .. c - 1
  BY DEF Slot
<1>2. ASSUME NEW k \in 1 .. c, NEW m \in 1 .. c, Slot(x, k, w) = Slot(x, m, w)
      PROVE  k = m
  BY <1>2 DEF Slot
<1>3. ASSUME NEW s \in 0 .. c - 1 PROVE \E k \in 1 .. c : Slot(x, k, w) = s
  <2>1. CASE s < x
    <3>1. x - s \in 1 .. c /\ Slot(x, x - s, w) = s
      BY <2>1 DEF Slot
    <3> QED
      BY <3>1
  <2>2. CASE ~(s < x)
    <3>1. x - s + w \in 1 .. c /\ Slot(x, x - s + w, w) = s
      BY <2>2 DEF Slot
    <3> QED
      BY <3>1
  <2> QED
    BY <2>1, <2>2
<1> QED
  BY <1>1, <1>2, <1>3

\* The samples given last, as many as a ring of w retains.
Recent(g, w) == (IF Len(g) < w THEN 1 ELSE Len(g) - w + 1) .. Len(g)

\* The samples a ring retains are the ones given last: slot by slot, each of them
\* once.
LEMMA RetainedAreRecent ==
    ASSUME NEW w \in Nat \ {0}, w = Window, NEW ring \in Rings, NEW g \in Seq(Nat),
           Holds(ring, g, w)
    PROVE  /\ IsFiniteSet(Recent(g, w)) /\ Cardinality(Recent(g, w)) = ring.count
           /\ \E h \in Bijection(Recent(g, w), LiveSlots(ring)) :
                \A i \in Recent(g, w) : ring.buf[h[i]] = g[i]
<1> DEFINE n == Len(g)
           first == IF n < w THEN 1 ELSE n - w + 1
           recent == Recent(g, w)
           c == ring.count
           At(i) == (ring.next - (n + 1 - i)) % w
           L == LiveSlots(ring)
           h == [i \in recent |-> At(i)]
<1>1. n \in Nat /\ c = IF n < w THEN n ELSE w
  BY LenProperties DEF Holds
<1>2. ring.next \in 0 .. w - 1 /\ (n < w => ring.next = n)
  BY DEF Holds, Rings
<1>3. L = 0 .. c - 1
  BY DEF LiveSlots
<1>4. /\ recent = first .. n /\ first \in Int /\ c \in Nat
      /\ n - first + 1 = c
  BY <1>1 DEF Recent
<1>5. IsFiniteSet(recent) /\ Cardinality(recent) = c
  <2>1. first \in Int /\ n \in Int /\ (first > n <=> c = 0)
    BY <1>1
  <2> HIDE DEF n, first, c
  <2>2. IsFiniteSet(first .. n) /\ Cardinality(first .. n) = IF first > n THEN 0 ELSE n - first + 1
    BY <2>1, FS_Interval
  <2> QED
    BY <1>4, <2>1, <2>2
<1>6. \A k \in 0 .. w : (ring.next - k) % w = Slot(ring.next, k, w)
  BY <1>2, Around DEF Slot
<1>s. /\ \A k \in 1 .. c : Slot(ring.next, k, w) \in L
      /\ \A k, m \in 1 .. c : Slot(ring.next, k, w) = Slot(ring.next, m, w) => k = m
      /\ \A s \in L : \E k \in 1 .. c : Slot(ring.next, k, w) = s
  <2>1. PICK x \in 0 .. w - 1 : x = ring.next
    BY <1>2
  <2>2. PICK cc \in 0 .. w : cc = c
    BY <1>1
  <2>3. cc < w => x = cc
    BY <1>1, <1>2, <2>1, <2>2
  <2>4. /\ \A k \in 1 .. cc : Slot(x, k, w) \in 0 .. cc - 1
        /\ \A k, m \in 1 .. cc : Slot(x, k, w) = Slot(x, m, w) => k = m
        /\ \A s \in 0 .. cc - 1 : \E k \in 1 .. cc : Slot(x, k, w) = s
    <3> HIDE DEF c
    <3> QED
      BY <2>3, SlotsAreLive, ZenonT(30)
  <2> HIDE DEF c, L
  <2> QED
    BY <1>3, <2>1, <2>2, <2>4
<1>7. ASSUME NEW i \in recent
      PROVE  /\ n + 1 - i \in 1 .. c /\ i \in Int
             /\ At(i) = Slot(ring.next, n + 1 - i, w)
             /\ At(i) \in L
             /\ ring.buf[At(i)] = g[i]
  <2>1. i \in first .. n /\ i \in Int
    BY <1>4
  <2>2. n + 1 - i \in 1 .. c /\ n + 1 - (n + 1 - i) = i
    BY <1>1, <2>1
  <2>3. n + 1 - i \in 0 .. w
    BY <1>1, <2>2
  <2>4. At(i) = Slot(ring.next, n + 1 - i, w)
    BY <1>6, <2>3
  <2>5. ring.buf[At(i)] = g[n + 1 - (n + 1 - i)]
    BY <2>2 DEF Holds
  <2>6. At(i) \in L
    BY <1>s, <2>2, <2>4
  <2> QED
    BY <2>1, <2>2, <2>4, <2>5, <2>6
<1>8. \A i, j \in recent : At(i) = At(j) => i = j
  <2> SUFFICES ASSUME NEW i \in recent, NEW j \in recent, At(i) = At(j) PROVE i = j
    OBVIOUS
  <2>1. /\ i \in Int /\ j \in Int
        /\ n + 1 - i \in 1 .. c /\ n + 1 - j \in 1 .. c
        /\ Slot(ring.next, n + 1 - i, w) = Slot(ring.next, n + 1 - j, w)
    BY <1>7
  <2>2. n + 1 - i = n + 1 - j
    BY <1>s, <2>1
  <2> QED
    BY <1>1, <2>1, <2>2
<1>9. \A s \in L : \E i \in recent : At(i) = s
  <2> SUFFICES ASSUME NEW s \in L PROVE \E i \in recent : At(i) = s
    OBVIOUS
  <2>1. PICK k \in 1 .. c : Slot(ring.next, k, w) = s
    BY <1>s
  <2>2. PICK i \in recent : n + 1 - i = k
    <3>1. n + 1 - k \in recent /\ n + 1 - (n + 1 - k) = k
      <4>1. k \in Int /\ 1 <= k /\ k <= c
        BY <1>4
      <4> HIDE DEF n, c, first
      <4>2. n \in Int /\ c \in Int
        BY <1>1, <1>4
      <4>3. first <= n + 1 - k /\ n + 1 - k <= n
        BY <1>4, <4>1, <4>2
      <4> QED
        BY <1>4, <4>1, <4>2, <4>3
    <3> QED
      BY <3>1
  <2> QED
    BY <1>7, <2>1, <2>2
<1>10. h \in [recent -> L] /\ \A i \in recent : h[i] = At(i)
  BY <1>7
<1>11. h \in Bijection(recent, L)
  <2>1. /\ \A i, j \in recent : h[i] = h[j] => i = j
        /\ \A s \in L : \E i \in recent : h[i] = s
    BY <1>8, <1>9, <1>10
  <2> HIDE DEF h, At, L, recent
  <2> QED
    BY <1>10, <2>1, Fun_IsBij
<1>12. \A i \in recent : ring.buf[h[i]] = g[i]
  BY <1>7, <1>10
<1> HIDE DEF h, At
<1> QED
  BY <1>5, <1>11, <1>12

\* The suggestion is a median of the samples retained, the latest given.
THEOREM SuggestionsAreMedians == Spec => []SuggestionIsMedian
<1>1. ASSUME AdaptiveInv, NEW b \in Backends,
             NEW recent, recent # {}, recent = Recent(given[b], Window),
             NEW p50, p50 = Percentile(rings[b], 50)
      PROVE  /\ 2 * Cardinality({i \in recent : given[b][i] <= p50}) >= Cardinality(recent)
             /\ 2 * Cardinality({i \in recent : given[b][i] >= p50}) >= Cardinality(recent)
  <2> DEFINE ring == rings[b]
             g == given[b]
             L == LiveSlots(ring)
             c == ring.count
  <2>i. ConfTyped /\ TypeOK /\ RingsInv
    BY <1>1 DEF AdaptiveInv
  <2>1. ring \in Rings /\ g \in Seq(Nat) /\ Window \in Nat \ {0} /\ Holds(ring, g, Window)
    BY <2>i, AdaptiveTypes, WindowAndNeed DEF RingsInv
  <2>2. /\ IsFiniteSet(recent) /\ Cardinality(recent) = c
        /\ \E h \in Bijection(recent, L) : \A i \in recent : ring.buf[h[i]] = g[i]
    <3>1. PICK w \in Nat \ {0} : w = Window
      BY <2>1
    <3>2. PICK rr \in Rings : rr = ring
      BY <2>1
    <3>3. PICK gg \in Seq(Nat) : gg = g
      BY <2>1
    <3>4. Holds(rr, gg, w) /\ recent = Recent(gg, w)
      BY <1>1, <2>1, <3>1, <3>2, <3>3
    <3>5. /\ IsFiniteSet(Recent(gg, w)) /\ Cardinality(Recent(gg, w)) = rr.count
          /\ \E h \in Bijection(Recent(gg, w), LiveSlots(rr)) :
               \A i \in Recent(gg, w) : rr.buf[h[i]] = gg[i]
      BY <3>1, <3>4, RetainedAreRecent
    <3> QED
      BY <3>2, <3>3, <3>4, <3>5
  <2>h. PICK h \in Bijection(recent, L) : \A i \in recent : ring.buf[h[i]] = g[i]
    BY <2>2
  <2>l. h \in [recent -> L]
    BY <2>h DEF Bijection, Injection
  <2>3. c \in Nat /\ c > 0
    <3>1. c \in 0 .. Window
      BY <2>1 DEF Rings
    <3>2. Cardinality(recent) # 0
      BY <1>1, <2>2, FS_EmptySet
    <3> QED
      BY <2>1, <2>2, <3>1, <3>2
  <2>4. /\ p50 \in Nat
        /\ Cardinality({s \in L : ring.buf[s] < p50}) <= c \div 2
        /\ c \div 2 < Cardinality({s \in L : ring.buf[s] <= p50})
    BY <1>1, <2>i, <2>1, <2>3, PercentileIs
  <2>5. \A i \in recent : g[i] \in Int
    <3>1. \A i \in recent : i \in 1 .. Len(g)
      BY <1>1, <2>1, LenProperties DEF Recent
    <3> QED
      BY <2>1, <3>1, ElementOfSeq
  <2> DEFINE Low == {i \in recent : g[i] <= p50}
             High == {i \in recent : g[i] >= p50}
             Under == {i \in recent : g[i] < p50}
  <2>6. Cardinality(Low) = Cardinality({s \in L : ring.buf[s] <= p50})
    <3> DEFINE D == {s \in L : ring.buf[s] <= p50}
    <3>1. D \in SUBSET L
      OBVIOUS
    <3>2. Low = {i \in recent : h[i] \in D}
      BY <2>h, <2>l
    <3> HIDE DEF Low, D, L
    <3>3. Cardinality({i \in recent : h[i] \in D}) = Cardinality(D)
      BY <2>2, <2>h, <3>1, CountAcross
    <3> QED
      BY <3>2, <3>3 DEF D
  <2>7. Cardinality(Under) = Cardinality({s \in L : ring.buf[s] < p50})
    <3> DEFINE D == {s \in L : ring.buf[s] < p50}
    <3>1. D \in SUBSET L
      OBVIOUS
    <3>2. Under = {i \in recent : h[i] \in D}
      BY <2>h, <2>l
    <3> HIDE DEF Under, D, L
    <3>3. Cardinality({i \in recent : h[i] \in D}) = Cardinality(D)
      BY <2>2, <2>h, <3>1, CountAcross
    <3> QED
      BY <3>2, <3>3 DEF D
  <2>8. Cardinality(High) = Cardinality(recent) - Cardinality(Under)
    <3>1. High = recent \ Under /\ Under \subseteq recent
      BY <2>4, <2>5
    <3>2. recent \cap Under = Under
      BY <3>1
    <3> HIDE DEF High, Under
    <3>3. Cardinality(recent \ Under) = Cardinality(recent) - Cardinality(recent \cap Under)
      BY <2>2, FS_Difference
    <3> QED
      BY <3>1, <3>2, <3>3
  <2>9. /\ Cardinality(Low) \in Nat /\ Cardinality(Under) \in Nat
    <3>1. Low \subseteq recent /\ Under \subseteq recent
      OBVIOUS
    <3> QED
      BY <2>2, <3>1, FS_Subset, FS_CardinalityType
  <2> HIDE DEF Low, High, Under, c, L
  <2>10. /\ 2 * Cardinality(Low) >= Cardinality(recent)
         /\ 2 * Cardinality(High) >= Cardinality(recent)
    BY <2>2, <2>3, <2>4, <2>6, <2>7, <2>8, <2>9
  <2> QED
    BY <2>10 DEF Low, High
<1>2. AdaptiveInv => SuggestionIsMedian
  BY <1>1 DEF SuggestionIsMedian, Recent
<1> QED
  BY <1>2, AdaptiveInvariance, PTL

=============================================================================
