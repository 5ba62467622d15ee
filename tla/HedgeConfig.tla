----------------------------- MODULE HedgeConfig -----------------------------
(***************************************************************************)
(* How the daemon comes by its configuration (internal/config/config.go):  *)
(* the file is decoded onto the defaults, HEDGE_LLM_* variables override   *)
(* single settings of the default policy, and the outcome is validated.    *)
(*                                                                         *)
(* A file or an environment names some settings and not others: each is a  *)
(* function on those it names.  Of a backend only its name, its cost and   *)
(* whether its name, URL and model are there bear on anything; the listen  *)
(* address and the keys are left out.                                      *)
(*                                                                         *)
(* A setting is an int and a Duration an int64, both of them 64 bits wide  *)
(* on a 64-bit platform; a cost is a float64 in the code and an integer    *)
(* here.                                                                   *)
(***************************************************************************)
EXTENDS Integers, Sequences

CONSTANTS
    DefaultWindow, \* 128, in Default() as in adaptive.DefaultWindow
    MaxInt,        \* the greatest machine integer, 2^63 - 1
    NsPerMs        \* time.Millisecond, 10^6 nanoseconds

ASSUME ConfigAssumption ==
    DefaultWindow \in Nat \ {0} /\ MaxInt \in Nat \ {0} /\ NsPerMs \in Nat \ {0}

Knobs == {"fireAfter", "maxInFlight", "costCeiling", "requestTimeout"}
Cooldown == {"lossCooldownN", "lossCooldown"}
Adaptive == {"enabled", "window", "minSamples"}
Durations == {"fireAfter", "requestTimeout", "lossCooldown"}

\* What is named and how it is typed.
MachineInt == -MaxInt - 1 .. MaxInt
ValuesOf(k) ==
    CASE k = "enabled" -> BOOLEAN
      [] k = "costCeiling" -> Int
      [] OTHER -> MachineInt
IsNamed(s, settings) ==
    DOMAIN s \subseteq settings /\ \A k \in DOMAIN s : s[k] \in ValuesOf(k)

IsFile(f) ==
    /\ IsNamed(f.policy, Knobs \cup Cooldown) /\ IsNamed(f.adaptive, Adaptive)
    /\ \A m \in DOMAIN f.overrides : IsNamed(f.overrides[m], Knobs)
    /\ \A i \in DOMAIN f.backends : DOMAIN f.backends[i] = {"name", "whole", "cost"}
\* typos: the variables that do not parse as a number.
IsEnv(e) ==
    /\ IsNamed(e.policy, Knobs) /\ e.typos \subseteq Knobs
    /\ IsNamed(e.adaptive, {"enabled"})

-----------------------------------------------------------------------------
Default ==
    [policy |-> [fireAfter |-> 250, maxInFlight |-> 2, costCeiling |-> 0,
                 requestTimeout |-> 0, lossCooldownN |-> 0, lossCooldown |-> 0],
     adaptive |-> [enabled |-> FALSE, window |-> DefaultWindow, minSamples |-> 10]]

\* A setting that is not named keeps the base's value; 0 is a value.
Apply(override, base) ==
    [k \in DOMAIN base |-> IF k \in DOMAIN override THEN override[k] ELSE base[k]]

Decode(file) ==
    [policy |-> Apply(file.policy, Default.policy),
     overrides |-> file.overrides,
     adaptive |-> Apply(file.adaptive, Default.adaptive),
     backends |-> file.backends]

ApplyEnv(c, env) ==
    [c EXCEPT !.policy = Apply(env.policy, @), !.adaptive = Apply(env.adaptive, @)]

\* time.Duration(n) * time.Millisecond: the product wraps around.
Wrap(n) == ((n + MaxInt + 1) % (2 * (MaxInt + 1))) - (MaxInt + 1)
Milliseconds(n) == Wrap(n * NsPerMs)
Converted(settings) ==
    [k \in DOMAIN settings |->
       IF k \in Durations THEN Milliseconds(settings[k]) ELSE settings[k]]

HedgePolicy(c) == Converted(c.policy)
HedgePolicyFor(c, model) ==
    IF model \in DOMAIN c.overrides
    THEN Apply(Converted(c.overrides[model]), HedgePolicy(c)) ELSE HedgePolicy(c)

ValidBackends(backends) ==
    /\ backends # <<>>
    /\ \A i \in DOMAIN backends : backends[i].whole /\ backends[i].cost >= 0
    /\ \A i, j \in DOMAIN backends : backends[i].name = backends[j].name => i = j

\* The default is checked as it is written, in milliseconds ...
ValidSettings(p) == p.maxInFlight >= 1 /\ \A k \in Knobs \cup Cooldown : p[k] >= 0

\* ... and an override as it is merged, in Durations.
ValidPolicy(p) == p.maxInFlight >= 1 /\ \A k \in Knobs : p[k] >= 0

Validate(c) ==
    /\ ValidBackends(c.backends)
    /\ ValidSettings(c.policy)
    /\ \A m \in DOMAIN c.overrides : m # "" /\ ValidPolicy(HedgePolicyFor(c, m))
    /\ c.adaptive.window >= 0 /\ c.adaptive.minSamples >= 0

\* Load: what it returns, and whether it does.
Loaded(file, env) == ApplyEnv(Decode(file), env)
FileIsValid(file, env) == \* a slip: the environment comes after the check
    env.typos = {} /\ Validate(Decode(file))
Loads(file, env) == env.typos = {} /\ Validate(Loaded(file, env))
=============================================================================
