---------------------------- MODULE HedgeEngine ----------------------------
(***************************************************************************)
(* What concurrent calls of Engine.Run share (internal/hedge/engine.go):   *)
(* the in-flight gauge and committed cost under mu, and the per-backend    *)
(* loss streaks and cooldown windows under coolMu.  A race itself is       *)
(* reduced to what it does to these: which backends it attempts, which     *)
(* dials fail and who wins (HedgeRun has the rest).                        *)
(*                                                                         *)
(* Every action is one critical section or one read of the clock.  The     *)
(* code reads the clock before it takes coolMu, so the time a section works *)
(* with (stamp) may be older than now.                                     *)
(***************************************************************************)
EXTENDS Integers, Sequences, FiniteSets, FiniteSetsExt, HedgePolicy

CONSTANTS
    Runs,          \* concurrent requests
    NB,            \* configured backends, in order
    Cost,          \* CostPerRequest of each backend
    Policies,      \* what the policy func may resolve a request's model to
    LossCooldownN, \* engine-wide: losses in a row that trip a backend
    LossCooldown,  \* engine-wide: how long it is then omitted
    MaxNow         \* bound: the clock stops here

Backends == 1 .. NB

ASSUME EngineAssumption ==
    /\ NB \in Nat \ {0}
    /\ Cost \in [Backends -> Nat]
    /\ Policies \subseteq [maxInFlight : Int, costCeiling : Nat] /\ Policies # {}
    /\ LossCooldownN \in Nat \ {0} /\ LossCooldown \in Nat
    /\ MaxNow \in Nat

VARIABLES
    now,           \* the clock
    inFlight,      \* Engine.inFlight
    committedCost, \* Engine.committedCost
    cool,          \* Engine.coolState: [consecutive, coolUntil], 0 is no window
    phase,         \* where each run is
    stamp,         \* the clock as each run last read it
    pol,           \* each run's resolved policy
    elig,          \* each run's snapshot of eligible backends
    attempted,     \* how many of them it has attempted
    failed,        \* positions whose Stream failed
    won            \* the winning position, 0 for none

gauges == <<inFlight, committedCost>>
race == <<attempted, failed, won>>
vars == <<now, gauges, cool, phase, stamp, pol, elig, race>>

-----------------------------------------------------------------------------
CoolingAt(b, t) == cool[b].coolUntil # 0 /\ t < cool[b].coolUntil
Expired(b, t) == cool[b].coolUntil # 0 /\ t >= cool[b].coolUntil
Fresh == [consecutive |-> 0, coolUntil |-> 0]

\* The backends that are not cooling, in their configured order.
OpenAt(t) ==
    LET upTo[n \in 0 .. NB] ==
          IF n = 0 THEN <<>>
          ELSE IF CoolingAt(n, t) THEN upTo[n - 1]
          ELSE Append(upTo[n - 1], n)
    IN  upTo[NB]

DefaultPolicy == CHOOSE p \in Policies : TRUE

Attempted(r) == 1 .. attempted[r]
HeldAndFailed(r) == Attempted(r) \* a slip: a failed dial is released twice
Held(r) == Attempted(r) \ failed[r]
CostOf(r, positions) == MapThenSumSet(LAMBDA k : Cost[elig[r][k]], positions)

\* A race is gated by what this run holds.  The engine-wide gauges are books,
\* not bounds: one request's primary must not block another's backup.
MayStartByGauge(r) == \* a slip: the shared gauge is taken for the bound
    /\ attempted[r] < Len(elig[r])
    /\ AllowStart(pol[r], inFlight, committedCost, Cost[elig[r][attempted[r] + 1]])
MayStart(r) ==
    /\ attempted[r] < Len(elig[r])
    /\ attempted[r] > 0 =>
         AllowStart(pol[r], Cardinality(Held(r)), CostOf(r, Held(r)),
                    Cost[elig[r][attempted[r] + 1]])

Clamp(n) == IF n < 0 THEN 0 ELSE n
ReleaseN(n, cost) ==
    /\ inFlight' = Clamp(inFlight - n)
    /\ committedCost' = Clamp(committedCost - cost)

\* A backend's streak and window after a race that t was read for.
ResetOnWin(c) == Fresh
RaiseTooLate(c, t) == \* a slip: one loss more than configured
    LET n == c.consecutive + 1 IN
    [consecutive |-> n,
     coolUntil |-> IF n > LossCooldownN THEN t + LossCooldown ELSE c.coolUntil]
RaiseAndExtend(c, t) == \* a slip: windows add up
    LET n == c.consecutive + 1
        from == IF c.coolUntil > t THEN c.coolUntil ELSE t
    IN [consecutive |-> n,
        coolUntil |-> IF n >= LossCooldownN THEN from + LossCooldown
                      ELSE c.coolUntil]
RaiseOnLoss(c, t) ==
    LET n == c.consecutive + 1 IN
    [consecutive |-> n,
     coolUntil |-> IF n >= LossCooldownN THEN t + LossCooldown ELSE c.coolUntil]

-----------------------------------------------------------------------------
Init ==
    /\ now = 1
    /\ inFlight = 0 /\ committedCost = 0
    /\ cool = [b \in Backends |-> Fresh]
    /\ phase = [r \in Runs |-> "new"]
    /\ stamp = [r \in Runs |-> 0]
    /\ pol = [r \in Runs |-> DefaultPolicy]
    /\ elig = [r \in Runs |-> <<>>]
    /\ attempted = [r \in Runs |-> 0]
    /\ failed = [r \in Runs |-> {}]
    /\ won = [r \in Runs |-> 0]

\* The clock read before either section of the cooldown book.
ReadClock(r) ==
    /\ \/ phase[r] = "new" /\ phase' = [phase EXCEPT ![r] = "picking"]
       \/ phase[r] = "released" /\ phase' = [phase EXCEPT ![r] = "recording"]
    /\ stamp' = [stamp EXCEPT ![r] = now]
    /\ UNCHANGED <<now, gauges, cool, pol, elig, race>>

\* eligibleBackends: cooling backends are omitted, an expired window resets
\* its streak.  None left is ErrNoBackends; otherwise resolvePolicy is asked
\* once, for the model the request names.
Pick(r) ==
    /\ phase[r] = "picking"
    /\ LET open == OpenAt(stamp[r])
       IN \/ /\ open = <<>>
             /\ phase' = [phase EXCEPT ![r] = "returned"]
             /\ UNCHANGED <<pol, elig>>
          \/ /\ open # <<>>
             /\ phase' = [phase EXCEPT ![r] = "racing"]
             /\ elig' = [elig EXCEPT ![r] = open]
             /\ \E p \in Policies : pol' = [pol EXCEPT ![r] = p]
    /\ cool' = [b \in Backends |->
                  IF Expired(b, stamp[r]) THEN Fresh ELSE cool[b]]
    /\ UNCHANGED <<now, gauges, stamp, race>>

\* startNext, up to the call of Stream.
Start(r) ==
    /\ phase[r] = "racing" /\ MayStart(r)
    /\ attempted' = [attempted EXCEPT ![r] = @ + 1]
    /\ inFlight' = inFlight + 1
    /\ committedCost' = committedCost + Cost[elig[r][attempted[r] + 1]]
    /\ phase' = [phase EXCEPT ![r] = "dialing"]
    /\ UNCHANGED <<now, cool, stamp, pol, elig, failed, won>>

DialOk(r) ==
    /\ phase[r] = "dialing"
    /\ phase' = [phase EXCEPT ![r] = "racing"]
    /\ UNCHANGED <<now, gauges, cool, stamp, pol, elig, race>>

DialErr(r) ==
    /\ phase[r] = "dialing"
    /\ failed' = [failed EXCEPT ![r] = @ \cup {attempted[r]}]
    /\ ReleaseN(1, Cost[elig[r][attempted[r]]])
    /\ phase' = [phase EXCEPT ![r] = "racing"]
    /\ UNCHANGED <<now, cool, stamp, pol, elig, attempted, won>>

\* The race is over, with a winner among the backends it holds or with none,
\* and everything it started is torn down: its reservations are given back.
Release(r) ==
    /\ phase[r] = "racing" /\ attempted[r] > 0
    /\ \E w \in Held(r) \cup {0} : won' = [won EXCEPT ![r] = w]
    /\ ReleaseN(Cardinality(Held(r)), CostOf(r, Held(r)))
    /\ phase' = [phase EXCEPT ![r] = "released"]
    /\ UNCHANGED <<now, cool, stamp, pol, elig, attempted, failed>>

\* recordOutcome: the winner's streak ends, every other attempt adds to one.
\* Run's locals end with it.
Record(r) ==
    /\ phase[r] = "recording"
    /\ cool' = [b \in Backends |->
         CASE \E k \in Attempted(r) : elig[r][k] = b /\ k = won[r] ->
                ResetOnWin(cool[b])
           [] \E k \in Attempted(r) : elig[r][k] = b /\ k # won[r] ->
                RaiseOnLoss(cool[b], stamp[r])
           [] OTHER -> cool[b]]
    /\ phase' = [phase EXCEPT ![r] = "returned"]
    /\ stamp' = [stamp EXCEPT ![r] = 0]
    /\ pol' = [pol EXCEPT ![r] = DefaultPolicy]
    /\ elig' = [elig EXCEPT ![r] = <<>>]
    /\ attempted' = [attempted EXCEPT ![r] = 0]
    /\ failed' = [failed EXCEPT ![r] = {}]
    /\ won' = [won EXCEPT ![r] = 0]
    /\ UNCHANGED <<now, gauges>>

Tick ==
    /\ now < MaxNow
    /\ now' = now + 1
    /\ UNCHANGED <<gauges, cool, phase, stamp, pol, elig, race>>

Terminated ==
    /\ \A r \in Runs : phase[r] = "returned"
    /\ UNCHANGED vars

Next ==
    \/ \E r \in Runs : \/ ReadClock(r) \/ Pick(r) \/ Start(r) \/ DialOk(r)
                       \/ DialErr(r) \/ Release(r) \/ Record(r)
    \/ Tick
    \/ Terminated

Spec == Init /\ [][Next]_vars

-----------------------------------------------------------------------------
(* Properties.                                                             *)

Streak == [consecutive : Nat, coolUntil : Nat]

\* Every variable keeps its type.
TypeOK ==
    /\ now \in Nat /\ inFlight \in Nat /\ committedCost \in Nat
    /\ cool \in [Backends -> Streak]
    /\ phase \in [Runs -> {"new", "picking", "racing", "dialing", "released",
                           "recording", "returned"}]
    /\ stamp \in [Runs -> Nat] /\ pol \in [Runs -> Policies]
    /\ elig \in [Runs -> Seq(Backends)]
    /\ attempted \in [Runs -> 0 .. NB] /\ won \in [Runs -> 0 .. NB]
    /\ \A r \in Runs : failed[r] \subseteq Attempted(r)

Holding == {r \in Runs : phase[r] \in {"racing", "dialing"}}

\* hedge_inflight and the committed cost are at every moment the sums of what
\* the racing requests hold: no reservation is lost, leaked or released twice,
\* in any interleaving.
GaugesAreSums ==
    /\ inFlight = MapThenSumSet(LAMBDA r : Cardinality(Held(r)), Holding)
    /\ committedCost = MapThenSumSet(LAMBDA r : CostOf(r, Held(r)), Holding)

\* A request is never held up by another's backends: once its gate lets it dial
\* its next backend the gate goes on doing so, whatever others dial, lose and
\* release, until it does or its race is over.
StartsAreNeverWithdrawn ==
    [][\A r \in Runs :
         phase[r] = "racing" /\ MayStart(r) /\ phase'[r] = "racing"
         => MayStart(r)']_vars

\* The book is consistent across requests that interleave: a backend has a
\* cooldown window exactly if it lost LossCooldownN times since its last win
\* or reset.
StreakMatchesWindow ==
    \A b \in Backends :
        cool[b].coolUntil # 0 <=> cool[b].consecutive >= LossCooldownN

\* However late its last loss is recorded, no backend is shut out for longer
\* than the configured cooldown counted from now.
CooldownIsBounded ==
    \A b \in Backends : cool[b].coolUntil <= now + LossCooldown

\* policy.go and the README: a cooldown expiry resets the consecutive-loss
\* counter, so the next loss recorded is the first of a new streak.
ExpiryResetsStreak ==
    [][\A r \in Runs, b \in Backends :
         /\ phase[r] = "recording" /\ phase'[r] = "returned"
         /\ Expired(b, stamp[r])
         /\ cool'[b].consecutive > cool[b].consecutive
         => cool'[b].consecutive = 1]_vars
=============================================================================
