------------------------------ MODULE HedgeClock ------------------------------
(***************************************************************************)
(* internal/clock/clock.go: the FakeClock the tests drive and the          *)
(* RealClock over Go's timers, behind one interface.                       *)
(*                                                                         *)
(* A FakeClock operation is one critical section of its mu, so each is one *)
(* step.  Its timers deliver into channels of capacity one while mu is     *)
(* held: a send into a full one would block every user of the clock, which *)
(* here leaves Advance disabled.                                           *)
(*                                                                         *)
(* Go's own timers are external.  The module is built with go 1.23, from   *)
(* which Stop also discards an undelivered tick: nothing can come between  *)
(* the Stop, drain and Reset of realTimer, which are one step too.         *)
(***************************************************************************)
EXTENDS Integers, FiniteSets

CONSTANTS
    Timers,    \* the timers (their channels) of the processes that wait
    Durations, \* what they wait for
    MaxNow     \* bound: the clock stops here

ASSUME ClockAssumption == Durations \subseteq Int /\ MaxNow \in Nat

VARIABLES
    fake,   \* which clock this is: FakeClock or RealClock
    now,
    timers, \* FakeClock.timers, or the runtime's: the armed registrations
    tick    \* how many ticks are in each timer's channel

clockVars == <<fake, now, timers, tick>>

-----------------------------------------------------------------------------
Registered(t) == {r \in timers : r.ch = t}
Registration(t, d) == [ch |-> t, deadline |-> now + d]
DueAt(time) == {r \in timers : r.deadline <= time}
Immediate(d) == fake /\ d <= 0

ClockInit ==
    /\ fake \in BOOLEAN
    /\ now = 0
    /\ timers = {}
    /\ tick = [t \in Timers |-> 0]

\* After: a fresh channel, so there is nothing to drop or drain.
After(t, d) ==
    /\ timers' = timers \cup IF Immediate(d) THEN {} ELSE {Registration(t, d)}
    /\ tick' = IF Immediate(d) THEN [tick EXCEPT ![t] = 1] ELSE tick
    /\ UNCHANGED <<fake, now>>

\* Timer.Reset, which also is how NewTimer arms.
Undrained(t) == tick \* a slip: an unread tick is left in the channel
Drained(t) == [tick EXCEPT ![t] = 0]
Reset(t, d) ==
    /\ timers' = (timers \ Registered(t)) \cup
                     IF Immediate(d) THEN {} ELSE {Registration(t, d)}
    /\ tick' = IF Immediate(d) THEN [Drained(t) EXCEPT ![t] = @ + 1]
               ELSE Drained(t)
    /\ UNCHANGED <<fake, now>>

Stop(t) ==
    /\ timers' = timers \ Registered(t)
    /\ tick' = Drained(t)
    /\ UNCHANGED <<fake, now>>

Receive(t) ==
    /\ tick[t] > 0
    /\ tick' = [tick EXCEPT ![t] = @ - 1]
    /\ UNCHANGED <<fake, now, timers>>

\* Advance and Set: time jumps and every due timer is delivered and removed.
Advance ==
    /\ fake
    /\ \E time \in now + 1 .. MaxNow :
         LET Sent(t) == Cardinality(DueAt(time) \cap Registered(t)) IN
         /\ \A t \in Timers : tick[t] + Sent(t) <= 1
         /\ now' = time
         /\ timers' = timers \ DueAt(time)
         /\ tick' = [t \in Timers |-> tick[t] + Sent(t)]
    /\ UNCHANGED fake

\* Wall-clock time passes, and the runtime delivers what is due, if late.
TimePasses ==
    /\ ~fake /\ now < MaxNow
    /\ now' = now + 1
    /\ UNCHANGED <<fake, timers, tick>>

RuntimeFires(t) ==
    /\ ~fake /\ tick[t] = 0
    /\ \E r \in DueAt(now) \cap Registered(t) : timers' = timers \ {r}
    /\ tick' = [tick EXCEPT ![t] = 1]
    /\ UNCHANGED <<fake, now>>

ClockNext ==
    \/ Advance
    \/ TimePasses
    \/ \E t \in Timers : RuntimeFires(t)

-----------------------------------------------------------------------------
(* Properties.                                                             *)

ClockTypeOK ==
    /\ fake \in BOOLEAN /\ now \in 0 .. MaxNow
    /\ timers \subseteq [ch : Timers, deadline : Int]
    /\ tick \in [Timers -> {0, 1}]

\* A timer that is registered twice, or registered while its tick is unread, has
\* no place in the contract: its next tick would find the channel full.
TimerIs(t) ==
    LET armed == Cardinality(Registered(t))
        held == tick[t]
    IN CASE armed = 0 /\ held = 0 -> [is |-> "idle", at |-> 0]
         [] armed = 0 /\ held = 1 -> [is |-> "ticked", at |-> 0]
         [] armed = 1 /\ held = 0 ->
              [is |-> "armed", at |-> (CHOOSE r \in Registered(t) : TRUE).deadline]
         [] OTHER -> [is |-> "jammed", at |-> 0]

Contract == INSTANCE HedgeTimer
            WITH prompt <- fake, timer <- [t \in Timers |-> TimerIs(t)]

\* Both clocks keep the contract the engine's loop and FakeBackend rely on: no
\* tick is early, doubled, or left over from before a Reset or a Stop, and a
\* FakeClock delivers everything due before Advance returns, without ever
\* blocking on a full channel.
KeepsTimerContract == Contract!Spec
=============================================================================
