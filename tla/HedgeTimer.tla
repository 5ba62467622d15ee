------------------------------ MODULE HedgeTimer ------------------------------
(***************************************************************************)
(* What clock.Timer promises its owner (internal/clock/clock.go): armed,   *)
(* it ticks once, not before its deadline, and arming it anew or stopping  *)
(* it discards a tick that was not received.  A prompt clock delivers      *)
(* every due tick in the step in which time passes; another may be late.   *)
(***************************************************************************)
EXTENDS Integers

CONSTANTS Timers, Durations

VARIABLES
    now,    \* the clock
    prompt, \* whether ticks are never late
    timer   \* each timer: idle, armed for a deadline, or ticked and unread

vars == <<now, prompt, timer>>

Idle == [is |-> "idle", at |-> 0]
Ticked == [is |-> "ticked", at |-> 0]
ArmedFor(deadline) == [is |-> "armed", at |-> deadline]

DueAt(time) == {t \in Timers : timer[t].is = "armed" /\ timer[t].at <= time}

Init ==
    /\ now \in Nat
    /\ prompt \in BOOLEAN
    /\ timer = [t \in Timers |-> Idle]

Arm(t) ==
    /\ \E d \in Durations :
         timer' = [timer EXCEPT ![t] = IF prompt /\ d <= 0 THEN Ticked
                                       ELSE ArmedFor(now + d)]
    /\ UNCHANGED <<now, prompt>>

Disarm(t) ==
    /\ timer' = [timer EXCEPT ![t] = Idle]
    /\ UNCHANGED <<now, prompt>>

Receive(t) ==
    /\ timer[t] = Ticked
    /\ timer' = [timer EXCEPT ![t] = Idle]
    /\ UNCHANGED <<now, prompt>>

Pass ==
    /\ now' \in Nat /\ now' >= now
    /\ \E S \in SUBSET DueAt(now') :
         /\ prompt => S = DueAt(now')
         /\ timer' = [t \in Timers |-> IF t \in S THEN Ticked ELSE timer[t]]
    /\ UNCHANGED prompt

Next ==
    \/ \E t \in Timers : Arm(t) \/ Disarm(t) \/ Receive(t)
    \/ Pass

Spec == Init /\ [][Next]_vars
=============================================================================
