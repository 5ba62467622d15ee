------------------------------ MODULE HedgeRun ------------------------------
(***************************************************************************)
(* One call of Engine.Run (internal/hedge/engine.go): the race loop, the   *)
(* forwarder goroutine of every dialed backend, the producer goroutine     *)
(* behind each backend's channel, the two timers, the client's context and *)
(* the sink.  Every select of the code is a set of actions of which any    *)
(* enabled one may be taken, as Go's select chooses.                       *)
(*                                                                         *)
(* A backend is its position in the eligible list (1 is the primary).  A   *)
(* chunk is its position in the backend's stream; script[i][k] says whether *)
(* the k-th chunk of backend i carries content (Chunk.IsUsable).           *)
(***************************************************************************)
EXTENDS Integers, Sequences, FiniteSets, FiniteSetsExt, HedgePolicy

CONSTANTS
    NB,        \* how many backends are eligible for this run
    Cost,      \* CostPerRequest of each backend
    Policies,  \* the policies this run may have been resolved to
    EventsCap, \* capacity of the fan-in channel (the code makes it 2 * NB)
    MaxChunks  \* bound: chunks a backend streams at most

Backends == 1 .. NB

ASSUME RunAssumption ==
    /\ NB \in Nat \ {0}
    /\ Cost \in [1 .. NB -> Nat]
    /\ Policies \subseteq
         [maxInFlight : Int, costCeiling : Nat, requestTimeout : BOOLEAN]
    /\ EventsCap \in Nat \ {0}
    /\ MaxChunks \in Nat

VARIABLES
    pol,           \* this run's resolved policy
    pc,            \* where the goroutine that called Run is
    started,       \* len(r.states): how many backends were attempted
    failed,        \* backends whose Stream returned an error
    closed,        \* backends the race loop has seen close
    reserved,      \* r.reserved
    inFlight,      \* this run's part of Engine.inFlight
    committedCost, \* this run's part of Engine.committedCost
    first,         \* the event that won, NoEvent until then
    log,           \* what the sink was given, in order
    err,           \* the error race returned
    result,        \* what Run returned to the proxy
    fireTimer,     \* the re-armable fire-after timer
    timeout,       \* the optional time-to-winner timer
    clientGone,    \* clientCtx is cancelled
    cancelledAll,  \* cancelAll() was called
    cancelled,     \* backends whose own context was cancelled
    events,        \* r.events, the fan-in channel
    fwd,           \* the forwarder goroutine of each backend
    hand,          \* the chunk a forwarder holds between receive and send
    prod,          \* the producer goroutine of each backend
    ch,            \* the producer's channel (capacity 1): a chunk or 0
    script,        \* what each producer has put on its channel so far
    endedAlone     \* history: backends that ended before being cancelled

bookVars   == <<started, failed, closed, reserved, inFlight, committedCost>>
sinkVars   == <<first, log, err, result>>
timerVars  == <<fireTimer, timeout>>
ctxVars    == <<clientGone, cancelledAll, cancelled>>
fwdVars    == <<fwd, hand, events>>
streamVars == <<prod, ch, script, endedAlone>>
vars == <<pol, pc, bookVars, sinkVars, timerVars, ctxVars, fwdVars, streamVars>>

-----------------------------------------------------------------------------
(* The events of the fan-in channel.  chunk = 0 is the close event.        *)

Event == [idx : Backends, chunk : 0 .. MaxChunks]
NoEvent == [idx |-> 0, chunk |-> 0]
winner == first.idx
Usable(ev) == script[ev.idx][ev.chunk]

FromAnyone(ev) == TRUE \* a slip: losers' events are not told apart
FromWinner(ev) == ev.idx = winner

(* What the code recomputes from r.states on every use.                    *)

Started == 1 .. started
StartedAsHeld == Started \* a slip: failed dials are still counted
Held == Started \ failed
RunningCount == Cardinality(Held)
CostOfAttempts == MapThenSumSet(LAMBDA i : Cost[i], Started) \* a slip
CommittedCostDelta == MapThenSumSet(LAMBDA i : Cost[i], Held)
HasMore == started < NB
StillStreaming == {i \in Started : prod[i] # "closed"} \* a slip: what is on its way is lost
Producing == Started \ closed

MayStartByCost == \* a slip: only the ceiling is checked
    /\ HasMore
    /\ started > 0 => CostAllows(pol, CommittedCostDelta, Cost[started + 1])
MayStartByHeadroom == \* a slip: only the in-flight cap is checked
    /\ HasMore
    /\ started > 0 => HasHeadroom(pol, RunningCount)
CanStartAnother ==
    /\ HasMore
    /\ started > 0 => AllowStart(pol, RunningCount, CommittedCostDelta,
                                 Cost[started + 1])
ShouldStartAfterLoss == HasHeadroom(pol, RunningCount) /\ HasMore
NothingProducing == started > 0 /\ Producing = {} \* a slip: backups forgotten
NoPathToWinner == started > 0 /\ Producing = {} /\ ~CanStartAnother

(* runCtx is a child of the client's context; a backend's is a child of it. *)

RunDone == clientGone \/ cancelledAll
OnlyRunDone(i) == RunDone \* a slip: losers live until the run ends
BeDone(i) == RunDone \/ i \in cancelled
NoGivingUp == FALSE \* a slip: the close event is sent unconditionally
CloseGivesUp == RunDone

\* releaseN never lets a gauge go negative.
Clamp(n) == IF n < 0 THEN 0 ELSE n

LosersAfter(i) == i + 1 .. started \* a slip: earlier starts are missed
LosersAndWinner(i) == Started \* a slip: the winner is cancelled too
Losers(i) == Started \ {i}

\* armFire: what the timer is left as when n backends are running and s were
\* attempted.
ArmFireTooLate(n, s) == \* a slip: off by one in hasMore
    IF HasHeadroom(pol, n) /\ s + 1 < NB THEN "running" ELSE "stopped"
ArmFire(n, s) ==
    IF HasHeadroom(pol, n) /\ s < NB THEN "running" ELSE "stopped"

TimeoutNeverSet == timeout \* a slip
TimeoutOnEntry ==
    IF timeout = "off" /\ pol.requestTimeout THEN "running" ELSE timeout

\* wg.Wait() has nothing left to wait for.
NobodyAwaited == TRUE \* a slip: Wait before the last Add, or no Wait
AllTornDown == \A i \in Started : fwd[i] = "done"

ErrorUnmapped == err \* a slip: no winner is not turned into an error
ReturnedError ==
    CASE err = "nil" /\ winner = 0 -> "allFailed"
      [] err = "nil" /\ winner # 0 -> "ok"
      [] OTHER -> err

\* What Run reports of a backend that was attempted and did not win.
ReasonByForwarder(i) == \* a slip: whose forwarder is gone closed by itself
    CASE i \in failed -> "error"
      [] fwd[i] = "done" /\ i \notin failed -> "no_usable_token"
      [] OTHER -> "canceled"
LossReason(i) ==
    CASE i \in failed -> "error"
      [] i \in closed \ failed -> "no_usable_token"
      [] OTHER -> "canceled"
Lost == Started \ {winner}

-----------------------------------------------------------------------------
Init ==
    /\ pol \in Policies
    /\ pc = "start"
    /\ started = 0 /\ failed = {} /\ closed = {}
    /\ reserved = 0 /\ inFlight = 0 /\ committedCost = 0
    /\ first = NoEvent /\ log = <<>> /\ err = "none" /\ result = "pending"
    /\ fireTimer = "stopped" /\ timeout = "off"
    /\ clientGone = FALSE /\ cancelledAll = FALSE /\ cancelled = {}
    /\ events = <<>>
    /\ fwd = [i \in Backends |-> "off"] /\ hand = [i \in Backends |-> 0]
    /\ prod = [i \in Backends |-> "off"] /\ ch = [i \in Backends |-> 0]
    /\ script = [i \in Backends |-> <<>>]
    /\ endedAlone = {}

-----------------------------------------------------------------------------
(* startNext: reserve under the mutex, then call Stream.  HTTPBackend.Stream *)
(* returns only once the upstream has answered, so the loop sits in        *)
(* "dialing" for as long as that takes.                                    *)

Reserve ==
    /\ pc' = "dialing"
    /\ started' = started + 1
    /\ reserved' = reserved + 1
    /\ inFlight' = inFlight + 1
    /\ committedCost' = committedCost + Cost[started + 1]
    /\ UNCHANGED failed

StartPrimary ==
    /\ pc = "start"
    /\ Reserve
    /\ UNCHANGED <<pol, closed, sinkVars, timerVars, ctxVars, fwdVars,
                   streamVars>>

\* Back in race: the first return creates the timeout timer, every return
\* re-arms the fire-after timer.
EnterLoop(n) ==
    /\ pc' = "racing"
    /\ fireTimer' = ArmFire(n, started)
    /\ timeout' = TimeoutOnEntry

DialOk ==
    /\ pc = "dialing"
    /\ prod' = [prod EXCEPT ![started] = "running"]
    /\ fwd' = [fwd EXCEPT ![started] = "idle"]
    /\ EnterLoop(RunningCount)
    /\ UNCHANGED <<pol, bookVars, sinkVars, ctxVars, hand, events, ch, script,
                   endedAlone>>

\* The reservation is rolled back and a goroutine is left to post a
\* synthetic close event.
DialErr ==
    /\ pc = "dialing"
    /\ failed' = failed \cup {started}
    /\ closed' = closed \cup {started}
    /\ cancelled' = cancelled \cup {started}
    /\ reserved' = reserved - 1
    /\ inFlight' = Clamp(inFlight - 1)
    /\ committedCost' = Clamp(committedCost - Cost[started])
    /\ prod' = [prod EXCEPT ![started] = "closed"]
    /\ fwd' = [fwd EXCEPT ![started] = "closing"]
    /\ endedAlone' = IF RunDone THEN endedAlone ELSE endedAlone \cup {started}
    /\ EnterLoop(Cardinality(Held \ {started}))
    /\ UNCHANGED <<pol, started, sinkVars, clientGone, cancelledAll, hand,
                   events, ch, script>>

-----------------------------------------------------------------------------
(* The race loop: the terminal check, then one branch of the select.       *)

Leave(e) ==
    /\ pc' = "unwinding"
    /\ err' = e

RaceNoPath ==
    /\ pc = "racing" /\ NoPathToWinner
    /\ Leave("nil")
    /\ UNCHANGED <<pol, bookVars, first, log, result, timerVars, ctxVars,
                   fwdVars, streamVars>>

Select == pc = "racing" /\ ~NoPathToWinner

RaceCtxDone ==
    /\ Select /\ RunDone
    /\ Leave("ctx")
    /\ UNCHANGED <<pol, bookVars, first, log, result, timerVars, ctxVars,
                   fwdVars, streamVars>>

RaceTimeout ==
    /\ Select /\ timeout = "due"
    /\ timeout' = "fired"
    /\ Leave("nil")
    /\ UNCHANGED <<pol, bookVars, first, log, result, fireTimer, ctxVars,
                   fwdVars, streamVars>>

\* The tick is consumed; the timer is re-armed after startNext, whether that
\* declined or went off to dial.
RaceFire ==
    /\ Select /\ fireTimer = "due"
    /\ \/ CanStartAnother /\ Reserve /\ fireTimer' = "stopped"
       \/ /\ ~CanStartAnother
          /\ fireTimer' = ArmFire(RunningCount, started)
          /\ UNCHANGED <<pc, started, failed, reserved, inFlight,
                         committedCost>>
    /\ UNCHANGED <<pol, closed, sinkVars, timeout, ctxVars, fwdVars,
                   streamVars>>

Receive == events # <<>> /\ events' = Tail(events)

\* A backend closed without a usable token: a loss.  The next backend is
\* started at once if the policy lets it.
RaceClose ==
    /\ Select /\ Receive /\ Head(events).chunk = 0
    /\ closed' = closed \cup {Head(events).idx}
    /\ \/ CanStartAnother /\ Reserve /\ UNCHANGED fireTimer
       \/ /\ ~CanStartAnother
          /\ fireTimer' = IF fireTimer = "stopped" \/ ShouldStartAfterLoss
                          THEN ArmFire(RunningCount, started) ELSE fireTimer
          /\ UNCHANGED <<pc, started, failed, reserved, inFlight,
                         committedCost>>
    /\ UNCHANGED <<pol, sinkVars, timeout, ctxVars, fwd, hand, streamVars>>

\* A role-only, finish-only or heartbeat chunk never wins and is dropped.
RaceDiscard ==
    /\ Select /\ Receive
    /\ Head(events).chunk > 0 /\ ~Usable(Head(events))
    /\ UNCHANGED <<pol, pc, bookVars, sinkVars, timerVars, ctxVars, fwd, hand,
                   streamVars>>

\* The first usable token: its backend wins and every other one is cancelled.
RaceWin ==
    /\ Select /\ Receive
    /\ Head(events).chunk > 0 /\ Usable(Head(events))
    /\ pc' = "committing"
    /\ first' = Head(events)
    /\ fireTimer' = "stopped"
    /\ cancelled' = cancelled \cup Losers(Head(events).idx)
    /\ UNCHANGED <<pol, bookVars, log, err, result, timeout, clientGone,
                   cancelledAll, fwd, hand, streamVars>>

-----------------------------------------------------------------------------
(* The winner's stream.                                                    *)

CommitOk ==
    /\ pc = "committing"
    /\ log' = <<first>>
    /\ pc' = "relaying"
    /\ UNCHANGED <<pol, bookVars, first, err, result, timerVars, ctxVars,
                   fwdVars, streamVars>>

CommitErr ==
    /\ pc = "committing"
    /\ Leave("sink")
    /\ UNCHANGED <<pol, bookVars, first, log, result, timerVars, ctxVars,
                   fwdVars, streamVars>>

RelayCtxDone ==
    /\ pc = "relaying" /\ RunDone
    /\ Leave("ctx")
    /\ UNCHANGED <<pol, bookVars, first, log, result, timerVars, ctxVars,
                   fwdVars, streamVars>>

RelayDiscard ==
    /\ pc = "relaying" /\ Receive /\ ~FromWinner(Head(events))
    /\ UNCHANGED <<pol, pc, bookVars, sinkVars, timerVars, ctxVars, fwd, hand,
                   streamVars>>

RelayEnd ==
    /\ pc = "relaying" /\ Receive
    /\ FromWinner(Head(events)) /\ Head(events).chunk = 0
    /\ Leave("nil")
    /\ UNCHANGED <<pol, bookVars, first, log, result, timerVars, ctxVars, fwd,
                   hand, streamVars>>

RelayChunk ==
    /\ pc = "relaying" /\ Receive
    /\ FromWinner(Head(events)) /\ Head(events).chunk > 0
    /\ \/ log' = Append(log, Head(events)) /\ UNCHANGED <<pc, err>>
       \/ Leave("sink") /\ UNCHANGED log
    /\ UNCHANGED <<pol, bookVars, first, result, timerVars, ctxVars, fwd, hand,
                   streamVars>>

-----------------------------------------------------------------------------
(* Cancel before wait, then release what the run still holds.              *)

CancelAll ==
    /\ pc = "unwinding"
    /\ cancelledAll' = TRUE
    /\ pc' = "waiting"
    /\ UNCHANGED <<pol, bookVars, sinkVars, timerVars, clientGone, cancelled,
                   fwdVars, streamVars>>

WaitAndReturn ==
    /\ pc = "waiting"
    /\ AllTornDown
    /\ inFlight' = Clamp(inFlight - reserved)
    /\ committedCost' = Clamp(committedCost - CommittedCostDelta)
    /\ result' = ReturnedError
    /\ pc' = "returned"
    /\ UNCHANGED <<pol, started, failed, closed, reserved, first, log, err,
                   timerVars, ctxVars, fwdVars, streamVars>>

-----------------------------------------------------------------------------
(* forward(i): the only reader of backend i's channel.                     *)

FwdTake(i) ==
    /\ fwd[i] = "idle" /\ ch[i] # 0
    /\ hand' = [hand EXCEPT ![i] = ch[i]]
    /\ ch' = [ch EXCEPT ![i] = 0]
    /\ fwd' = [fwd EXCEPT ![i] = "holding"]
    /\ UNCHANGED <<pol, pc, bookVars, sinkVars, timerVars, ctxVars, events,
                   prod, script, endedAlone>>

FwdSend(i) ==
    /\ fwd[i] = "holding" /\ Len(events) < EventsCap
    /\ events' = Append(events, [idx |-> i, chunk |-> hand[i]])
    /\ hand' = [hand EXCEPT ![i] = 0]
    /\ fwd' = [fwd EXCEPT ![i] = "idle"]
    /\ UNCHANGED <<pol, pc, bookVars, sinkVars, timerVars, ctxVars,
                   streamVars>>

FwdSeeClose(i) ==
    /\ fwd[i] = "idle" /\ ch[i] = 0 /\ prod[i] = "closed"
    /\ fwd' = [fwd EXCEPT ![i] = "closing"]
    /\ UNCHANGED <<pol, pc, bookVars, sinkVars, timerVars, ctxVars, hand,
                   events, streamVars>>

\* Also the goroutine startNext leaves behind a failed Stream.
FwdSendClose(i) ==
    /\ fwd[i] = "closing" /\ Len(events) < EventsCap
    /\ events' = Append(events, [idx |-> i, chunk |-> 0])
    /\ fwd' = [fwd EXCEPT ![i] = "done"]
    /\ UNCHANGED <<pol, pc, bookVars, sinkVars, timerVars, ctxVars, hand,
                   streamVars>>

\* The close is best effort: it watches the run's context, not the backend's.
FwdCloseSkip(i) ==
    /\ fwd[i] = "closing" /\ CloseGivesUp
    /\ fwd' = [fwd EXCEPT ![i] = "done"]
    /\ UNCHANGED <<pol, pc, bookVars, sinkVars, timerVars, ctxVars, hand,
                   events, streamVars>>

\* Cancelled at either select: drop what is held and drain the channel.
FwdCancelled(i) ==
    /\ fwd[i] \in {"idle", "holding"} /\ BeDone(i)
    /\ fwd' = [fwd EXCEPT ![i] = "draining"]
    /\ hand' = [hand EXCEPT ![i] = 0]
    /\ UNCHANGED <<pol, pc, bookVars, sinkVars, timerVars, ctxVars, events,
                   streamVars>>

FwdDrain(i) ==
    /\ fwd[i] = "draining" /\ ch[i] # 0
    /\ ch' = [ch EXCEPT ![i] = 0]
    /\ UNCHANGED <<pol, pc, bookVars, sinkVars, timerVars, ctxVars, fwdVars,
                   prod, script, endedAlone>>

FwdDrained(i) ==
    /\ fwd[i] = "draining" /\ ch[i] = 0 /\ prod[i] = "closed"
    /\ fwd' = [fwd EXCEPT ![i] = "done"]
    /\ UNCHANGED <<pol, pc, bookVars, sinkVars, timerVars, ctxVars, hand,
                   events, streamVars>>

-----------------------------------------------------------------------------
(* The producer goroutine of backend i (parseSSE, or the fake's).  A send  *)
(* may still win the select after the context was cancelled.               *)

Produce(i) ==
    /\ prod[i] = "running" /\ ch[i] = 0 /\ Len(script[i]) < MaxChunks
    /\ \E usable \in BOOLEAN : script' = [script EXCEPT ![i] = Append(@, usable)]
    /\ ch' = [ch EXCEPT ![i] = Len(script[i]) + 1]
    /\ UNCHANGED <<pol, pc, bookVars, sinkVars, timerVars, ctxVars, fwdVars,
                   prod, endedAlone>>

\* [DONE], EOF, a read error or the context: the channel is closed.
ProducerEnd(i) ==
    /\ prod[i] = "running"
    /\ prod' = [prod EXCEPT ![i] = "closed"]
    /\ endedAlone' = IF BeDone(i) THEN endedAlone ELSE endedAlone \cup {i}
    /\ UNCHANGED <<pol, pc, bookVars, sinkVars, timerVars, ctxVars, fwdVars,
                   ch, script>>

-----------------------------------------------------------------------------
(* The clock and the client.  The timeout is only selected on before there *)
(* is a winner, so its ticking later is of no consequence.                 *)

FireTick ==
    /\ fireTimer = "running" /\ pc \in {"dialing", "racing"}
    /\ fireTimer' = "due"
    /\ UNCHANGED <<pol, pc, bookVars, sinkVars, timeout, ctxVars, fwdVars,
                   streamVars>>

TimeoutTick ==
    /\ timeout = "running" /\ pc \in {"dialing", "racing"}
    /\ timeout' = "due"
    /\ UNCHANGED <<pol, pc, bookVars, sinkVars, fireTimer, ctxVars, fwdVars,
                   streamVars>>

ClientCancel ==
    /\ ~clientGone /\ pc # "returned"
    /\ clientGone' = TRUE
    /\ UNCHANGED <<pol, pc, bookVars, sinkVars, timerVars, cancelledAll,
                   cancelled, fwdVars, streamVars>>

\* Run has returned and nothing of it is left.
Terminated == pc = "returned" /\ UNCHANGED vars

-----------------------------------------------------------------------------
Dialing == StartPrimary \/ DialOk \/ DialErr
Racing == RaceNoPath \/ RaceCtxDone \/ RaceTimeout \/ RaceFire \/ RaceClose
          \/ RaceDiscard \/ RaceWin
Relaying == CommitOk \/ CommitErr \/ RelayCtxDone \/ RelayDiscard \/ RelayEnd
            \/ RelayChunk
Unwinding == CancelAll \/ WaitAndReturn
Forwarder(i) == FwdTake(i) \/ FwdSend(i) \/ FwdSeeClose(i) \/ FwdSendClose(i)
                \/ FwdCloseSkip(i) \/ FwdCancelled(i) \/ FwdDrain(i)
                \/ FwdDrained(i)
Producer(i) == Produce(i) \/ ProducerEnd(i)
Environment == FireTick \/ TimeoutTick \/ ClientCancel

Next ==
    \/ Dialing \/ Racing \/ Relaying \/ Unwinding
    \/ \E i \in Backends : Forwarder(i) \/ Producer(i)
    \/ Environment
    \/ Terminated

Spec == Init /\ [][Next]_vars

-----------------------------------------------------------------------------
(* Safety.                                                                 *)

LoopType ==
    /\ pol \in Policies
    /\ pc \in {"start", "dialing", "racing", "committing", "relaying",
              "unwinding", "waiting", "returned"}
    /\ first \in Event \cup {NoEvent}
    /\ log \in Seq(Event)
    /\ err \in {"none", "nil", "ctx", "sink"}
    /\ result \in {"pending", "ok", "allFailed", "ctx", "sink"}
BookType ==
    /\ started \in 0 .. NB
    /\ failed \subseteq Started /\ closed \subseteq Backends
    /\ reserved \in Int /\ inFlight \in Nat
ContextType ==
    /\ fireTimer \in {"stopped", "running", "due"}
    /\ timeout \in {"off", "running", "due", "fired"}
    /\ clientGone \in BOOLEAN /\ cancelledAll \in BOOLEAN
    /\ cancelled \subseteq Backends
PipeType ==
    /\ events \in Seq(Event)
    /\ fwd \in [Backends -> {"off", "idle", "holding", "closing", "draining",
                            "done"}]
    /\ hand \in [Backends -> 0 .. MaxChunks]
    /\ prod \in [Backends -> {"off", "running", "closed"}]
    /\ ch \in [Backends -> 0 .. MaxChunks]
    /\ script \in [Backends -> Seq(BOOLEAN)]
    /\ endedAlone \subseteq Backends

\* Every variable keeps its type, committedCost excepted: CostConserved gives
\* its exact value.
TypeOK == LoopType /\ BookType /\ ContextType /\ PipeType

\* The reservation book: until Run returns, this run's share of the engine's
\* in-flight gauge is what its live backends account for, whatever dials
\* failed on the way; afterwards its share is zero.
InFlightConserved ==
    /\ reserved = RunningCount
    /\ inFlight = IF pc = "returned" THEN 0 ELSE RunningCount

\* The same of the committed cost: a failed dial is released once, not again
\* with the rest when Run returns.
CostConserved ==
    committedCost = IF pc = "returned" THEN 0 ELSE CommittedCostDelta

\* In whichever order losses and timer fires start backups, a request never
\* holds more than max_in_flight backends.
InFlightCapped == RunningCount <= EffectiveMaxInFlight(pol)

\* Nor more than the ceiling's worth of them, unless it is the primary alone,
\* which is started whatever it costs.
CostCapped ==
    pol.costCeiling > 0 =>
        CommittedCostDelta <= pol.costCeiling \/ Held \subseteq {1}

\* What the client is sent is one backend's stream: it starts at that
\* backend's first usable chunk and goes on without a gap, a repeat, a swap
\* or a chunk of a loser.
RelayIsOneStream ==
    /\ \A n \in DOMAIN log : log[n] = [first EXCEPT !.chunk = @ + n - 1]
    /\ winner # 0 => \A k \in DOMAIN script[winner] :
                       script[winner][k] => k >= first.chunk

\* A run that reports success relayed the winner's stream to its last chunk.
SuccessIsComplete ==
    result = "ok" => first.chunk + Len(log) - 1 = Len(script[winner])

\* Nor was that stream cut short by the race itself: while the client stays,
\* nobody cancels the winner before it has ended on its own.
SuccessIsUncut ==
    result = "ok" /\ ~clientGone => winner \in endedAlone

\* When Run returns nothing it started is still there: every forwarder is
\* gone, and so is every producer, with its channel empty or abandoned.
NoLeakAtReturn ==
    pc = "returned" => \A i \in Started : fwd[i] = "done" /\ prod[i] = "closed"

\* ErrAllBackendsFailed with the client present and in time means what it
\* says: no dialed backend ever streamed a usable chunk, and the policy
\* allowed no other backend to be dialed.
AllFailedIsTrue ==
    result = "allFailed" /\ ~clientGone /\ timeout # "fired" =>
        /\ \A i \in Started : \A k \in DOMAIN script[i] : ~script[i][k]
        /\ ~CanStartAnother

\* No backend is blamed for the race's own cancelling: while the client stays,
\* "no_usable_token" is only said of one that ended by itself and streamed
\* none, and "error" of one that ended by itself too.
BlameIsDeserved ==
    result # "pending" /\ ~clientGone =>
        \A i \in Lost :
            /\ LossReason(i) # "canceled" => i \in endedAlone
            /\ LossReason(i) = "no_usable_token" =>
                 \A k \in DOMAIN script[i] : ~script[i][k]

\* A hedge is never forgotten: while the race waits and a backup could be
\* started, the fire-after timer is armed.
HedgePending ==
    pc = "racing" /\ ShouldStartAfterLoss => fireTimer # "stopped"

\* The winner is final: once a token has won no backend is dialed, no other
\* backend wins, every loser stays cancelled and what was relayed stays.
WinnerIsFinal ==
    [][winner # 0 =>
         /\ UNCHANGED <<first, started>>
         /\ Lost \subseteq cancelled'
         /\ log' = log \/ \E ev \in Event : log' = Append(log, ev)]_vars

-----------------------------------------------------------------------------
(* What the documentation says of a run, and the code does not do.         *)

\* README "How it works", last paragraph: an error is returned only if all backends
\* lose.  (Without a cost ceiling, a timeout or a client that leaves.)
ErrorOnlyIfAllLose ==
    result = "allFailed" /\ ~clientGone /\ timeout # "fired"
        /\ pol.costCeiling = 0 => started = NB

\* Run's comment: a client that cancels before there is a winner gets the
\* context error.  All-failed is for backends that ended by themselves.
CancelIsNotFailure ==
    result = "allFailed" /\ timeout # "fired" => Started \subseteq endedAlone

-----------------------------------------------------------------------------
(* Liveness.  The engine's goroutines and the timers run; the sink returns; *)
(* a select does not pass over a ready branch for ever; a backend whose    *)
(* context is cancelled ends (backend.go's contract, Client.Do).           *)

EngineFairness ==
    /\ WF_vars(StartPrimary) /\ WF_vars(RaceNoPath) /\ WF_vars(RaceCtxDone)
    /\ WF_vars(RaceTimeout) /\ WF_vars(RaceFire)
    /\ WF_vars(RaceClose \/ RaceDiscard \/ RaceWin)
    /\ WF_vars(CommitOk \/ CommitErr) /\ WF_vars(RelayCtxDone)
    /\ WF_vars(RelayDiscard \/ RelayEnd \/ RelayChunk)
    /\ WF_vars(CancelAll) /\ WF_vars(WaitAndReturn)
    /\ WF_vars(FireTick) /\ WF_vars(TimeoutTick)
    /\ \A i \in Backends : WF_vars(Forwarder(i))

CancellationFairness ==
    /\ WF_vars(RunDone /\ DialErr)
    /\ \A i \in Backends : WF_vars(BeDone(i) /\ ProducerEnd(i))

\* An upstream that answers the request in some time, well or badly.
DialFairness == WF_vars(DialOk \/ DialErr)

FairSpec == Spec /\ EngineFairness /\ CancellationFairness

\* A client that leaves ends its run, whatever the upstreams do.
ClientGoneReturns == clientGone ~> pc = "returned"

\* Losers are torn down while the winner still streams, however long that is.
LosersTornDown ==
    winner # 0 ~> \A i \in Lost : fwd[i] = "done" /\ prod[i] = "closed"

\* A backup that the policy allows is dialed, or the race is over: backends
\* that stay silent for ever cannot hold it up.
HedgeFires ==
    pc = "racing" /\ CanStartAnother
        ~> pc \in {"dialing", "committing", "unwinding"}

\* request_timeout bounds the time to a winner.
TimeoutEndsRace ==
    pol.requestTimeout ~> pc \notin {"start", "dialing", "racing"}

\* It does when every upstream answers a dial in some time.
TimeoutBoundsRace == DialFairness => TimeoutEndsRace
=============================================================================
