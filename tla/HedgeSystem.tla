----------------------------- MODULE HedgeSystem -----------------------------
(***************************************************************************)
(* Engine.Run over real backends: the race loop and the forwarders of      *)
(* HedgeRun, and behind every channel a producer that does what the send   *)
(* contract of internal/backend/backend.go (HedgeProducer) allows and      *)
(* nothing else is assumed of.  HedgeBackend shows that HTTPBackend and    *)
(* FakeBackend keep that contract.                                         *)
(*                                                                         *)
(* HedgeRun is instantiated with its producers, their channels and scripts *)
(* read off the backends' state; a step of its loop is taken as it is, and *)
(* the steps in which the run and a backend meet (the two returns of       *)
(* Stream, a receive on the channel, its close) are joint ones.            *)
(***************************************************************************)
EXTENDS Integers, Sequences, FiniteSets

CONSTANTS
    NB, Cost, Policies, EventsCap, MaxChunks, \* as in HedgeRun
    Answers,   \* what an upstream may have to say: sequences of chunks
    Contentful \* the chunks that carry content (Chunk.IsUsable)

VARIABLES
    \* the run, as in HedgeRun
    pol, pc, started, failed, closed, reserved, inFlight, committedCost,
    first, log, err, result, fireTimer, timeout,
    clientGone, cancelledAll, cancelled, events, fwd, hand, endedAlone,
    \* the backends, as in HedgeProducer
    want, state, sent, queue, connected

bookVars == <<started, failed, closed, reserved, inFlight, committedCost>>
sinkVars == <<first, log, err, result>>
timerVars == <<fireTimer, timeout>>
ctxVars == <<clientGone, cancelledAll, cancelled>>
fwdVars == <<fwd, hand, events>>
runVars == <<pol, pc, bookVars, sinkVars, timerVars, ctxVars, fwdVars, endedAlone>>
backendVars == <<want, state, sent, queue, connected>>
vars == <<runVars, backendVars>>

-----------------------------------------------------------------------------
(* What the run sees of a backend.  A chunk is known to the run by its     *)
(* position in the stream, so the one on the channel is the last one sent. *)

ProducerOf(i) ==
    CASE state[i] \in {"unasked", "starting"} -> "off"
      [] state[i] = "open" -> "running"
      [] OTHER -> "closed"
OnChannel(i) == IF queue[i] = <<>> THEN 0 ELSE sent[i]
ScriptOf(i) == [k \in 1 .. sent[i] |-> want[i][k] \in Contentful]

Run == INSTANCE HedgeRunRefinement
    WITH prod <- [i \in 1 .. NB |-> ProducerOf(i)],
         ch <- [i \in 1 .. NB |-> OnChannel(i)],
         script <- [i \in 1 .. NB |-> ScriptOf(i)]

Backends == Run!Backends

\* What a backend sees of the run: its context.  A backend whose Stream
\* failed is not there any more to see it cancelled.
Heard(i) == Run!RunDone \/ i \in cancelled \ failed

Peer == INSTANCE HedgeProducer
    WITH Producers <- Backends,
         cancelled <- [i \in Backends |-> Heard(i)]

ASSUME SystemAssumption ==
    /\ Run!RunAssumption
    /\ Answers \subseteq Seq(Nat)
    /\ \A s \in Answers : Len(s) <= MaxChunks

Init ==
    /\ want \in [Backends -> Answers]
    /\ state = [i \in Backends |-> "unasked"]
    /\ sent = [i \in Backends |-> 0]
    /\ queue = [i \in Backends |-> <<>>]
    /\ connected = [i \in Backends |-> FALSE]
    /\ Run!Init

-----------------------------------------------------------------------------
(* The run by itself.                                                      *)

Loop ==
    /\ UNCHANGED backendVars
    /\ Run!StartPrimary \/ Run!Racing \/ Run!Relaying \/ Run!Unwinding
       \/ Run!Environment

Forward(i) ==
    /\ UNCHANGED backendVars
    /\ Run!FwdSend(i) \/ Run!FwdSendClose(i) \/ Run!FwdCloseSkip(i)
       \/ Run!FwdCancelled(i)

-----------------------------------------------------------------------------
(* A backend by itself.  It is asked only by the run's call of Stream.     *)

Start(i) ==
    /\ pc = "dialing" /\ i = started
    /\ UNCHANGED runVars
    /\ Peer!Ask(i) \/ Peer!Connect(i)

Stream(i) ==
    /\ UNCHANGED runVars
    /\ Peer!Send(i) \/ Peer!Release(i)

-----------------------------------------------------------------------------
(* Where they meet.                                                        *)

\* Stream returns a channel: it gets a forwarder and the loop goes on.
DialOk ==
    /\ pc = "dialing"
    /\ fwd' = [fwd EXCEPT ![started] = "idle"]
    /\ Run!EnterLoop(Run!RunningCount)
    /\ UNCHANGED <<pol, bookVars, sinkVars, ctxVars, hand, events,
                   endedAlone>>
    /\ Peer!Open(started)

\* Stream returns an error: the reservation is rolled back.
DialErr ==
    /\ pc = "dialing"
    /\ failed' = failed \cup {started}
    /\ closed' = closed \cup {started}
    /\ cancelled' = cancelled \cup {started}
    /\ reserved' = reserved - 1
    /\ inFlight' = Run!Clamp(inFlight - 1)
    /\ committedCost' = Run!Clamp(committedCost - Cost[started])
    /\ fwd' = [fwd EXCEPT ![started] = "closing"]
    /\ endedAlone' = IF Run!RunDone THEN endedAlone
                     ELSE endedAlone \cup {started}
    /\ Run!EnterLoop(Cardinality(Run!Held \ {started}))
    /\ UNCHANGED <<pol, started, sinkVars, clientGone, cancelledAll, hand,
                   events>>
    /\ Peer!Refuse(started)

\* The forwarder's receive, to pass the chunk on or to drain the channel.
Receive(i) ==
    /\ \/ /\ fwd[i] = "idle"
          /\ fwd' = [fwd EXCEPT ![i] = "holding"]
          /\ hand' = [hand EXCEPT ![i] = sent[i]]
       \/ fwd[i] = "draining" /\ UNCHANGED <<fwd, hand>>
    /\ UNCHANGED <<pol, pc, bookVars, sinkVars, timerVars,
                   ctxVars, events, endedAlone>>
    /\ Peer!Take(i)

\* A receive that finds the channel closed and empty.
AtClose(i) == state[i] = "closed" \* a slip: what is still buffered is lost
AtEnd(i) == state[i] = "closed" /\ queue[i] = <<>>
ReceiveClose(i) ==
    /\ AtEnd(i)
    /\ \/ fwd[i] = "idle" /\ fwd' = [fwd EXCEPT ![i] = "closing"]
       \/ fwd[i] = "draining" /\ fwd' = [fwd EXCEPT ![i] = "done"]
    /\ UNCHANGED <<pol, pc, bookVars, sinkVars, timerVars,
                   ctxVars, hand, events, endedAlone, backendVars>>

\* The producer closes its channel.
Close(i) ==
    /\ endedAlone' = IF Run!BeDone(i) THEN endedAlone ELSE endedAlone \cup {i}
    /\ UNCHANGED <<pol, pc, bookVars, sinkVars, timerVars,
                   ctxVars, fwdVars>>
    /\ Peer!Close(i)

\* Run has returned and nothing of it is left.
Terminated == pc = "returned" /\ UNCHANGED vars

\* The goroutines besides the loop's.
Backstage ==
    \E i \in Backends :
        \/ Forward(i) \/ Start(i) \/ Stream(i)
        \/ Receive(i) \/ ReceiveClose(i) \/ Close(i)

Next == Loop \/ DialOk \/ DialErr \/ Backstage \/ Terminated

Spec == Init /\ [][Next]_vars

-----------------------------------------------------------------------------
(* Properties.                                                             *)

\* Whatever keeps the send contract, the race takes for the producers that
\* HedgeRun describes: all that is shown of HedgeRun holds over real backends.
ImplementsRun == Run!Spec

\* When Run returns no upstream connection it opened is held by anybody, and
\* no producer of it is still there.
NoConnectionLeft ==
    pc = "returned" =>
        \A i \in Backends :
            ~connected[i] /\ state[i] \in {"unasked", "refused", "closed"}

\* What the sink was given is the winner's whole answer: all that its upstream
\* had to say from the first chunk with content on, to the end.
WholeAnswer ==
    LET w == first.idx
        n == first.chunk
    IN  /\ Len(log) = Len(want[w]) - n + 1
        /\ \A k \in 1 .. Len(log) : log[k] = [idx |-> w, chunk |-> n + k - 1]
        /\ want[w][n] \in Contentful
        /\ \A k \in 1 .. n - 1 : want[w][k] \notin Contentful

\* Success is the whole answer, while the client is there.
SuccessIsTheAnswer == result = "ok" /\ ~clientGone => WholeAnswer

\* Backend i had nothing with content to say.
Mute(i) == \A k \in 1 .. Len(want[i]) : want[i][k] \notin Contentful

\* All-failed is true of the upstreams, and not only of what had arrived: with
\* the client present and in time, every backend asked refused or is mute.
AllFailedIsTrueOfUpstreams ==
    result = "allFailed" /\ ~clientGone /\ timeout # "fired" =>
        \A i \in 1 .. started : state[i] = "refused" \/ Mute(i)
=============================================================================
