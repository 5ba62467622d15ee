----------------------------- MODULE HedgeService -----------------------------
(***************************************************************************)
(* A request from end to end: the handler, its sink and the registry of    *)
(* HedgeProxy, with the run of HedgeSystem in the place of the one that    *)
(* HedgeProxy assumes, over upstreams.                                     *)
(*                                                                         *)
(* Nothing guards what the run does to its sink but the run itself: that   *)
(* it commits once, relays only to a sink that takes what it is given, and *)
(* returns what the handler can expect, is to be shown (ImplementsProxy).  *)
(* Other requests share only the registry, which HedgeProxy has shown.     *)
(***************************************************************************)
EXTENDS HedgeSystem

CONSTANTS
    q,                                 \* the request
    Kinds, Refusals, Latencies, Bounds \* as in HedgeProxy

VARIABLES
    \* handler, sink and registry, as in HedgeProxy
    kind, phase, winner, ret, committed, writeErr, status, body, chunks,
    todo, held, added, lat, series, value, totals, hist, page

\* Why a run says that a backend lost.
Reasons == {"error", "no_usable_token", "canceled"}

Proxy == INSTANCE HedgeProxy WITH Requests <- {q}

handlerVars == <<kind, phase, winner, ret, committed, writeErr, status, body,
                 chunks, todo, held, added, lat, series, value, totals, hist, page>>
serviceVars == <<vars, handlerVars>>

ASSUME ServiceAssumption == Proxy!MetricsAssumption /\ Proxy!ProxyAssumption

ServiceInit == Init /\ Proxy!Init

-----------------------------------------------------------------------------
\* The run has nothing to do with its sink.  It begins when the handler calls it.
RunAlone ==
    /\ UNCHANGED handlerVars
    /\ \/ /\ UNCHANGED backendVars
          /\ \/ Proxy!Serving(q) /\ Run!StartPrimary
             \/ Run!Racing
             \/ Run!RelayCtxDone \/ Run!RelayDiscard \/ Run!RelayEnd
             \/ Run!CancelAll \/ Run!Environment
       \/ DialOk \/ DialErr \/ Backstage

\* sink.Commit and sink.Chunk, whose write may fail.
Commit ==
    /\ UNCHANGED backendVars
    /\ Proxy!Committed(q, first.idx)
    /\ \/ Run!CommitOk /\ Proxy!SinkTakes(q)
       \/ Run!CommitErr /\ Proxy!SinkFails(q)

Relay ==
    /\ UNCHANGED backendVars
    /\ Run!RelayChunk
    /\ Proxy!Relayed(q)
    /\ \/ pc' = "relaying" /\ Proxy!SinkTakes(q)
       \/ pc' = "unwinding" /\ Proxy!SinkFails(q)

\* Run returns to the handler: every backend is eligible, and it has attempted
\* the first of them.
Why == [i \in Backends |-> Run!LossReason(i)]
Tried == [i \in 1 .. started |-> i]
Return ==
    /\ UNCHANGED backendVars
    /\ Run!WaitAndReturn
    /\ Proxy!Returned(q, result') /\ Proxy!Reported(q, Tried, Why)

\* Every backend is cooling: Run returns before it makes a run.
NoneEligible ==
    /\ Proxy!Serving(q) /\ pc = "start"
    /\ UNCHANGED vars
    /\ Proxy!Returned(q, "noBackends") /\ Proxy!Reported(q, <<>>, Why)

\* The handler before and after its call of Run.
HandlerAlone ==
    /\ UNCHANGED vars
    /\ \/ Proxy!Refuse(q) \/ Proxy!Count(q) \/ Proxy!NoFlusher(q)
       \/ Proxy!Find(q) \/ Proxy!AddOne(q) \/ Proxy!Conclude(q)
       \/ Proxy!AnswerError(q) \/ Proxy!AnswerStream(q) \/ Proxy!AnswerJSON(q)

Answered == phase[q] = "done" /\ UNCHANGED serviceVars

ServiceNext ==
    \/ RunAlone \/ Commit \/ Relay \/ Return \/ NoneEligible \/ HandlerAlone
    \/ Answered

ServiceSpec == ServiceInit /\ [][ServiceNext]_serviceVars

-----------------------------------------------------------------------------
(* Properties.                                                             *)

\* The run does to the handler only what HedgeProxy expects of one, so that
\* what is shown of answers and counters there holds over real runs.
ImplementsProxy == Proxy!Spec

\* The client that is still there and whose connection did not fail has been
\* sent the whole answer of one upstream when its 200 is finished: for a stream,
\* an event for each chunk and then [DONE].
AnswerIsWhole ==
    phase[q] = "done" /\ status[q] = <<200>> /\ ~clientGone /\ ~writeErr[q] =>
        /\ WholeAnswer
        /\ kind[q] = "sse" => Len(body[q]) = 3 * Len(log) + 1

\* An error status tells the client what happened: 499 that it left, 503 that
\* nobody was asked, and 502, if it stayed and there was time, that every
\* upstream asked refused or had nothing with content to say.
ErrorsAreTrue ==
    phase[q] = "done" =>
        /\ status[q] = <<499>> => clientGone
        /\ status[q] = <<503>> => \A i \in Backends : state[i] = "unasked"
        /\ status[q] = <<502>> /\ ~clientGone /\ timeout # "fired" =>
             \A i \in 1 .. started : state[i] = "refused" \/ Mute(i)

\* What is counted against or for a backend is true of its upstream: an error
\* was a refusal, a win began with content, and while the client stays no
\* backend is counted as without a usable token that had one to say.
CountsAreTrue ==
    \A i \in Backends :
        /\ Proxy!LossOf(i, "error") \in added[q] => state[i] = "refused"
        /\ Proxy!WinOf(i) \in added[q] =>
             i = first.idx /\ want[i][first.chunk] \in Contentful
        /\ Proxy!LossOf(i, "no_usable_token") \in added[q] /\ ~clientGone => Mute(i)
=============================================================================
