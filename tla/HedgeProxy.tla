----------------------------- MODULE HedgeProxy -----------------------------
(***************************************************************************)
(* The HTTP handler over Engine.Run (internal/proxy/handler.go) and the    *)
(* registry it reports to (HedgeMetrics), for requests that are served     *)
(* concurrently and scraped meanwhile.  What a run may do to its sink and  *)
(* return is what HedgeContract promises: chunks only of a winner, "ok"    *)
(* and "sink" only with one, "allFailed" and "noBackends" only without.    *)
(* A response body is the pieces handed to Write.                          *)
(***************************************************************************)
EXTENDS HedgeMetrics

CONSTANTS
    Requests,   \* concurrent requests
    MaxChunks,  \* bound: chunks the winner relays after the first
    Kinds,      \* the requests that may come, see Kind
    Refusals,   \* the statuses a request is refused with
    Latencies   \* FirstTokenLatency of a winning run

Kind == {"refused",   \* no key, not POST, unreadable, not JSON, no message
         "noFlusher", \* stream = true over a writer that cannot flush
         "sse",       \* stream = true
         "json"}      \* stream = false

ASSUME ProxyAssumption ==
    /\ MaxChunks \in Nat /\ Kinds \subseteq Kind
    /\ Refusals \subseteq {400, 401, 405} /\ Latencies \subseteq Nat \ {0}

VARIABLES
    kind,     \* what each request is
    phase,    \* where its handler is
    winner,   \* the backend Run committed to, 0 for none
    ret,      \* what Run returned
    committed,\* sink.committed
    writeErr, \* sseSink.writeErr
    status,   \* the status lines sent, in order
    body,     \* the pieces written after them
    chunks,   \* how many chunks the run has relayed
    todo,     \* series this request has yet to add to, in order
    held,     \* the counter it found and has not added to, 0 for none
    added,    \* history: the series it has added to
    lat       \* history: the first-token latency it has observed, 0 for none

handler == <<kind, phase, winner, ret>>
wire == <<committed, writeErr, status, body, chunks>>
report == <<todo, held, added, lat>>
vars == <<handler, wire, report, metrics>>

-----------------------------------------------------------------------------
ContextCanceled(r) == ret[r] = "ctx"

\* writeUncommittedError: the status an error is answered with.
NoDefaultStatus(r) == \* a slip: an error of no known kind leaves it unset
    CASE ret[r] = "noBackends" -> 503
      [] ret[r] = "ctx" -> 499
      [] OTHER -> 0
ErrorStatus(r) ==
    CASE ret[r] = "noBackends" -> 503
      [] ret[r] = "ctx" -> 499
      [] OTHER -> 502

\* Which of its three counters a run is reported to.
CtxFirst(r) == \* a slip: the switch asks for the context before the winner
    CASE ContextCanceled(r) -> "canceled"
      [] ~ContextCanceled(r) /\ winner[r] # 0 -> "firstTokens"
      [] OTHER -> "failed"
Verdict(r) ==
    CASE winner[r] # 0 -> "firstTokens"
      [] winner[r] = 0 /\ ContextCanceled(r) -> "canceled"
      [] OTHER -> "failed"

\* The labelled series a run is reported to, losses before the win.
WinFirst(r, lost) == \* a slip
    IF winner[r] = 0 THEN lost ELSE <<WinOf(winner[r])>> \o lost
Labelled(r, lost) ==
    IF winner[r] = 0 THEN lost ELSE lost \o <<WinOf(winner[r])>>

\* finish() says nothing more to a writer that failed.
AlwaysTerminate(r) == TRUE \* a slip
MayTerminate(r) == ~writeErr[r]

SentNothing(r) == body[r] = <<>> \* a slip: a failed first write is nothing sent
Uncommitted(r) == ~committed[r]

-----------------------------------------------------------------------------
Init ==
    /\ kind \in [Requests -> Kinds]
    /\ phase = [r \in Requests |-> "new"]
    /\ winner = [r \in Requests |-> 0] /\ ret = [r \in Requests |-> "none"]
    /\ committed = [r \in Requests |-> FALSE]
    /\ writeErr = [r \in Requests |-> FALSE]
    /\ status = [r \in Requests |-> <<>>] /\ body = [r \in Requests |-> <<>>]
    /\ chunks = [r \in Requests |-> 0]
    /\ todo = [r \in Requests |-> <<>>] /\ held = [r \in Requests |-> 0]
    /\ added = [r \in Requests |-> {}] /\ lat = [r \in Requests |-> 0]
    /\ MetricsInit

\* writeError: a status line and a JSON body.
WriteError(r, code) ==
    /\ status' = [status EXCEPT ![r] = Append(@, code)]
    /\ body' = [body EXCEPT ![r] = Append(@, "error")]

\* ServeHTTP's early returns come before the request is counted.
Refuse(r) ==
    /\ phase[r] = "new" /\ kind[r] = "refused"
    /\ \E code \in Refusals : WriteError(r, code)
    /\ phase' = [phase EXCEPT ![r] = "done"]
    /\ UNCHANGED <<kind, winner, ret, committed, writeErr, chunks, report,
                   metrics>>

Count(r) ==
    /\ phase[r] = "new" /\ kind[r] # "refused"
    /\ totals' = [totals EXCEPT !.requests = @ + 1]
    /\ phase' = [phase EXCEPT ![r] = "serving"]
    /\ UNCHANGED <<kind, winner, ret, wire, report, series, value, hist, page>>

NoFlusher(r) ==
    /\ phase[r] = "serving" /\ kind[r] = "noFlusher"
    /\ WriteError(r, 500)
    /\ phase' = [phase EXCEPT ![r] = "done"]
    /\ UNCHANGED <<kind, winner, ret, committed, writeErr, chunks, report,
                   metrics>>

-----------------------------------------------------------------------------
(* The run and its sink.                                                   *)

Serving(r) == phase[r] = "serving" /\ kind[r] \in {"sse", "json"}

\* sseSink.Chunk: three writes, of which one may fail, and a Marshal that cannot;
\* jsonSink.Chunk only remembers the content.
Event == <<"data: ", "payload", "end">>
SinkTakes(r) ==
    /\ UNCHANGED writeErr
    /\ \/ kind[r] = "json" /\ UNCHANGED body
       \/ /\ kind[r] = "sse" /\ ~writeErr[r]
          /\ body' = [body EXCEPT ![r] = @ \o Event]
SinkFails(r) ==
    /\ kind[r] = "sse" /\ ~writeErr[r]
    /\ \E n \in 0 .. 2 : body' = [body EXCEPT ![r] = @ \o SubSeq(Event, 1, n)]
    /\ writeErr' = [writeErr EXCEPT ![r] = TRUE]
SinkChunk(r) == SinkTakes(r) \/ SinkFails(r)

\* The run has a winner and commits the response.
Committed(r, b) ==
    /\ winner' = [winner EXCEPT ![r] = b]
    /\ committed' = [committed EXCEPT ![r] = TRUE]
    /\ status' = IF kind[r] = "sse"
                 THEN [status EXCEPT ![r] = Append(@, 200)] ELSE status
    /\ UNCHANGED <<kind, phase, ret, chunks, report, metrics>>
Commit(r) ==
    /\ Serving(r) /\ winner[r] = 0
    /\ \E b \in Backends : Committed(r, b)
    /\ SinkChunk(r)

Relayed(r) ==
    /\ chunks' = [chunks EXCEPT ![r] = @ + 1]
    /\ UNCHANGED <<handler, committed, status, report, metrics>>
Relay(r) ==
    /\ Serving(r) /\ winner[r] # 0 /\ ~writeErr[r] /\ chunks[r] < MaxChunks
    /\ Relayed(r)
    /\ SinkChunk(r)

\* Run returns its error and its Outcome: which backends were attempted, which
\* of them lost and why.  A sink's error is returned; "ctx" may come with a
\* winner or without.
Returns(r) ==
    IF winner[r] = 0 THEN {"allFailed", "noBackends", "ctx"}
    ELSE IF writeErr[r] THEN {"sink"} ELSE {"ok", "ctx"}

\* What a run may attempt: the eligible backends from the first on.  These are
\* the configured ones, in their order, without those that are in cooldown.
Attempts ==
    {tried \in UNION {[1 .. n -> Backends] : n \in 0 .. NB} :
        \A i, j \in DOMAIN tried : i < j => tried[i] < tried[j]}

\* Outcome.Losses: the attempted that did not win, in order of attempt.
Losses(r, tried, why) ==
    LET at == IF winner[r] = 0 THEN Len(tried) + 1
              ELSE CHOOSE i \in DOMAIN tried : tried[i] = winner[r]
        lost(i) == tried[IF i < at THEN i ELSE i + 1]
    IN [i \in 1 .. IF winner[r] = 0 THEN Len(tried) ELSE Len(tried) - 1 |->
          LossOf(lost(i), why[lost(i)])]

\* A backend whose Stream failed was not started.
RedundantStarts(r, tried, why) ==
    LET started == Cardinality({i \in DOMAIN tried :
                                  \/ tried[i] = winner[r]
                                  \/ why[tried[i]] # "error"})
    IN IF started <= 1 THEN 0 ELSE started - 1

Returned(r, e) ==
    /\ ret' = [ret EXCEPT ![r] = e]
    /\ phase' = [phase EXCEPT ![r] = "reporting"]
    /\ UNCHANGED <<kind, winner, wire, held, added, lat, series, value, hist, page>>
Reported(r, tried, why) ==
    /\ todo' = [todo EXCEPT ![r] = Labelled(r, Losses(r, tried, why))]
    /\ totals' = [totals EXCEPT !.redundant = @ + RedundantStarts(r, tried, why)]
Return(r) ==
    /\ Serving(r)
    /\ \E e \in Returns(r) :
         /\ Returned(r, e)
         /\ \E tried \in Attempts, why \in [Backends -> Reasons] :
              /\ winner[r] = 0 \/ \E i \in DOMAIN tried : tried[i] = winner[r]
              /\ tried = <<>> <=> e = "noBackends"
              /\ Reported(r, tried, why)

-----------------------------------------------------------------------------
(* report: losses first, then the win, then the unlabelled metrics.        *)

Find(r) ==
    /\ phase[r] = "reporting" /\ todo[r] # <<>> /\ held[r] = 0
    /\ LocateOrInsert(Head(todo[r]))
    /\ held' = [held EXCEPT ![r] = series'[Head(todo[r])]]
    /\ UNCHANGED <<handler, wire, todo, added, lat, totals, hist, page>>

AddOne(r) ==
    /\ held[r] # 0
    /\ Increment(held[r])
    /\ held' = [held EXCEPT ![r] = 0]
    /\ added' = [added EXCEPT ![r] = @ \cup {Head(todo[r])}]
    /\ todo' = [todo EXCEPT ![r] = Tail(@)]
    /\ UNCHANGED <<handler, wire, lat, series, totals, hist, page>>

Conclude(r) ==
    /\ phase[r] = "reporting" /\ todo[r] = <<>>
    /\ \/ /\ Verdict(r) = "firstTokens"
          /\ \E v \in Latencies : /\ ObserveFirstToken(v)
                                  /\ lat' = [lat EXCEPT ![r] = v]
          /\ UNCHANGED totals
       \/ /\ Verdict(r) # "firstTokens"
          /\ totals' = [totals EXCEPT ![Verdict(r)] = @ + 1]
          /\ UNCHANGED <<hist, lat>>
    /\ phase' = [phase EXCEPT ![r] = "answering"]
    /\ UNCHANGED <<kind, winner, ret, wire, todo, held, added, series, value, page>>

-----------------------------------------------------------------------------
(* The rest of serveStream and serveJSON.                                  *)

AnswerError(r) ==
    /\ phase[r] = "answering" /\ Uncommitted(r)
    /\ WriteError(r, ErrorStatus(r))
    /\ phase' = [phase EXCEPT ![r] = "done"]
    /\ UNCHANGED <<kind, winner, ret, committed, writeErr, chunks, report,
                   metrics>>

AnswerStream(r) ==
    /\ phase[r] = "answering" /\ ~Uncommitted(r) /\ kind[r] = "sse"
    /\ body' = IF MayTerminate(r)
               THEN [body EXCEPT ![r] = Append(@, "[DONE]")] ELSE body
    /\ phase' = [phase EXCEPT ![r] = "done"]
    /\ UNCHANGED <<kind, winner, ret, committed, writeErr, status, chunks,
                   report, metrics>>

AnswerJSON(r) ==
    /\ phase[r] = "answering" /\ ~Uncommitted(r) /\ kind[r] = "json"
    /\ status' = [status EXCEPT ![r] = Append(@, 200)]
    /\ body' = [body EXCEPT ![r] = Append(@, "completion")]
    /\ phase' = [phase EXCEPT ![r] = "done"]
    /\ UNCHANGED <<kind, winner, ret, committed, writeErr, chunks, report,
                   metrics>>

\* GET /metrics, at any time.
Scraped == Scrape /\ UNCHANGED <<handler, wire, report>>

\* Every handler has returned.
Terminated ==
    /\ \A r \in Requests : phase[r] = "done"
    /\ UNCHANGED vars

Next ==
    \/ \E r \in Requests :
         \/ Refuse(r) \/ Count(r) \/ NoFlusher(r)
         \/ Commit(r) \/ Relay(r) \/ Return(r)
         \/ Find(r) \/ AddOne(r) \/ Conclude(r)
         \/ AnswerError(r) \/ AnswerStream(r) \/ AnswerJSON(r)
    \/ Scraped
    \/ Terminated

Spec == Init /\ [][Next]_vars

-----------------------------------------------------------------------------
(* Properties.                                                             *)

\* Every variable keeps its type, and no label points past the counters.
TypeOK ==
    /\ kind \in [Requests -> Kinds]
    /\ phase \in [Requests -> {"new", "serving", "reporting", "answering",
                               "done"}]
    /\ winner \in [Requests -> 0 .. NB]
    /\ ret \in [Requests -> {"none", "ok", "allFailed", "noBackends", "ctx",
                             "sink"}]
    /\ committed \in [Requests -> BOOLEAN] /\ writeErr \in [Requests -> BOOLEAN]
    /\ status \in [Requests -> Seq({200, 400, 401, 405, 499, 500, 502, 503})]
    /\ body \in [Requests -> Seq({"data: ", "payload", "end", "[DONE]",
                                  "error", "completion"})]
    /\ chunks \in [Requests -> 0 .. MaxChunks]
    /\ todo \in [Requests -> Seq(Labels)]
    /\ held \in [Requests -> 0 .. Len(value)]
    /\ added \in [Requests -> SUBSET Labels]
    /\ lat \in [Requests -> Latencies \cup {0}]
    /\ MetricsTypeOK

Sent(codes) ==
    {r \in Requests : \E i \in DOMAIN status[r] : status[r][i] \in codes}

\* A labelled counter shows every observation made of it and no other, though
\* it is looked up under the mutex and added to outside, by several requests
\* at once.
NoObservationLost ==
    \A label \in Labels :
        Read(label) = Cardinality({r \in Requests : label \in added[r]})

\* The backends a run has attempted, once it has returned, and the runs with a
\* winner or canceled that did without a backend: it was in cooldown, or no
\* hedge got to it.
Attempted(r) ==
    {label.backend : label \in added[r] \cup {todo[r][i] : i \in DOMAIN todo[r]}}
Without(b) ==
    {r \in Requests : /\ ret[r] # "none" /\ Verdict(r) # "failed"
                      /\ b \notin Attempted(r)}

\* A page is read while requests report, family after family, and still never
\* shows an outcome without the losses that go with it: report() adds losses
\* before outcomes, WriteTo reads outcomes before losses.  A backend has lost
\* every run that it was attempted in and that was canceled or won by another.
OutcomesComeWithLosses ==
    page.reads = "losses" =>
        \A b \in Backends :
            page.owed[b] <= LossesOf(b) + Cardinality(Without(b))

\* Every bucket of hedge_first_token_latency_seconds counts the observed
\* latencies up to its bound, a sample on the bound included, and +Inf, _count
\* and _sum agree with all of them.
HistogramIsExact ==
    LET Observed == {r \in Requests : lat[r] # 0}
        n == Len(Bounds) + 1
        buckets == Cumulative
    IN /\ \A i \in DOMAIN Bounds :
            buckets[i] = Cardinality({r \in Observed : lat[r] <= Bounds[i]})
       /\ buckets[n] = hist.count /\ hist.count = Cardinality(Observed)
       /\ hist.sum = MapThenSumSet(LAMBDA r : lat[r], Observed)

\* Once nothing is in progress the counters say what the clients were sent:
\* every 200 is a win with its first token, every 499 canceled, every 502 and
\* 503 failed, and these and the 500s are all the requests counted.
AnswersMatchCounters ==
    (\A r \in Requests : phase[r] = "done") =>
        /\ hist.count = Cardinality(Sent({200}))
        /\ MapThenSumSet(WinsOf, Backends) = hist.count
        /\ totals.canceled = Cardinality(Sent({499}))
        /\ totals.failed = Cardinality(Sent({502, 503}))
        /\ totals.requests = Cardinality(Sent({200, 499, 500, 502, 503}))

\* A client is sent one status line, before any of the body, and a 200 is
\* never followed by an error: no half-streamed failure.
OneAnswer ==
    \A r \in Requests :
        /\ Len(status[r]) <= 1
        /\ body[r] # <<>> \/ phase[r] = "done" => Len(status[r]) = 1
        /\ status[r] = <<200>> => \A i \in DOMAIN body[r] : body[r][i] # "error"

\* A stream is whole events, then [DONE] - after the last one and whatever the
\* run returned - unless a write failed, after which nothing is written.
StreamIsWellFormed ==
    \A r \in Requests :
        kind[r] = "sse" /\ committed[r] =>
          LET n == Len(body[r])
              terminated == n > 0 /\ body[r][n] = "[DONE]"
              events == IF terminated THEN n - 1 ELSE n
          IN /\ \A i \in 1 .. events : body[r][i] = Event[((i - 1) % 3) + 1]
             /\ ~writeErr[r] => events % 3 = 0
             /\ terminated => phase[r] = "done" /\ ~writeErr[r]
             /\ phase[r] = "done" /\ ~writeErr[r] => terminated
=============================================================================
