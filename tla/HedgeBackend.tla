----------------------------- MODULE HedgeBackend -----------------------------
(***************************************************************************)
(* The two backends of internal/backend: HTTPBackend over an upstream's    *)
(* SSE response (http.go) and FakeBackend over a clock (fake.go), each the *)
(* producer of one channel whose reader may stop reading at any time.      *)
(*                                                                         *)
(* An upstream's response is a script: the lines the scanner will see, of  *)
(* which only their kind matters (a blank, comment or non-data line and a  *)
(* chunk that does not parse are both dropped; the script's end is the     *)
(* body's, or a read error).  A chunk is known by its line, a fake token   *)
(* by its position, and the finish chunk is 0.                             *)
(***************************************************************************)
EXTENDS HedgeClock, Sequences

CONSTANTS
    Producers,   \* calls of Stream; each has a timer of its own for After
    HTTPScripts, \* what upstreams answer: sequences of kinds of line
    FakeScripts, \* what fakes are told to do
    Rearms       \* what the engine's loop arms its timer for

Owners == Timers \ Producers \* those of the engine's loop

ASSUME BackendAssumption ==
    /\ Producers \subseteq Timers
    /\ HTTPScripts \subseteq Seq({"skip", "malformed", "chunk", "done"})
    /\ FakeScripts \subseteq
         [startErr : BOOLEAN, first : Durations, inter : Durations, tokens : Nat,
          failAfter : Nat, emitFinish : BOOLEAN]
    /\ Rearms \subseteq Durations

VARIABLES
    http,   \* which producers are HTTPBackends
    script, \* each producer's script
    phase,  \* where its code is
    at,     \* how many lines it has read, or tokens it has sent
    chan,   \* its channel
    body,   \* whether the response body is open
    ctx,    \* whether its context is cancelled
    notice, \* whether FakeBackend.OnCancel was called
    sent,   \* history: how much was sent
    began   \* history: the clock when the stream began

vars == <<clockVars, http, script, phase, at, chan, body, ctx, notice, sent, began>>
given == <<http, script>>

-----------------------------------------------------------------------------
\* Only HTTPBackend has a response body to close on its way out.
Leaving(p) == IF http[p] THEN "returning" ELSE "closing"
Move(p, from, to) == phase[p] = from /\ phase' = [phase EXCEPT ![p] = to]

\* FakeBackend: how many tokens are emitted, and what is then left to emit.
Truncated(s) == s.failAfter > 0 /\ s.failAfter < s.tokens
Limit(s) == IF Truncated(s) THEN s.failAfter ELSE s.tokens
HasNext(p) ==
    LET s == script[p] IN
    \/ at[p] < Limit(s)
    \/ at[p] = Limit(s) /\ ~Truncated(s) /\ s.emitFinish
FirstAgain(p) == \* a slip: every gap is as long as the first
    IF phase[p] \in {"begin", "between"} THEN script[p].first ELSE 0
\* The delay before the next token; the finish chunk has none.
Delay(p) ==
    LET s == script[p] IN
    CASE phase[p] = "begin" -> s.first
      [] phase[p] = "between" /\ at[p] < Limit(s) -> s.inter
      [] OTHER -> 0

\* The chunk a producer is about to send.
Chunk(p) ==
    CASE http[p] -> at[p]
      [] ~http[p] /\ at[p] < Limit(script[p]) -> at[p] + 1
      [] OTHER -> 0

Init ==
    /\ ClockInit
    /\ http \in [Producers -> BOOLEAN]
    /\ \E h \in [Producers -> HTTPScripts], f \in [Producers -> FakeScripts] :
         script = [p \in Producers |-> IF http[p] THEN h[p] ELSE f[p]]
    /\ phase = [p \in Producers |-> "unasked"]
    /\ at = [p \in Producers |-> 0]
    /\ chan = [p \in Producers |-> <<>>]
    /\ body = [p \in Producers |-> FALSE]
    /\ ctx = [p \in Producers |-> FALSE]
    /\ notice = [p \in Producers |-> FALSE]
    /\ sent = [p \in Producers |-> 0]
    /\ began = [p \in Producers |-> 0]

-----------------------------------------------------------------------------
(* Both: the sends, the channel's reader, and the context.                 *)

AnyRoom(p) == TRUE \* a slip: the channel is taken for unbounded
Room(p) == chan[p] = <<>>
Sending(p) ==
    \/ http[p] /\ phase[p] = "sending"
    \/ ~http[p] /\ phase[p] = "ready" /\ HasNext(p)

Send(p) ==
    /\ Sending(p) /\ Room(p)
    /\ chan' = [chan EXCEPT ![p] = Append(@, Chunk(p))]
    /\ sent' = [sent EXCEPT ![p] = @ + 1]
    /\ at' = IF http[p] THEN at ELSE [at EXCEPT ![p] = @ + 1]
    /\ phase' = [phase EXCEPT ![p] = IF http[p] THEN "scanning" ELSE "between"]
    /\ UNCHANGED <<clockVars, given, body, ctx, notice, began>>

NeverGivesUp(p) == FALSE \* a slip: the send does not select on ctx.Done
SendGivesUp(p) == Sending(p) /\ ctx[p]
GiveUpSend(p) ==
    /\ SendGivesUp(p)
    /\ phase' = [phase EXCEPT ![p] = Leaving(p)]
    /\ UNCHANGED <<clockVars, given, at, chan, body, ctx, notice, sent, began>>

KeepBody(p) == \* a slip: the body is not closed
    /\ Move(p, "returning", "closing")
    /\ UNCHANGED <<clockVars, given, at, chan, body, ctx, notice, sent, began>>
\* The deferred calls of the producer's goroutine, the last one first.
CloseBody(p) ==
    /\ Move(p, "returning", "closing")
    /\ body' = [body EXCEPT ![p] = FALSE]
    /\ UNCHANGED <<clockVars, given, at, chan, ctx, notice, sent, began>>

CloseChan(p) ==
    /\ Move(p, "closing", "closed")
    /\ UNCHANGED <<clockVars, given, at, chan, body, ctx, notice, sent, began>>

Take(p) ==
    /\ chan[p] # <<>>
    /\ chan' = [chan EXCEPT ![p] = Tail(@)]
    /\ UNCHANGED <<clockVars, given, phase, at, body, ctx, notice, sent, began>>

Cancel(p) ==
    /\ ~ctx[p]
    /\ ctx' = [ctx EXCEPT ![p] = TRUE]
    /\ UNCHANGED <<clockVars, given, phase, at, chan, body, notice, sent, began>>

-----------------------------------------------------------------------------
(* HTTPBackend.                                                            *)

\* Stream blocks its caller in Client.Do.
Post(p) ==
    /\ http[p] /\ Move(p, "unasked", "posting")
    /\ began' = [began EXCEPT ![p] = now]
    /\ UNCHANGED <<clockVars, given, at, chan, body, ctx, notice, sent>>

\* The request cannot be built or sent, or is cancelled.
PostErr(p) ==
    /\ Move(p, "posting", "refused")
    /\ UNCHANGED <<clockVars, given, at, chan, body, ctx, notice, sent, began>>

Answer(p) ==
    /\ phase[p] = "posting"
    /\ \E to \in {"scanning", "badStatus"} : phase' = [phase EXCEPT ![p] = to]
    /\ body' = [body EXCEPT ![p] = TRUE]
    /\ UNCHANGED <<clockVars, given, at, chan, ctx, notice, sent, began>>

\* A status other than 200: a bounded read for the error, then Close.
BadStatus(p) ==
    /\ Move(p, "badStatus", "refused")
    /\ body' = [body EXCEPT ![p] = FALSE]
    /\ UNCHANGED <<clockVars, given, at, chan, ctx, notice, sent, began>>

\* One Scan, the check of ctx and what becomes of the line.
AfterLine(kind) ==
    CASE kind = "chunk" -> "sending"
      [] kind = "done" -> "returning"
      [] OTHER -> "scanning"
Scan(p) ==
    /\ phase[p] = "scanning"
    /\ \/ /\ ctx[p] \/ at[p] = Len(script[p])
          /\ phase' = [phase EXCEPT ![p] = "returning"]
          /\ UNCHANGED at
       \/ /\ ~ctx[p] /\ at[p] < Len(script[p])
          /\ phase' = [phase EXCEPT ![p] = AfterLine(script[p][at[p] + 1])]
          /\ at' = [at EXCEPT ![p] = @ + 1]
    /\ UNCHANGED <<clockVars, given, chan, body, ctx, notice, sent, began>>

-----------------------------------------------------------------------------
(* FakeBackend.                                                            *)

Play(p) ==
    /\ ~http[p]
    /\ Move(p, "unasked", IF script[p].startErr THEN "refused" ELSE "begin")
    /\ began' = [began EXCEPT ![p] = now]
    /\ UNCHANGED <<clockVars, given, at, chan, body, ctx, notice, sent>>

\* The wait before the first token and between tokens, if there is one.
Wait(p) ==
    /\ phase[p] \in {"begin", "between"} /\ Delay(p) > 0
    /\ After(p, Delay(p))
    /\ phase' = [phase EXCEPT ![p] = "waiting"]
    /\ UNCHANGED <<given, at, chan, body, ctx, notice, sent, began>>

NoWait(p) ==
    /\ phase[p] \in {"begin", "between"} /\ Delay(p) <= 0
    /\ phase' = [phase EXCEPT ![p] = "ready"]
    /\ UNCHANGED <<clockVars, given, at, chan, body, ctx, notice, sent, began>>

WaitOver(p) ==
    /\ Move(p, "waiting", "ready") /\ Receive(p)
    /\ UNCHANGED <<given, at, chan, body, ctx, notice, sent, began>>

GiveUpWait(p) ==
    /\ ctx[p] /\ Move(p, "waiting", Leaving(p))
    /\ UNCHANGED <<clockVars, given, at, chan, body, ctx, notice, sent, began>>

AllSent(p) ==
    /\ Move(p, "ready", Leaving(p)) /\ ~HasNext(p)
    /\ UNCHANGED <<clockVars, given, at, chan, body, ctx, notice, sent, began>>

\* The watcher, a goroutine of its own that outlives the stream.
OnCancel(p) ==
    /\ ~http[p] /\ phase[p] \notin {"unasked", "refused"}
    /\ ctx[p] /\ ~notice[p]
    /\ notice' = [notice EXCEPT ![p] = TRUE]
    /\ UNCHANGED <<clockVars, given, phase, at, chan, body, ctx, sent, began>>

-----------------------------------------------------------------------------
\* The engine's loop re-arms, stops and reads its timers.
Rearm(t) ==
    /\ \/ \E d \in Rearms : Reset(t, d)
       \/ Stop(t)
       \/ Receive(t)
    /\ UNCHANGED <<given, phase, at, chan, body, ctx, notice, sent, began>>

Clock ==
    /\ ClockNext
    /\ UNCHANGED <<given, phase, at, chan, body, ctx, notice, sent, began>>

HTTP(p) == Post(p) \/ PostErr(p) \/ Answer(p) \/ BadStatus(p) \/ Scan(p)
Fake(p) == Play(p) \/ Wait(p) \/ NoWait(p) \/ WaitOver(p) \/ GiveUpWait(p) \/ AllSent(p)
Return(p) == CloseBody(p) \/ CloseChan(p)

Next ==
    \/ \E p \in Producers :
         \/ HTTP(p) \/ Fake(p) \/ OnCancel(p)
         \/ Send(p) \/ GiveUpSend(p) \/ Return(p)
         \/ Take(p) \/ Cancel(p)
    \/ \E t \in Owners : Rearm(t)
    \/ Clock

\* A goroutine that can go on does, and net/http ends what is cancelled.  No
\* upstream need ever answer, nobody need read, and time need not pass.
Fairness ==
    \A p \in Producers :
        /\ WF_vars(Return(p) \/ NoWait(p) \/ Wait(p) \/ AllSent(p))
        /\ WF_vars(ctx[p] /\ (PostErr(p) \/ BadStatus(p) \/ Scan(p)
                              \/ GiveUpWait(p) \/ GiveUpSend(p)))

Spec == Init /\ [][Next]_vars /\ Fairness

-----------------------------------------------------------------------------
(* Properties.                                                             *)

\* Every variable keeps its type; a channel holds one chunk at most.
TypeOK ==
    /\ ClockTypeOK
    /\ http \in [Producers -> BOOLEAN]
    /\ phase \in [Producers ->
         {"unasked", "posting", "badStatus", "refused", "scanning", "sending",
          "begin", "waiting", "between", "ready", "returning", "closing", "closed"}]
    /\ at \in [Producers -> Nat] /\ sent \in [Producers -> Nat]
    /\ chan \in [Producers -> Seq(Nat)] /\ \A p \in Producers : Len(chan[p]) <= 1
    /\ body \in [Producers -> BOOLEAN] /\ ctx \in [Producers -> BOOLEAN]
    /\ notice \in [Producers -> BOOLEAN] /\ began \in [Producers -> 0 .. MaxNow]

\* What an upstream says: its well-formed chunks, up to [DONE].
Said(lines) ==
    {n \in 1 .. Len(lines) : lines[n] = "chunk" /\ \A m \in 1 .. n : lines[m] # "done"}
SaidBy(lines, n) == Said(lines) \cap 1 .. n
Says(lines) ==
    [k \in 1 .. Cardinality(Said(lines)) |->
        CHOOSE n \in Said(lines) : Cardinality(SaidBy(lines, n)) = k]
\* What a fake was told to say.
Told(s) ==
    IF s.failAfter \in 1 .. s.tokens - 1
    THEN [n \in 1 .. s.failAfter |-> n]
    ELSE [n \in 1 .. s.tokens |-> n] \o IF s.emitFinish THEN <<0>> ELSE <<>>

StreamIs(p) ==
    CASE phase[p] \in {"unasked", "refused", "closed"} -> phase[p]
      [] phase[p] \in {"posting", "badStatus"} -> "starting"
      [] OTHER -> "open"

Stream == INSTANCE HedgeProducer
    WITH want <- [p \in Producers |-> IF http[p] THEN Says(script[p])
                                      ELSE Told(script[p])],
         state <- [p \in Producers |-> StreamIs(p)],
         queue <- chan, connected <- body, cancelled <- ctx

\* Both backends keep the send contract: what the upstream said arrives in
\* order and whole unless cancelled, nothing follows the close, and when
\* Stream has failed or the channel is closed no response body is left open.
KeepsSendContract == Stream!Spec

\* A loser whose reader has gone ends all the same, wherever the cancellation
\* meets it: dialing, reading, waiting for its delay or blocked in a send.
CancelledStreamEnds == Stream!Ends

\* The scripted timing of a fake holds on either clock: no token is sent before
\* its delay has passed since the stream began.
TokensOnTime ==
    \A p \in Producers :
        LET s == script[p]
            n == IF ~http[p] /\ sent[p] > Limit(s) THEN Limit(s) ELSE sent[p]
        IN ~http[p] /\ n > 0 => now >= began[p] + s.first + (n - 1) * s.inter
=============================================================================
