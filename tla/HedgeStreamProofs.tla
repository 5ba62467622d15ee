------------------------- MODULE HedgeStreamProofs -------------------------
(***************************************************************************)
(* Machine-checked proofs about what a run relays and reports: the order   *)
(* of the fan-in queue, the winner's stream and its end, and what is said  *)
(* of those who did not win; and the proof that HedgeRun implements        *)
(* HedgeContract.                                                          *)
(***************************************************************************)
EXTENDS HedgeRunRefinement, HedgeRunProofs, SequenceTheorems

USE RunAssumption

-----------------------------------------------------------------------------
(* Where backend i's chunks are: 1 .. Sent(i) went to the queue (or, once  *)
(* the forwarder gave up, nowhere), then at most one is in the forwarder's *)
(* hand and at most one in the channel.                                    *)

InChannel(i) == IF ch[i] # 0 THEN 1 ELSE 0
InHand(i) == IF hand[i] # 0 THEN 1 ELSE 0
Sent(i) == Len(script[i]) - InChannel(i) - InHand(i)

Queued(i, k) == \E p \in 1 .. Len(events) : events[p].idx = i /\ events[p].chunk = k
Silent(i) == \A k \in 1 .. Len(script[i]) : ~script[i][k]

\* The forwarder dropped nothing: it runs, or its close event is on its way.
Whole(i) == fwd[i] \in {"off", "idle", "holding", "closing"} \/ Queued(i, 0)

\* The winner's chunk that the sink is to be given next.
Expected == first.chunk + (IF log = <<>> THEN 1 ELSE Len(log))

-----------------------------------------------------------------------------
(* The inductive invariant, by concern.                                    *)

Cell(i) ==
    /\ fwd[i] = "off" <=> prod[i] = "off"
    /\ i > started \/ (pc = "dialing" /\ i = started) => fwd[i] = "off"
    /\ fwd[i] = "off" => script[i] = <<>>
    /\ Len(script[i]) <= MaxChunks
    /\ fwd[i] \in {"off", "closing", "done"} => ch[i] = 0
    /\ fwd[i] = "holding" <=> hand[i] # 0
    /\ ch[i] # 0 => ch[i] = Len(script[i])
    /\ hand[i] # 0 => hand[i] + InChannel(i) = Len(script[i])
CellInv == \A i \in Backends : Cell(i)

\* A backend's chunks stand in the queue in order, its close event behind them.
OrderInv ==
    /\ \A p, q \in 1 .. Len(events) :
         p < q /\ events[p].idx = events[q].idx =>
           /\ events[p].chunk > 0
           /\ events[q].chunk > events[p].chunk \/ events[q].chunk = 0
    /\ \A p \in 1 .. Len(events) :
         /\ fwd[events[p].idx] # "off"
         /\ events[p].chunk = 0 => fwd[events[p].idx] = "done"

\* Backend i's chunks in the queue are lo .. hi: none is missing in between,
\* up to the last one sent if nothing was dropped.  Those before lo have been
\* received, and did not win; the winner's are received in relaying order.
Lane(i, lo, hi) ==
    /\ lo <= hi + 1 /\ hi <= Sent(i)
    /\ \A k \in 1 .. MaxChunks : Queued(i, k) <=> lo <= k /\ k <= hi
    /\ Whole(i) => hi = Sent(i)
    /\ winner = 0 => \A k \in 1 .. lo - 1 : ~script[i][k]
    /\ pc \in {"committing", "relaying"} /\ i = winner => lo = Expected
LaneInv ==
    \A i \in Backends :
      \E lo \in 1 .. MaxChunks + 1, hi \in 0 .. MaxChunks : Lane(i, lo, hi)

\* The race loop has heard a backend close only after all it had to say.
HeardInv == \A i \in closed : prod[i] = "closed" /\ Silent(i)

RelayInv ==
    /\ RelayIsOneStream
    /\ winner # 0 => first.chunk \in 1 .. Len(script[winner])
    /\ pc = "relaying" => log # <<>>

\* What an error and a result mean.
OutcomeInv ==
    /\ err # "none" => pc \in {"unwinding", "waiting", "returned"}
    /\ err = "sink" => winner # 0
    /\ err = "nil" /\ winner # 0 =>
         prod[winner] = "closed" /\ log # <<>> /\ Expected = Len(script[winner]) + 1
    /\ err = "nil" /\ winner = 0 /\ timeout # "fired" => NoPathToWinner
    /\ result # "pending" <=> pc = "returned"
    /\ result = "ok" => err = "nil" /\ winner # 0
    /\ result = "allFailed" => err = "nil" /\ winner = 0

\* While the client stays, a backend ends by itself until somebody cancels it.
BlameInv ==
    /\ cancelledAll => pc \in {"waiting", "returned"}
    /\ failed \subseteq closed
    /\ pc \in {"start", "dialing", "racing"} => cancelled \subseteq failed
    /\ ~clientGone => closed \subseteq endedAlone
    /\ ~clientGone /\ pc \in {"start", "dialing", "racing"} =>
         \A i \in Backends : prod[i] = "closed" => i \in endedAlone

StreamInv == CellInv /\ OrderInv /\ LaneInv /\ HeardInv /\ RelayInv /\ OutcomeInv
             /\ BlameInv

\* The initial state has nothing in the queue and nothing to report.
LEMMA StreamInit == Init => StreamInv
<1> SUFFICES ASSUME Init PROVE StreamInv
  OBVIOUS
<1> USE DEF Init
<1>1. \A i \in Backends : script[i] = <<>> /\ Len(script[i]) = 0 /\ Sent(i) = 0
  BY DEF Sent, InChannel, InHand
<1>2. CellInv
  BY <1>1 DEF CellInv, Cell, InChannel, Backends
<1>3. OrderInv /\ HeardInv /\ RelayInv /\ OutcomeInv /\ BlameInv
  BY DEF OrderInv, HeardInv, RelayInv, RelayIsOneStream, OutcomeInv, BlameInv,
         winner, NoEvent
<1>4. \A i \in Backends : Lane(i, 1, 0)
  <2>1. \A i \in Backends, k \in 0 .. MaxChunks : ~Queued(i, k)
    BY DEF Queued
  <2> QED
    BY <1>1, <2>1 DEF Lane
<1>5. LaneInv
  <2>1. 1 \in 1 .. MaxChunks + 1 /\ 0 \in 0 .. MaxChunks
    OBVIOUS
  <2> QED
    BY <1>4, <2>1 DEF LaneInv
<1> QED
  BY <1>2, <1>3, <1>5 DEF StreamInv

-----------------------------------------------------------------------------
(* The queue.                                                              *)

\* Receiving takes the first event and moves the others up.
LEMMA QueueReceive ==
    ASSUME TypeOK, Receive
    PROVE  /\ Len(events) \in Nat \ {0} /\ Len(events') = Len(events) - 1
           /\ Head(events) = events[1]
           /\ \A p \in 1 .. Len(events) : events[p] \in Event
           /\ \A p \in 1 .. Len(events') : events'[p] = events[p + 1]
<1>1. events \in Seq(Event) /\ events # <<>> /\ events' = Tail(events)
  BY DEF TypeOK, PipeType, Receive
<1> QED
  BY <1>1, LenProperties, EmptySeq, HeadTailProperties, ElementOfSeq

\* Sending puts an event behind the others.
LEMMA QueueSend ==
    ASSUME TypeOK, NEW e \in Event, events' = Append(events, e)
    PROVE  /\ Len(events) \in Nat /\ Len(events') = Len(events) + 1
           /\ \A p \in 1 .. Len(events) : events[p] \in Event /\ events'[p] = events[p]
           /\ events'[Len(events) + 1] = e
<1>1. events \in Seq(Event)
  BY DEF TypeOK, PipeType
<1> QED
  BY <1>1, LenProperties, AppendProperties, ElementOfSeq

\* An event is received once: no other like it is in the queue.
LEMMA QueuedAfterReceive ==
    ASSUME TypeOK, OrderInv, Receive, NEW i, NEW k
    PROVE  Queued(i, k)' <=>
             Queued(i, k) /\ ~(i = Head(events).idx /\ k = Head(events).chunk)
<1>q. /\ Len(events) \in Nat \ {0} /\ Len(events') = Len(events) - 1
      /\ Head(events) = events[1]
      /\ \A p \in 1 .. Len(events') : events'[p] = events[p + 1]
  BY QueueReceive
<1>1. ASSUME Queued(i, k)'
      PROVE  Queued(i, k) /\ ~(i = events[1].idx /\ k = events[1].chunk)
  <2>1. PICK p \in 1 .. Len(events') : events'[p].idx = i /\ events'[p].chunk = k
    BY <1>1 DEF Queued
  <2>2. /\ p + 1 \in 1 .. Len(events) /\ 1 \in 1 .. Len(events) /\ 1 < p + 1
        /\ events[p + 1].idx = i /\ events[p + 1].chunk = k
    BY <1>q, <2>1
  <2>3. Queued(i, k)
    BY <2>2 DEF Queued
  <2>4. \A q \in Int : ~(q > 0 /\ (q > q \/ q = 0))
    OBVIOUS
  <2>5. i = events[1].idx => k # events[1].chunk
    <3> SUFFICES ASSUME i = events[1].idx, k = events[1].chunk PROVE FALSE
      OBVIOUS
    <3>1. k > 0 /\ (k > k \/ k = 0)
      BY <2>2 DEF OrderInv
    <3>2. k \in Int
      BY <1>q, QueueReceive DEF Event
    <3> QED
      BY <2>4, <3>1, <3>2
  <2> QED
    BY <2>3, <2>5
<1>2. ASSUME Queued(i, k), ~(i = events[1].idx /\ k = events[1].chunk)
      PROVE  Queued(i, k)'
  <2>1. PICK p \in 1 .. Len(events) : events[p].idx = i /\ events[p].chunk = k
    BY <1>2 DEF Queued
  <2>2. p # 1 /\ p - 1 \in 1 .. Len(events') /\ events'[p - 1] = events[p]
    <3>1. p # 1
      BY <1>2, <2>1
    <3>2. p - 1 \in 1 .. Len(events') /\ (p - 1) + 1 = p
      BY <1>q, <2>1, <3>1
    <3> QED
      BY <1>q, <3>1, <3>2
  <2> QED
    BY <2>1, <2>2 DEF Queued
<1> QED
  BY <1>q, <1>1, <1>2

\* Sending adds its event and no other.
LEMMA QueuedAfterSend ==
    ASSUME TypeOK, NEW e \in Event, events' = Append(events, e), NEW i, NEW k
    PROVE  Queued(i, k)' <=> Queued(i, k) \/ (i = e.idx /\ k = e.chunk)
<1>q. /\ Len(events) \in Nat /\ Len(events') = Len(events) + 1
      /\ \A p \in 1 .. Len(events) : events'[p] = events[p]
      /\ events'[Len(events) + 1] = e
  BY QueueSend
<1>1. ASSUME Queued(i, k)' PROVE Queued(i, k) \/ (i = e.idx /\ k = e.chunk)
  <2>1. PICK p \in 1 .. Len(events') : events'[p].idx = i /\ events'[p].chunk = k
    BY <1>1 DEF Queued
  <2>2. p \in 1 .. Len(events) \/ p = Len(events) + 1
    BY <1>q, <2>1
  <2> QED
    BY <1>q, <2>1, <2>2 DEF Queued
<1>2. ASSUME Queued(i, k) PROVE Queued(i, k)'
  <2>1. PICK p \in 1 .. Len(events) : events[p].idx = i /\ events[p].chunk = k
    BY <1>2 DEF Queued
  <2> QED
    BY <1>q, <2>1 DEF Queued
<1>3. ASSUME i = e.idx, k = e.chunk PROVE Queued(i, k)'
  BY <1>q, <1>3, SMTT(30) DEF Queued
<1> QED
  BY <1>1, <1>2, <1>3

-----------------------------------------------------------------------------
(* Cells and order.                                                        *)

\* The race loop never reaches into a forwarder or a producer, except to start
\* them.
LEMMA LoopFrame ==
    ASSUME StartPrimary \/ Racing \/ Relaying \/ Unwinding \/ Environment
           \/ Terminated
    PROVE  UNCHANGED <<fwd, hand, prod, ch, script, endedAlone>>
<1> USE DEF fwdVars, streamVars
<1>1. CASE Racing
  BY <1>1, DiscardFrame
  DEF Racing, RaceNoPath, RaceCtxDone, RaceTimeout, RaceFire, RaceClose,
      RaceDiscard, RaceWin
<1>2. CASE Relaying
  BY <1>2
  DEF Relaying, CommitOk, CommitErr, RelayCtxDone, RelayDiscard, RelayEnd,
      RelayChunk
<1>3. CASE StartPrimary \/ Unwinding
  BY <1>3 DEF StartPrimary, Unwinding, CancelAll, WaitAndReturn
<1>4. CASE Environment \/ Terminated
  BY <1>4, EnvironmentFrame DEF Terminated, vars
<1> QED
  BY <1>1, <1>2, <1>3, <1>4

\* What the loop does to the number of attempts.
LEMMA AttemptFrame ==
    ASSUME StartPrimary \/ Racing \/ Relaying \/ Unwinding \/ Environment
           \/ Terminated
    PROVE  \/ Reserve
           \/ /\ UNCHANGED <<started, failed>>
              /\ pc' = "dialing" => pc = "dialing"
<1> USE DEF bookVars
<1>1. CASE Racing
  BY <1>1, DiscardFrame
  DEF Racing, RaceNoPath, RaceCtxDone, RaceTimeout, RaceFire, RaceClose,
      RaceWin, Leave
<1>2. CASE Relaying
  BY <1>2, DiscardFrame
  DEF Relaying, CommitOk, CommitErr, RelayCtxDone, RelayEnd, RelayChunk, Leave
<1>3. CASE StartPrimary \/ Unwinding
  BY <1>3 DEF StartPrimary, Unwinding, CancelAll, WaitAndReturn
<1>4. CASE Environment \/ Terminated
  BY <1>4, EnvironmentFrame DEF Terminated, vars
<1> QED
  BY <1>1, <1>2, <1>3, <1>4

\* Every step keeps each backend's cells in agreement.
LEMMA CellStep ==
    ASSUME TypeOK, PhaseInv, TearInv, CellInv, Next
    PROVE  CellInv'
<1> USE DEF CellInv, Cell, InChannel
<1>t. /\ fwd \in [Backends -> {"off", "idle", "holding", "closing", "draining",
                              "done"}]
      /\ prod \in [Backends -> {"off", "running", "closed"}]
      /\ ch \in [Backends -> 0 .. MaxChunks]
      /\ hand \in [Backends -> 0 .. MaxChunks]
      /\ script \in [Backends -> Seq(BOOLEAN)]
      /\ started \in 0 .. NB
      /\ pc = "dialing" => started \in Backends
  BY SMTT(30) DEF TypeOK, PipeType, BookType, PhaseInv, Backends
<1>l. \A i \in Backends : Len(script[i]) \in Nat /\ i \in Int
  BY <1>t, LenProperties DEF Backends
<1>p. \A i \in Backends : fwd[i] \in {"closing", "done"} => prod[i] = "closed"
  BY DEF TearInv
<1>1. CASE StartPrimary \/ Racing \/ Relaying \/ Unwinding \/ Environment
           \/ Terminated
  <2>1. UNCHANGED <<fwd, hand, prod, ch, script>>
    BY <1>1, LoopFrame
  <2>2. \A i \in Backends : i > started' \/ (pc' = "dialing" /\ i = started')
                              => i > started \/ (pc = "dialing" /\ i = started)
    BY <1>1, <1>t, <1>l, AttemptFrame DEF Reserve
  <2> QED
    BY <2>1, <2>2
<1>2. CASE DialOk
  <2>1. /\ pc = "dialing" /\ started \in Backends /\ pc' = "racing"
        /\ prod' = [prod EXCEPT ![started] = "running"]
        /\ fwd' = [fwd EXCEPT ![started] = "idle"]
        /\ UNCHANGED <<started, hand, ch, script>>
    BY <1>2, <1>t DEF DialOk, EnterLoop, bookVars
  <2>2. /\ fwd'[started] = "idle" /\ prod'[started] = "running"
        /\ fwd[started] = "off" /\ hand[started] = 0 /\ ch[started] = 0
        /\ script[started] = <<>>
    BY <1>t, <2>1
  <2>3. \A i \in Backends \ {started} : fwd'[i] = fwd[i] /\ prod'[i] = prod[i]
    BY <1>t, <2>1
  <2> SUFFICES ASSUME NEW i \in Backends PROVE Cell(i)'
    BY DEF CellInv
  <2>4. CASE i = started
    BY <1>t, <1>l, <2>1, <2>2, <2>4
  <2>5. CASE i # started
    BY <1>t, <1>l, <2>1, <2>3, <2>5
  <2> QED
    BY <2>4, <2>5
<1>3. CASE DialErr
  <2>1. /\ pc = "dialing" /\ started \in Backends /\ pc' = "racing"
        /\ prod' = [prod EXCEPT ![started] = "closed"]
        /\ fwd' = [fwd EXCEPT ![started] = "closing"]
        /\ UNCHANGED <<started, hand, ch, script>>
    BY <1>3, <1>t DEF DialErr, EnterLoop
  <2>2. /\ fwd'[started] = "closing" /\ prod'[started] = "closed"
        /\ fwd[started] = "off" /\ hand[started] = 0 /\ ch[started] = 0
        /\ script[started] = <<>>
    BY <1>t, <2>1
  <2>3. \A i \in Backends \ {started} : fwd'[i] = fwd[i] /\ prod'[i] = prod[i]
    BY <1>t, <2>1
  <2> SUFFICES ASSUME NEW i \in Backends PROVE Cell(i)'
    BY DEF CellInv
  <2>4. CASE i = started
    BY <1>t, <1>l, <2>1, <2>2, <2>4
  <2>5. CASE i # started
    BY <1>t, <1>l, <2>1, <2>3, <2>5
  <2> QED
    BY <2>4, <2>5
<1>4. ASSUME NEW i \in Backends, Forwarder(i) \/ Producer(i)
      PROVE  CellInv'
  <2>0. UNCHANGED <<pc, started>>
    BY <1>4, BackgroundFrame DEF bookVars
  <2>a. ASSUME NEW j \in Backends, j # i
        PROVE  /\ fwd'[j] = fwd[j] /\ hand'[j] = hand[j] /\ prod'[j] = prod[j]
               /\ ch'[j] = ch[j] /\ script'[j] = script[j]
    BY <1>4, <1>t, <2>a
    DEF Forwarder, Producer, FwdTake, FwdSend, FwdSeeClose, FwdSendClose,
        FwdCloseSkip, FwdCancelled, FwdDrain, FwdDrained, Produce, ProducerEnd,
        fwdVars, streamVars
  <2>1. CASE FwdTake(i)
    BY <2>0, <2>1, <1>t, <1>l DEF FwdTake
  <2>2. CASE FwdSend(i)
    BY <2>0, <2>2, <1>t, <1>l DEF FwdSend, streamVars
  <2>3. CASE FwdSeeClose(i) \/ FwdSendClose(i) \/ FwdCloseSkip(i) \/ FwdDrained(i)
    <3>1. /\ fwd[i] \in {"idle", "closing", "draining"} /\ ch[i] = 0
          /\ UNCHANGED <<hand, prod, ch, script>>
      BY <2>3 DEF FwdSeeClose, FwdSendClose, FwdCloseSkip, FwdDrained, streamVars
    <3>2. fwd' \in {[fwd EXCEPT ![i] = "closing"], [fwd EXCEPT ![i] = "done"]}
      BY <2>3 DEF FwdSeeClose, FwdSendClose, FwdCloseSkip, FwdDrained
    <3> QED
      BY <2>0, <1>t, <1>l, <3>1, <3>2, ZenonT(30)
  <2>4. CASE FwdCancelled(i)
    BY <2>0, <2>4, <1>t, <1>l DEF FwdCancelled, streamVars
  <2>5. CASE FwdDrain(i)
    BY <2>0, <2>5, <1>t, <1>l DEF FwdDrain, fwdVars
  <2>6. CASE Produce(i)
    <3>1. PICK usable \in BOOLEAN :
            script' = [script EXCEPT ![i] = Append(@, usable)]
      BY <2>6 DEF Produce
    <3>2. Len(script'[i]) = Len(script[i]) + 1
      BY <1>t, <3>1, AppendProperties
    <3>3. fwd[i] \notin {"off", "closing", "done"}
      BY <2>6, <1>p DEF Produce
    <3>4. /\ UNCHANGED <<fwd, hand, prod>> /\ ch[i] = 0
          /\ ch' = [ch EXCEPT ![i] = Len(script[i]) + 1]
          /\ Len(script[i]) < MaxChunks
      BY <2>6 DEF Produce, fwdVars
    <3>5. script'[i] # <<>>
      BY <1>t, <3>1, AppendProperties
    <3>6. /\ i <= started /\ ~(pc = "dialing" /\ i = started)
          /\ hand[i] # 0 => hand[i] = Len(script[i])
      BY <1>t, <1>l, <3>3, <3>4
    <3>7. ch'[i] = Len(script[i]) + 1
      BY <1>t, <3>4
    <3>8. ASSUME NEW j \in Backends
          PROVE  CellInv!(j)'
      <4>1. CASE j = i
        BY <2>0, <1>t, <1>l, <3>2, <3>3, <3>4, <3>5, <3>6, <3>7, <4>1
      <4>2. CASE j # i
        BY <2>0, <2>a, <4>2
      <4> QED
        BY <4>1, <4>2
    <3> QED
      BY <3>8
  <2>7. CASE ProducerEnd(i)
    BY <2>0, <2>7, <1>t, <1>l DEF ProducerEnd, fwdVars
  <2> QED
    BY <1>4, <2>1, <2>2, <2>3, <2>4, <2>5, <2>6, <2>7 DEF Forwarder, Producer
<1> QED
  BY <1>1, <1>2, <1>3, <1>4 DEF Next, Dialing

\* Every step keeps the queue's events of each backend in order.
LEMMA OrderStep ==
    ASSUME TypeOK, PhaseInv, CellInv, OrderInv, LaneInv, Next
    PROVE  OrderInv'
<1>t. /\ fwd \in [Backends -> {"off", "idle", "holding", "closing", "draining",
                              "done"}]
      /\ hand \in [Backends -> 0 .. MaxChunks]
      /\ script \in [Backends -> Seq(BOOLEAN)]
      /\ pc = "dialing" => started \in Backends
      /\ Len(events) \in Nat
      /\ \A p \in 1 .. Len(events) : events[p] \in Event
  BY LenProperties, ElementOfSeq, SMTT(30)
  DEF TypeOK, PipeType, BookType, PhaseInv, Backends
<1>f. ASSUME UNCHANGED events,
             \A i \in Backends : /\ fwd[i] # "off" => fwd'[i] # "off"
                                 /\ fwd[i] = "done" => fwd'[i] = "done"
      PROVE  OrderInv'
  BY <1>f, <1>t DEF OrderInv, Event
<1>r. ASSUME Receive, UNCHANGED fwd
      PROVE  OrderInv'
  <2>1. /\ Len(events') = Len(events) - 1
        /\ \A p \in 1 .. Len(events') : events'[p] = events[p + 1]
    BY <1>r, QueueReceive
  <2>2. \A p \in 1 .. Len(events') : p + 1 \in 1 .. Len(events)
    BY <1>t, <2>1
  <2>3. ASSUME NEW p \in 1 .. Len(events'), NEW q \in 1 .. Len(events'), p < q,
               events'[p].idx = events'[q].idx
        PROVE  /\ events'[p].chunk > 0
               /\ events'[q].chunk > events'[p].chunk \/ events'[q].chunk = 0
    <3>1. p + 1 \in 1 .. Len(events) /\ q + 1 \in 1 .. Len(events) /\ p + 1 < q + 1
      BY <1>t, <2>1, <2>2, <2>3
    <3>2. events[p + 1].idx = events[q + 1].idx
      BY <2>1, <2>3
    <3>3. /\ events[p + 1].chunk > 0
          /\ events[q + 1].chunk > events[p + 1].chunk \/ events[q + 1].chunk = 0
      BY <3>1, <3>2 DEF OrderInv
    <3> QED
      BY <2>1, <3>3
  <2>4. ASSUME NEW p \in 1 .. Len(events')
        PROVE  /\ fwd'[events'[p].idx] # "off"
               /\ events'[p].chunk = 0 => fwd'[events'[p].idx] = "done"
    BY <1>r, <2>1, <2>2 DEF OrderInv
  <2> QED
    BY <2>3, <2>4 DEF OrderInv
<1>1. CASE StartPrimary \/ Racing \/ Relaying \/ Unwinding \/ Environment
           \/ Terminated
  <2>1. UNCHANGED fwd
    BY <1>1, LoopFrame
  <2>2. UNCHANGED events \/ Receive
    BY <1>1, EnvironmentFrame
    DEF StartPrimary, Racing, RaceNoPath, RaceCtxDone, RaceTimeout, RaceFire,
        RaceClose, RaceDiscard, RaceWin, Relaying, CommitOk, CommitErr,
        RelayCtxDone, RelayDiscard, RelayEnd, RelayChunk, Unwinding, CancelAll,
        WaitAndReturn, Terminated, vars, fwdVars
  <2> QED
    BY <1>f, <1>r, <2>1, <2>2
<1>2. CASE DialOk \/ DialErr
  <2>1. fwd[started] = "off" /\ UNCHANGED events
    BY <1>2, <1>t DEF DialOk, DialErr, CellInv, Cell
  <2>2. fwd' \in {[fwd EXCEPT ![started] = "idle"], [fwd EXCEPT ![started] = "closing"]}
    BY <1>2 DEF DialOk, DialErr
  <2> QED
    BY <1>f, <1>t, <2>1, <2>2
<1>3. ASSUME NEW i \in Backends, Producer(i)
      PROVE  OrderInv'
  BY <1>3, <1>f DEF Producer, Produce, ProducerEnd, fwdVars
<1>4. ASSUME NEW i \in Backends,
             FwdTake(i) \/ FwdSeeClose(i) \/ FwdCloseSkip(i) \/ FwdCancelled(i)
             \/ FwdDrain(i) \/ FwdDrained(i)
      PROVE  OrderInv'
  BY <1>4, <1>f, <1>t
  DEF FwdTake, FwdSeeClose, FwdCloseSkip, FwdCancelled, FwdDrain, FwdDrained,
      fwdVars
<1>5. ASSUME NEW i \in Backends, NEW e \in Event, e.idx = i,
             events' = Append(events, e),
             fwd[i] # "off", fwd[i] # "done",
             e.chunk = 0 => fwd'[i] = "done",
             \A j \in Backends : fwd'[j] # fwd[j] => j = i /\ fwd'[j] # "off",
             \A p \in 1 .. Len(events) :
               events[p].idx = i => e.chunk > events[p].chunk \/ e.chunk = 0
      PROVE  OrderInv'
  <2>1. /\ Len(events') = Len(events) + 1
        /\ \A p \in 1 .. Len(events) : events'[p] = events[p]
        /\ events'[Len(events) + 1] = e
    BY <1>5, QueueSend
  <2>2. \A p \in 1 .. Len(events) : events[p].idx \in Backends /\ events[p].chunk \in Nat
    BY <1>t DEF Event
  <2>3. \A p \in 1 .. Len(events) : events[p].idx = i => events[p].chunk > 0
    BY <1>5, <2>2 DEF OrderInv
  <2>4. ASSUME NEW p \in 1 .. Len(events'), NEW q \in 1 .. Len(events'), p < q,
               events'[p].idx = events'[q].idx
        PROVE  /\ events'[p].chunk > 0
               /\ events'[q].chunk > events'[p].chunk \/ events'[q].chunk = 0
    <3>1. p \in 1 .. Len(events) /\ events'[p] = events[p]
      BY <1>t, <2>1, <2>4
    <3>2. CASE q \in 1 .. Len(events)
      BY <2>1, <2>4, <3>1, <3>2, SMTT(30) DEF OrderInv
    <3>3. CASE q = Len(events) + 1
      BY <1>5, <2>1, <2>3, <2>4, <3>1, <3>3
    <3> QED
      BY <1>t, <2>1, <3>2, <3>3
  <2>5. ASSUME NEW p \in 1 .. Len(events')
        PROVE  /\ fwd'[events'[p].idx] # "off"
               /\ events'[p].chunk = 0 => fwd'[events'[p].idx] = "done"
    <3>1. CASE p \in 1 .. Len(events)
      <4>1. /\ fwd[events[p].idx] # "off"
            /\ events[p].chunk = 0 => fwd[events[p].idx] = "done"
        BY <3>1 DEF OrderInv
      <4> QED
        BY <1>5, <2>1, <2>2, <2>3, <3>1, <4>1
    <3>2. CASE p = Len(events) + 1
      BY <1>5, <2>1, <3>2
    <3> QED
      BY <1>t, <2>1, <3>1, <3>2
  <2> QED
    BY <2>4, <2>5 DEF OrderInv
<1>6. ASSUME NEW i \in Backends, FwdSend(i)
      PROVE  OrderInv'
  <2>1. /\ fwd[i] = "holding" /\ hand[i] # 0
        /\ hand[i] + InChannel(i) = Len(script[i]) /\ Len(script[i]) \in Nat
    BY <1>6, <1>t, LenProperties DEF FwdSend, CellInv, Cell
  <2>2. Sent(i) = hand[i] - 1
    BY <1>t, <2>1 DEF Sent, InHand, InChannel
  <2>3. PICK lo \in 1 .. MaxChunks + 1, hi \in 0 .. MaxChunks : Lane(i, lo, hi)
    BY DEF LaneInv
  <2>4. \A p \in 1 .. Len(events) : events[p].idx = i => hand[i] > events[p].chunk
    <3> SUFFICES ASSUME NEW p \in 1 .. Len(events), events[p].idx = i
                 PROVE  hand[i] > events[p].chunk
      OBVIOUS
    <3>1. events[p].chunk \in 0 .. MaxChunks
      BY <1>t DEF Event
    <3>2. CASE events[p].chunk = 0
      BY <1>t, <2>1, <3>2
    <3>3. CASE events[p].chunk # 0
      <4>1. Queued(i, events[p].chunk) /\ events[p].chunk \in 1 .. MaxChunks
        BY <3>1, <3>3 DEF Queued
      <4>2. events[p].chunk <= hi /\ hi <= Sent(i)
        BY <2>3, <4>1 DEF Lane
      <4> QED
        BY <1>t, <2>1, <2>2, <2>3, <3>1, <4>2
    <3> QED
      BY <3>2, <3>3
  <2>5. [idx |-> i, chunk |-> hand[i]] \in Event
    BY <1>t DEF Event
  <2> QED
    BY <1>5, <1>6, <1>t, <2>1, <2>4, <2>5 DEF FwdSend
<1>7. ASSUME NEW i \in Backends, FwdSendClose(i)
      PROVE  OrderInv'
  <2>1. [idx |-> i, chunk |-> 0] \in Event
    BY DEF Event
  <2> QED
    BY <1>5, <1>7, <1>t, <2>1 DEF FwdSendClose
<1> QED
  BY <1>1, <1>2, <1>3, <1>4, <1>6, <1>7 DEF Next, Dialing, Forwarder

-----------------------------------------------------------------------------
(* Lanes.                                                                  *)

\* A step that leaves i's part of the queue alone leaves its lane as it was.
LEMMA LaneFrame ==
    ASSUME NEW i, NEW lo \in 1 .. MaxChunks + 1, NEW hi \in 0 .. MaxChunks,
           Lane(i, lo, hi), first' = first,
           \A k \in 1 .. MaxChunks : Queued(i, k)' <=> Queued(i, k),
           Sent(i) \in Int, Sent(i)' \in Int, Sent(i)' >= Sent(i),
           Whole(i)' => Whole(i) /\ Sent(i)' = Sent(i),
           \A k \in 1 .. lo - 1 : script'[i][k] = script[i][k],
           pc' \in {"committing", "relaying"} /\ i = winner =>
             pc \in {"committing", "relaying"} /\ Expected' = Expected
    PROVE  Lane(i, lo, hi)'
<1>1. winner' = winner
  BY DEF winner
<1>2. hi <= Sent(i)'
  BY DEF Lane
<1>3. winner' = 0 => \A k \in 1 .. lo - 1 : ~script'[i][k]
  BY <1>1 DEF Lane
<1> QED
  BY <1>1, <1>2, <1>3 DEF Lane

\* The number of chunks sent is an integer between 0 and the script's length.
LEMMA SentType ==
    ASSUME TypeOK, CellInv, NEW i \in Backends
    PROVE  /\ Sent(i) \in Int /\ Sent(i) <= Len(script[i])
           /\ Len(script[i]) \in Nat /\ Len(script[i]) <= MaxChunks
<1>1. script[i] \in Seq(BOOLEAN)
  BY DEF TypeOK, PipeType
<1>2. Len(script[i]) \in Nat /\ Len(script[i]) <= MaxChunks
  BY <1>1, LenProperties DEF CellInv, Cell
<1>3. InChannel(i) \in {0, 1} /\ InHand(i) \in {0, 1}
  BY DEF InChannel, InHand
<1> QED
  BY <1>2, <1>3 DEF Sent

\* What the race loop does, if it receives nothing.
LEMMA LaneQuiet ==
    ASSUME TypeOK, PhaseInv, CellInv, LaneInv, UNCHANGED <<events, first>>,
           UNCHANGED <<hand, ch, script>>,
           UNCHANGED fwd \/ DialOk \/ DialErr,
           pc' \in {"committing", "relaying"} /\ winner # 0 =>
             pc \in {"committing", "relaying"} /\ Expected' = Expected
    PROVE  LaneInv'
<1> SUFFICES ASSUME NEW i \in Backends
             PROVE  \E lo \in 1 .. MaxChunks + 1, hi \in 0 .. MaxChunks :
                      Lane(i, lo, hi)'
  BY DEF LaneInv
<1>1. PICK lo \in 1 .. MaxChunks + 1, hi \in 0 .. MaxChunks : Lane(i, lo, hi)
  BY DEF LaneInv
<1>2. Sent(i)' = Sent(i) /\ Sent(i) \in Int
  BY SentType DEF Sent, InChannel, InHand
<1>3. \A k \in 0 .. MaxChunks : Queued(i, k)' <=> Queued(i, k)
  BY DEF Queued
<1>4. Whole(i)' => Whole(i)
  <2>1. CASE UNCHANGED fwd
    BY <1>3, <2>1 DEF Whole
  <2>2. CASE DialOk \/ DialErr
    <3>1. fwd[started] = "off" /\ started \in Backends
      BY <2>2 DEF DialOk, DialErr, CellInv, Cell, TypeOK, BookType, PhaseInv, Backends
    <3>2. fwd' \in {[fwd EXCEPT ![started] = "idle"], [fwd EXCEPT ![started] = "closing"]}
      BY <2>2 DEF DialOk, DialErr
    <3> QED
      BY <1>3, <3>1, <3>2 DEF Whole, TypeOK, PipeType
  <2> QED
    BY <2>1, <2>2
<1>5. i = winner => winner # 0
  BY DEF Backends
<1>6. Lane(i, lo, hi)'
  BY <1>1, <1>2, <1>3, <1>4, <1>5, LaneFrame
<1> QED
  BY <1>6

\* A received chunk is the lowest of its lane, and a received close event is
\* the last of its backend: all it sent has been received.
LEMMA HeadOfLane ==
    ASSUME TypeOK, OrderInv, Receive, NEW lo \in 1 .. MaxChunks + 1,
           NEW hi \in 0 .. MaxChunks, Lane(Head(events).idx, lo, hi)
    PROVE  /\ Head(events).chunk > 0 => Head(events).chunk = lo /\ lo <= hi
           /\ Head(events).chunk = 0 => lo = hi + 1 /\ hi = Sent(Head(events).idx)
<1> DEFINE i == Head(events).idx
           k == Head(events).chunk
<1>q. /\ Len(events) \in Nat \ {0} /\ 1 \in 1 .. Len(events)
      /\ Head(events) = events[1]
      /\ i \in Backends /\ k \in 0 .. MaxChunks
  BY QueueReceive DEF Event
<1>0. Queued(i, k)
  BY <1>q DEF Queued
<1>1. \A m \in 1 .. MaxChunks : Queued(i, m) /\ m # k => k > 0 /\ m > k
  <2> SUFFICES ASSUME NEW m \in 1 .. MaxChunks, Queued(i, m), m # k
               PROVE  k > 0 /\ m > k
    OBVIOUS
  <2>1. PICK p \in 1 .. Len(events) : events[p].idx = i /\ events[p].chunk = m
    BY DEF Queued
  <2>2. p # 1 /\ 1 < p
    BY <1>q, <2>1
  <2> QED
    BY <1>q, <2>1, <2>2, SMTT(30) DEF OrderInv
<1>2. CASE k > 0
  <2>1. lo <= k /\ k <= hi
    BY <1>q, <1>0, <1>2 DEF Lane
  <2>2. Queued(i, lo) /\ lo \in 1 .. MaxChunks
    BY <1>q, <2>1 DEF Lane
  <2> QED
    BY <1>q, <1>1, <1>2, <2>1, <2>2
<1>3. CASE k = 0
  <2>1. \A m \in 1 .. MaxChunks : ~Queued(i, m)
    BY <1>1, <1>3
  <2>2. lo > hi
    <3> SUFFICES ASSUME lo <= hi PROVE FALSE
      OBVIOUS
    <3>1. lo \in 1 .. MaxChunks /\ Queued(i, lo)
      BY DEF Lane
    <3> QED
      BY <2>1, <3>1
  <2>3. Whole(i)
    BY <1>0, <1>3 DEF Whole
  <2> QED
    BY <1>3, <2>2, <2>3 DEF Lane
<1> QED
  BY <1>q, <1>2, <1>3

\* Receiving takes a chunk off its lane and leaves the other lanes alone.
LEMMA LaneReceive ==
    ASSUME TypeOK, PhaseInv, CellInv, OrderInv, LaneInv, Receive,
           RaceClose \/ RaceDiscard \/ RaceWin \/ RelayDiscard \/ RelayEnd
           \/ RelayChunk,
           pc = "relaying" => log # <<>>
    PROVE  LaneInv'
<1> DEFINE h == Head(events)
<1>f. UNCHANGED <<fwd, hand, ch, script>>
  BY LoopFrame DEF Racing, Relaying
<1>h. h \in Event /\ h.idx \in Backends /\ h.chunk \in 0 .. MaxChunks
  BY ReceiveType DEF TypeOK, PipeType, Event
<1>p. /\ pc \in {"racing", "relaying"}
      /\ pc = "racing" => winner = 0 /\ log = <<>>
      /\ pc = "relaying" => winner # 0
  BY DEF RaceClose, RaceDiscard, RaceWin, RelayDiscard, RelayEnd, RelayChunk,
         Select, PhaseInv, Decided
<1>w. /\ pc = "racing" /\ h.chunk > 0 =>
           (first' = first /\ ~script[h.idx][h.chunk]) \/ first' = h
      /\ pc = "racing" /\ h.chunk = 0 => first' = first
      /\ pc = "racing" /\ first' = first => pc' \in {"racing", "dialing"}
      /\ pc = "racing" /\ first' = h => log' = <<>>
      /\ pc = "relaying" => first' = first
  <2>1. CASE RaceClose
    BY <1>p, <2>1 DEF RaceClose, Select, Reserve, sinkVars
  <2>2. CASE RaceDiscard
    BY <1>p, <2>2, DiscardFrame DEF RaceDiscard, Select, Usable, sinkVars
  <2>3. CASE RaceWin
    BY <1>p, <1>h, <2>3 DEF RaceWin, Select, winner, Backends
  <2>4. CASE RelayDiscard \/ RelayEnd \/ RelayChunk
    BY <2>4 DEF RelayDiscard, RelayEnd, RelayChunk, sinkVars
  <2> QED
    BY <2>1, <2>2, <2>3, <2>4
<1>x. pc = "relaying" /\ pc' = "relaying" =>
        \/ h.idx # winner /\ log' = log
        \/ h.idx = winner /\ h.chunk > 0 /\ log' = Append(log, h)
  BY <1>h, <1>w DEF RaceClose, RaceDiscard, RaceWin, RelayDiscard, RelayEnd,
     RelayChunk, Select, FromWinner, Leave, sinkVars
<1>y. pc = "relaying" => pc' \in {"relaying", "unwinding"}
  BY DEF RaceClose, RaceDiscard, RaceWin, RelayDiscard, RelayEnd,
     RelayChunk, Select, Leave
<1> SUFFICES ASSUME NEW i \in Backends
             PROVE  \E lo \in 1 .. MaxChunks + 1, hi \in 0 .. MaxChunks :
                      Lane(i, lo, hi)'
  BY DEF LaneInv
<1>1. PICK lo \in 1 .. MaxChunks + 1, hi \in 0 .. MaxChunks : Lane(i, lo, hi)
  BY DEF LaneInv
<1>2. Sent(i)' = Sent(i) /\ Sent(i) \in Int
  BY <1>f, SentType DEF Sent, InChannel, InHand
<1>3. \A k \in 0 .. MaxChunks :
        Queued(i, k)' <=> Queued(i, k) /\ ~(i = h.idx /\ k = h.chunk)
  BY QueuedAfterReceive
<1>4. Whole(i)' => Whole(i)
  BY <1>f, <1>3 DEF Whole
<1>5. CASE i # h.idx \/ h.chunk = 0
  <2>1. \A k \in 1 .. MaxChunks : Queued(i, k)' <=> Queued(i, k)
    BY <1>3, <1>5
  <2>2. CASE first' = first
    <3>1. pc' \in {"committing", "relaying"} /\ i = winner =>
            pc \in {"committing", "relaying"} /\ Expected' = Expected
      BY <1>5, <1>p, <1>w, <1>x, <1>y, <2>2 DEF Expected
    <3> QED
      BY <1>1, <1>2, <1>4, <1>f, <2>1, <2>2, <3>1, LaneFrame
  <2>3. CASE first' # first
    <3>1. first' = h /\ h.chunk # 0 /\ winner' = h.idx
      BY <1>h, <1>p, <1>w, <2>3 DEF winner
    <3>2. winner' # 0 /\ i # winner'
      BY <1>5, <1>h, <3>1 DEF Backends
    <3> QED
      BY <1>1, <1>2, <1>4, <2>1, <3>2 DEF Lane
  <2> QED
    BY <2>2, <2>3
<1>6. CASE i = h.idx /\ h.chunk > 0
  <2>1. h.chunk = lo /\ lo <= hi
    BY <1>1, <1>6, HeadOfLane
  <2>2. lo + 1 \in 1 .. MaxChunks + 1 /\ lo + 1 <= hi + 1
    BY <2>1
  <2>3. \A k \in 1 .. MaxChunks : Queued(i, k)' <=> lo + 1 <= k /\ k <= hi
    BY <1>1, <1>3, <1>6, <2>1 DEF Lane
  <2>4. ASSUME winner' = 0
        PROVE  \A k \in 1 .. (lo + 1) - 1 : ~script'[i][k]
    <3>1. first' = first /\ pc = "racing" /\ winner = 0
      BY <1>h, <1>p, <1>w, <2>4 DEF winner, Backends
    <3>2. ~script[i][lo] /\ \A k \in 1 .. lo - 1 : ~script[i][k]
      BY <1>1, <1>6, <1>h, <1>w, <2>1, <2>4, <3>1 DEF Lane, winner, Backends
    <3>3. \A k \in 1 .. (lo + 1) - 1 : k = lo \/ k \in 1 .. lo - 1
      OBVIOUS
    <3> QED
      BY <1>f, <3>2, <3>3
  <2>5. ASSUME pc' \in {"committing", "relaying"}, i = winner'
        PROVE  lo + 1 = Expected'
    <3>1. CASE pc = "racing"
      <4>1. first' = h /\ log' = <<>>
        BY <1>6, <1>w, <2>5, <3>1
      <4> QED
        BY <2>1, <4>1 DEF Expected
    <3>2. CASE pc = "relaying"
      <4>1. first' = first /\ i = winner /\ lo = Expected
        BY <1>1, <1>w, <2>5, <3>2 DEF Lane, winner
      <4>2. log' = Append(log, h)
        BY <1>6, <1>x, <1>y, <2>5, <3>2, <4>1
      <4>3. log \in Seq(Event) /\ log # <<>> /\ first.chunk \in Int
        BY <1>p, <3>2 DEF TypeOK, LoopType, Event, NoEvent
      <4>4. Len(log') = Len(log) + 1 /\ log' # <<>> /\ Len(log) \in Nat
        BY <1>h, <4>2, <4>3, AppendProperties, LenProperties
      <4>5. Expected = first.chunk + Len(log)
        BY <4>3 DEF Expected
      <4>6. Expected' = first.chunk + Len(log')
        BY <4>1, <4>4 DEF Expected
      <4> QED
        BY <4>1, <4>3, <4>4, <4>5, <4>6, SMTT(30)
    <3> QED
      BY <1>p, <3>1, <3>2
  <2>6. Lane(i, lo + 1, hi)'
    BY <1>1, <1>2, <1>4, <2>2, <2>3, <2>4, <2>5 DEF Lane
  <2> QED
    BY <2>2, <2>6
<1>7. h.chunk > 0 \/ h.chunk = 0
  BY <1>h
<1> QED
  BY <1>5, <1>6, <1>7

\* A forwarder or a producer moves its own chunks along its own lane.
LEMMA LaneBackground ==
    ASSUME TypeOK, CellInv, CellInv', TypeOK', OrderInv, LaneInv,
           NEW j \in Backends, Forwarder(j) \/ Producer(j)
    PROVE  LaneInv'
<1>t. /\ fwd \in [Backends -> {"off", "idle", "holding", "closing", "draining",
                              "done"}]
      /\ ch \in [Backends -> 0 .. MaxChunks]
      /\ hand \in [Backends -> 0 .. MaxChunks]
      /\ script \in [Backends -> Seq(BOOLEAN)]
  BY DEF TypeOK, PipeType
<1>u. /\ UNCHANGED <<pc, first, log>>
      /\ Expected' = Expected
  BY BackgroundFrame DEF sinkVars, Expected
<1>s. \A i \in Backends : Sent(i) \in Int /\ Sent(i)' \in Int /\ Len(script[i]) \in Nat
                          /\ Sent(i) <= Len(script[i])
  <2>1. \A i \in Backends : /\ InChannel(i)' \in {0, 1} /\ InHand(i)' \in {0, 1}
                            /\ Len(script'[i]) \in Nat
    BY LenProperties DEF InChannel, InHand, TypeOK, PipeType
  <2> QED
    BY <2>1, SentType DEF Sent
<1> SUFFICES ASSUME NEW i \in Backends
             PROVE  \E lo \in 1 .. MaxChunks + 1, hi \in 0 .. MaxChunks :
                      Lane(i, lo, hi)'
  BY DEF LaneInv
<1>1. PICK lo \in 1 .. MaxChunks + 1, hi \in 0 .. MaxChunks : Lane(i, lo, hi)
  BY DEF LaneInv
<1>f. ASSUME \A k \in 0 .. MaxChunks : Queued(i, k)' => Queued(i, k) \/ k = 0,
             \A k \in 0 .. MaxChunks : Queued(i, k) => Queued(i, k)',
             Sent(i)' >= Sent(i),
             Whole(i)' => Whole(i) /\ Sent(i)' = Sent(i),
             \A k \in 1 .. lo - 1 : script'[i][k] = script[i][k]
      PROVE  Lane(i, lo, hi)'
  <2>1. \A k \in 1 .. MaxChunks : Queued(i, k)' <=> Queued(i, k)
    BY <1>f
  <2> QED
    BY <1>1, <1>f, <1>s, <1>u, <2>1, LaneFrame
<1>2. CASE FwdSend(j)
  <2> DEFINE e == [idx |-> j, chunk |-> hand[j]]
  <2>1. e \in Event /\ events' = Append(events, e)
    BY <1>2, <1>t DEF FwdSend, Event
  <2>2. \A k : Queued(i, k)' <=> Queued(i, k) \/ (i = j /\ k = hand[j])
    BY <2>1, QueuedAfterSend
  <2>3. /\ fwd[j] = "holding" /\ hand[j] # 0 /\ hand'[j] = 0
        /\ fwd' = [fwd EXCEPT ![j] = "idle"] /\ UNCHANGED <<ch, script>>
        /\ hand' = [hand EXCEPT ![j] = 0]
    BY <1>2, <1>t DEF FwdSend, CellInv, Cell, streamVars
  <2>4. CASE i # j
    <3>1. Sent(i)' = Sent(i) /\ (Whole(i)' <=> Whole(i))
      BY <1>t, <2>2, <2>3, <2>4 DEF Sent, InHand, InChannel, Whole
    <3> QED
      BY <1>f, <1>s, <2>2, <2>3, <2>4, <3>1
  <2>5. CASE i = j
    <3>1. InHand(i) = 1 /\ InHand(i)' = 0 /\ InChannel(i)' = InChannel(i)
      BY <2>3, <2>5 DEF InHand, InChannel
    <3>2. hand[i] + InChannel(i) = Len(script[i]) /\ InChannel(i) \in {0, 1}
      BY <2>3, <2>5 DEF CellInv, Cell, InChannel
    <3>3. Sent(i) = hand[i] - 1 /\ Sent(i)' = hand[i]
      BY <1>t, <1>s, <2>3, <3>1, <3>2, SMTT(30) DEF Sent
    <3>4. Whole(i) /\ hi = hand[i] - 1
      BY <1>1, <2>3, <2>5, <3>3 DEF Whole, Lane
    <3>5. hand[i] \in 0 .. MaxChunks /\ hand[i] # 0
      BY <1>t, <2>3, <2>5
    <3>6. PICK n \in 1 .. MaxChunks : n = hand[i]
      BY <3>5
    <3>7. \A k \in 1 .. MaxChunks : Queued(i, k)' <=> lo <= k /\ k <= n
      BY <1>1, <2>2, <2>5, <3>4, <3>6 DEF Lane
    <3>8. lo <= n + 1 /\ winner' = winner
      BY <1>1, <1>u, <3>4, <3>6 DEF Lane, winner
    <3>9. Lane(i, lo, n)'
      <4>1. lo <= n + 1 /\ n <= Sent(i)' /\ n = Sent(i)'
        BY <3>3, <3>6, <3>8
      <4>2. winner' = 0 => \A k \in 1 .. lo - 1 : ~script'[i][k]
        BY <1>1, <2>3, <3>8 DEF Lane
      <4>3. (pc \in {"committing", "relaying"} /\ i = winner => lo = Expected)'
        BY <1>1, <1>u, <3>8 DEF Lane
      <4> QED
        BY <3>7, <4>1, <4>2, <4>3 DEF Lane
    <3> QED
      BY <3>9
  <2> QED
    BY <2>4, <2>5
<1>3. CASE FwdSendClose(j)
  <2> DEFINE e == [idx |-> j, chunk |-> 0]
  <2>1. e \in Event /\ events' = Append(events, e)
    BY <1>3 DEF FwdSendClose, Event
  <2>2. \A k : Queued(i, k)' <=> Queued(i, k) \/ (i = j /\ k = 0)
    BY <2>1, QueuedAfterSend
  <2>3. /\ fwd[j] = "closing" /\ fwd' = [fwd EXCEPT ![j] = "done"]
        /\ UNCHANGED <<ch, hand, script>>
    BY <1>3, <1>t DEF FwdSendClose, streamVars
  <2>4. Sent(i)' = Sent(i)
    BY <2>3 DEF Sent, InHand, InChannel
  <2>5. Whole(i)' => Whole(i)
    BY <1>t, <2>2, <2>3 DEF Whole
  <2> QED
    BY <1>f, <1>s, <2>2, <2>3, <2>4, <2>5
<1>4. CASE Produce(j)
  <2>1. PICK usable \in BOOLEAN :
          script' = [script EXCEPT ![j] = Append(@, usable)]
    BY <1>4 DEF Produce
  <2>2. /\ UNCHANGED <<events, fwd, hand>> /\ ch[j] = 0
        /\ ch' = [ch EXCEPT ![j] = Len(script[j]) + 1]
    BY <1>4 DEF Produce, fwdVars
  <2>3. Sent(i)' = Sent(i)
    <3>1. CASE i = j
      <4>1. Len(script'[i]) = Len(script[i]) + 1
        BY <1>t, <2>1, <3>1, AppendProperties
      <4>2. InChannel(i) = 0 /\ InChannel(i)' = 1 /\ InHand(i)' = InHand(i)
        BY <1>t, <1>s, <2>2, <3>1 DEF InChannel, InHand
      <4>3. InHand(i) \in {0, 1}
        BY DEF InHand
      <4> QED
        BY <1>s, <4>1, <4>2, <4>3 DEF Sent
    <3>2. CASE i # j
      BY <1>t, <2>1, <2>2, <3>2 DEF Sent, InHand, InChannel
    <3> QED
      BY <3>1, <3>2
  <2>4. \A k \in 1 .. lo - 1 : script'[i][k] = script[i][k]
    <3>1. CASE i = j
      <4>1. \A k \in 1 .. Len(script[i]) : script'[i][k] = script[i][k]
        BY <1>t, <2>1, <3>1, AppendProperties
      <4>2. lo - 1 <= Len(script[i])
        BY <1>1, <1>s DEF Lane
      <4> QED
        BY <1>s, <4>1, <4>2
    <3>2. CASE i # j
      BY <1>t, <2>1, <3>2
    <3> QED
      BY <3>1, <3>2
  <2>5. \A k : Queued(i, k)' <=> Queued(i, k)
    BY <2>2 DEF Queued
  <2>6. Whole(i)' => Whole(i)
    BY <2>2, <2>5 DEF Whole
  <2> QED
    BY <1>f, <1>s, <2>3, <2>4, <2>5, <2>6
<1>5. CASE FwdTake(j) \/ FwdSeeClose(j) \/ FwdCloseSkip(j) \/ FwdCancelled(j)
           \/ FwdDrain(j) \/ FwdDrained(j) \/ ProducerEnd(j)
  <2>1. UNCHANGED <<events, script>>
    BY <1>5
    DEF FwdTake, FwdSeeClose, FwdCloseSkip, FwdCancelled, FwdDrain, FwdDrained,
        ProducerEnd, fwdVars, streamVars
  <2>2. \A k : Queued(i, k)' <=> Queued(i, k)
    BY <2>1 DEF Queued
  <2>3. Queued(i, 0) => fwd[i] = "done"
    BY DEF Queued, OrderInv
  <2>4. InChannel(i) \in {0, 1} /\ InHand(i) \in {0, 1} /\ InChannel(i)' \in {0, 1}
        /\ InHand(i)' \in {0, 1}
    BY DEF InChannel, InHand
  <2>5. CASE FwdTake(j)
    <3>1. /\ fwd[j] = "idle" /\ ch[j] # 0 /\ hand[j] = 0
          /\ hand' = [hand EXCEPT ![j] = ch[j]] /\ ch' = [ch EXCEPT ![j] = 0]
          /\ fwd' = [fwd EXCEPT ![j] = "holding"]
      BY <2>5, <1>t DEF FwdTake, CellInv, Cell
    <3>2. InHand(i)' + InChannel(i)' = InHand(i) + InChannel(i)
      BY <1>t, <3>1 DEF InHand, InChannel
    <3>3. Sent(i)' = Sent(i)
      BY <1>s, <2>1, <2>4, <3>2 DEF Sent
    <3>4. Whole(i)' => Whole(i)
      BY <1>t, <2>2, <3>1 DEF Whole
    <3> QED
      BY <1>f, <1>s, <2>1, <2>2, <3>3, <3>4
  <2>6. CASE FwdSeeClose(j) \/ FwdCloseSkip(j) \/ ProducerEnd(j)
    <3>1. UNCHANGED <<ch, hand>>
      BY <2>6 DEF FwdSeeClose, FwdCloseSkip, ProducerEnd, streamVars, fwdVars
    <3>2. Sent(i)' = Sent(i)
      BY <2>1, <3>1 DEF Sent, InHand, InChannel
    <3>3. Whole(i)' => Whole(i)
      BY <1>t, <2>2, <2>6
      DEF FwdSeeClose, FwdCloseSkip, ProducerEnd, fwdVars, Whole
    <3> QED
      BY <1>f, <1>s, <2>1, <2>2, <3>2, <3>3
  <2>7. CASE FwdCancelled(j) \/ FwdDrain(j) \/ FwdDrained(j)
    <3>1. CASE i = j
      <4>1. fwd[i] # "done" /\ fwd'[i] \in {"draining", "done"}
        BY <1>t, <2>7, <3>1 DEF FwdCancelled, FwdDrain, FwdDrained, fwdVars
      <4>2. ~Whole(i)'
        BY <2>2, <2>3, <4>1 DEF Whole
      <4>3. InHand(i)' <= InHand(i) /\ InChannel(i)' <= InChannel(i)
        BY <1>t, <2>7, <3>1
        DEF FwdCancelled, FwdDrain, FwdDrained, fwdVars, streamVars, InHand,
            InChannel
      <4>4. Sent(i)' >= Sent(i)
        BY <1>s, <2>1, <2>4, <4>3 DEF Sent
      <4> QED
        BY <1>f, <1>s, <2>1, <2>2, <4>2, <4>4
    <3>2. CASE i # j
      <4>1. fwd'[i] = fwd[i] /\ ch'[i] = ch[i] /\ hand'[i] = hand[i]
        BY <1>t, <2>7, <3>2
        DEF FwdCancelled, FwdDrain, FwdDrained, fwdVars, streamVars
      <4>2. Sent(i)' = Sent(i) /\ (Whole(i)' => Whole(i))
        BY <2>1, <2>2, <4>1 DEF Sent, InHand, InChannel, Whole
      <4> QED
        BY <1>f, <1>s, <2>1, <2>2, <4>2
    <3> QED
      BY <3>1, <3>2
  <2> QED
    BY <1>5, <2>5, <2>6, <2>7
<1> QED
  BY <1>2, <1>3, <1>4, <1>5 DEF Forwarder, Producer

\* The steps of the loop that receive nothing.
LEMMA QuietFrame ==
    ASSUME PhaseInv,
           \/ StartPrimary \/ RaceNoPath \/ RaceCtxDone \/ RaceTimeout \/ RaceFire
           \/ CommitOk \/ CommitErr \/ RelayCtxDone \/ Unwinding \/ Environment
           \/ Terminated
    PROVE  /\ UNCHANGED <<events, first>>
           /\ pc' \in {"committing", "relaying"} =>
                pc \in {"committing", "relaying"} /\ (log' = log \/ CommitOk)
<1> USE DEF fwdVars, sinkVars
<1>1. CASE StartPrimary \/ RaceNoPath \/ RaceCtxDone \/ RaceTimeout \/ RaceFire
  BY <1>1
  DEF StartPrimary, RaceNoPath, RaceCtxDone, RaceTimeout, RaceFire, Select,
      Reserve, Leave
<1>2. CASE CommitOk \/ CommitErr \/ RelayCtxDone \/ Unwinding
  BY <1>2 DEF CommitOk, CommitErr, RelayCtxDone, Leave, Unwinding, CancelAll,
              WaitAndReturn
<1>3. CASE Environment \/ Terminated
  BY <1>3, EnvironmentFrame DEF Terminated, vars
<1> QED
  BY <1>1, <1>2, <1>3

\* Every step keeps the lanes.
LEMMA LaneStep ==
    ASSUME TypeOK, PhaseInv, TearInv, CellInv, OrderInv, LaneInv, RelayInv, Next
    PROVE  LaneInv'
<1>0. TypeOK' /\ CellInv'
  BY TypeStep, CellStep
<1>1. CASE \/ StartPrimary \/ RaceNoPath \/ RaceCtxDone \/ RaceTimeout \/ RaceFire
           \/ CommitOk \/ CommitErr \/ RelayCtxDone \/ Unwinding \/ Environment
           \/ Terminated
  <2>1. /\ UNCHANGED <<events, first>>
        /\ pc' \in {"committing", "relaying"} =>
             pc \in {"committing", "relaying"} /\ (log' = log \/ CommitOk)
    BY <1>1, QuietFrame
  <2>2. UNCHANGED <<fwd, hand, ch, script>>
    BY <1>1, LoopFrame DEF Racing, Relaying
  <2>3. log' = log => Expected' = Expected
    BY <2>1 DEF Expected
  <2>4. CommitOk => Expected' = Expected
    BY <2>1 DEF CommitOk, PhaseInv, Expected
  <2> QED
    BY <2>1, <2>2, <2>3, <2>4, LaneQuiet
<1>2. CASE DialOk \/ DialErr
  BY <1>2, LaneQuiet
  DEF DialOk, DialErr, EnterLoop, sinkVars
<1>3. CASE RaceClose \/ RaceDiscard \/ RaceWin \/ RelayDiscard \/ RelayEnd
           \/ RelayChunk
  <2>1. Receive
    BY <1>3 DEF RaceClose, RaceDiscard, RaceWin, RelayDiscard, RelayEnd, RelayChunk
  <2> QED
    BY <1>3, <2>1, LaneReceive DEF RelayInv
<1>4. ASSUME NEW i \in Backends, Forwarder(i) \/ Producer(i)
      PROVE  LaneInv'
  BY <1>0, <1>4, LaneBackground
<1> QED
  BY <1>1, <1>2, <1>3, <1>4 DEF Next, Dialing, Racing, Relaying

-----------------------------------------------------------------------------
(* What has been heard, relayed and reported.                              *)

\* Producers write only while they run, and stay closed.
LEMMA ProducerFrame ==
    ASSUME TypeOK, PhaseInv, CellInv, Next, NEW i \in Backends
    PROVE  /\ prod[i] = "closed" => prod'[i] = "closed"
           /\ script'[i] # script[i] =>
                /\ prod[i] = "running" /\ UNCHANGED <<first, log>>
                /\ \E usable \in BOOLEAN : script'[i] = Append(script[i], usable)
<1>t. /\ prod \in [Backends -> {"off", "running", "closed"}]
      /\ script \in [Backends -> Seq(BOOLEAN)]
      /\ pc = "dialing" => started \in Backends /\ prod[started] = "off"
  BY SMTT(30) DEF TypeOK, PipeType, BookType, PhaseInv, CellInv, Cell, Backends
<1>1. CASE StartPrimary \/ Racing \/ Relaying \/ Unwinding \/ Environment
           \/ Terminated
  BY <1>1, LoopFrame
<1>2. CASE DialOk \/ DialErr
  BY <1>2, <1>t DEF DialOk, DialErr
<1>3. ASSUME NEW j \in Backends, Forwarder(j)
      PROVE  UNCHANGED <<prod, script>>
  BY <1>3
  DEF Forwarder, FwdTake, FwdSend, FwdSeeClose, FwdSendClose, FwdCloseSkip,
      FwdCancelled, FwdDrain, FwdDrained, streamVars
<1>4. ASSUME NEW j \in Backends, Producer(j)
      PROVE  /\ prod[i] = "closed" => prod'[i] = "closed"
             /\ script'[i] # script[i] =>
                  /\ prod[i] = "running" /\ UNCHANGED <<first, log>>
                  /\ \E usable \in BOOLEAN : script'[i] = Append(script[i], usable)
  BY <1>4, <1>t DEF Producer, Produce, ProducerEnd, sinkVars
<1> QED
  BY <1>1, <1>2, <1>3, <1>4 DEF Next, Dialing

\* Only a failed dial and a close event add to the closed backends.
LEMMA ClosedFrame ==
    ASSUME Next, ~DialErr, ~RaceClose
    PROVE  UNCHANGED closed
<1> USE DEF bookVars
<1>1. CASE Dialing
  BY <1>1 DEF Dialing, StartPrimary, DialOk
<1>2. CASE Racing
  BY <1>2, DiscardFrame
  DEF Racing, RaceNoPath, RaceCtxDone, RaceTimeout, RaceFire, RaceWin
<1>3. CASE Relaying \/ Unwinding
  BY <1>3, DiscardFrame
  DEF Relaying, CommitOk, CommitErr, RelayCtxDone, RelayEnd, RelayChunk,
      Unwinding, CancelAll, WaitAndReturn
<1>4. CASE Environment \/ Terminated
  BY <1>4, EnvironmentFrame DEF Terminated, vars
<1>5. CASE \E i \in Backends : Forwarder(i) \/ Producer(i)
  BY <1>5, BackgroundFrame
<1> QED
  BY <1>1, <1>2, <1>3, <1>4, <1>5 DEF Next

\* A close event that is received ends a backend that had nothing usable to say.
LEMMA CloseIsHeard ==
    ASSUME TypeOK, PhaseInv, TearInv, CellInv, OrderInv, LaneInv, RaceClose
    PROVE  LET i == Head(events).idx
           IN  i \in Backends /\ prod[i] = "closed" /\ Silent(i)
<1> DEFINE i == Head(events).idx
<1>1. Receive /\ Head(events).chunk = 0 /\ winner = 0 /\ i \in Backends
  BY ReceiveType DEF RaceClose, Select, PhaseInv, Decided, TypeOK, PipeType
<1>2. fwd[i] = "done"
  <2>1. 1 \in 1 .. Len(events) /\ events[1] = Head(events)
    BY <1>1, QueueReceive
  <2> QED
    BY <1>1, <2>1 DEF OrderInv
<1>3. PICK lo \in 1 .. MaxChunks + 1, hi \in 0 .. MaxChunks : Lane(i, lo, hi)
  BY <1>1 DEF LaneInv
<1>4. Sent(i) = Len(script[i])
  <2>1. InChannel(i) = 0 /\ InHand(i) = 0
    BY <1>1, <1>2 DEF CellInv, Cell, InChannel, InHand
  <2> QED
    BY <1>1, <2>1, SentType DEF Sent
<1>5. lo - 1 = Len(script[i])
  BY <1>1, <1>3, <1>4, HeadOfLane
<1>6. Silent(i)
  BY <1>1, <1>3, <1>5 DEF Lane, Silent
<1> QED
  BY <1>1, <1>2, <1>6 DEF TearInv

\* Every step keeps: who was heard to close had nothing usable to say.
LEMMA HeardStep ==
    ASSUME TypeOK, PhaseInv, TearInv, CellInv, OrderInv, LaneInv, HeardInv, Next
    PROVE  HeardInv'
<1>1. ASSUME NEW i \in Backends, prod[i] = "closed", Silent(i)
      PROVE  prod'[i] = "closed" /\ Silent(i)'
  BY <1>1, ProducerFrame DEF Silent
<1>2. closed \subseteq Backends
  BY DEF TypeOK, BookType
<1>3. CASE DialErr
  <2>1. /\ started \in Backends /\ script[started] = <<>> /\ UNCHANGED script
        /\ prod'[started] = "closed" /\ closed' = closed \cup {started}
    BY <1>3 DEF DialErr, TypeOK, PipeType, BookType, PhaseInv, CellInv, Cell, Backends
  <2>2. Silent(started)'
    <3>1. started' = started
      BY <1>3 DEF DialErr
    <3> QED
      BY <2>1, <3>1 DEF Silent
  <2>3. started' = started
    BY <1>3 DEF DialErr
  <2> QED
    BY <1>1, <1>2, <2>1, <2>2, <2>3 DEF HeardInv
<1>4. CASE RaceClose
  <2>1. PICK h \in Backends : h = Head(events).idx /\ prod[h] = "closed" /\ Silent(h)
    BY <1>4, CloseIsHeard
  <2>2. closed' = closed \cup {h}
    BY <1>4, <2>1 DEF RaceClose
  <2> QED
    BY <1>1, <1>2, <2>1, <2>2 DEF HeardInv
<1>5. CASE ~DialErr /\ ~RaceClose
  BY <1>1, <1>2, <1>5, ClosedFrame DEF HeardInv
<1> QED
  BY <1>3, <1>4, <1>5

\* A step that neither wins nor relays keeps what was relayed.
LEMMA RelayFrame ==
    ASSUME TypeOK, PhaseInv, CellInv, RelayInv, Next, UNCHANGED <<first, log>>,
           pc' = "relaying" => pc = "relaying"
    PROVE  RelayInv'
<1>1. winner' = winner
  BY DEF winner
<1>2. ASSUME winner # 0
      PROVE  /\ \A k \in DOMAIN script'[winner] : script'[winner][k] => k >= first.chunk
             /\ first.chunk \in 1 .. Len(script'[winner])
  <2> DEFINE s == script[winner]
  <2>1. winner \in Backends /\ s \in Seq(BOOLEAN) /\ Len(s) \in Nat
    BY <1>2, LenProperties DEF TypeOK, LoopType, PipeType, winner, Event, NoEvent
  <2>2. /\ \A k \in 1 .. Len(s) : s[k] => k >= first.chunk
        /\ first.chunk \in 1 .. Len(s)
    BY <1>2, <2>1 DEF RelayInv, RelayIsOneStream
  <2>3. CASE script'[winner] = s
    BY <2>1, <2>2, <2>3
  <2>4. CASE script'[winner] # s
    <3>1. PICK usable \in BOOLEAN : script'[winner] = Append(s, usable)
      BY <2>1, <2>4, ProducerFrame
    <3>2. /\ Len(script'[winner]) = Len(s) + 1
          /\ DOMAIN script'[winner] = 1 .. Len(s) + 1
          /\ \A k \in 1 .. Len(s) : script'[winner][k] = s[k]
      <4>1. Append(s, usable) \in Seq(BOOLEAN)
        BY <2>1, AppendProperties
      <4> QED
        BY <2>1, <3>1, <4>1, AppendProperties, LenProperties
    <3>3. ASSUME NEW k \in 1 .. Len(s) + 1, script'[winner][k]
          PROVE  k >= first.chunk
      <4>1. CASE k \in 1 .. Len(s)
        BY <2>2, <3>2, <3>3, <4>1
      <4>2. CASE k = Len(s) + 1
        BY <2>1, <2>2, <4>2
      <4> QED
        BY <2>1, <4>1, <4>2
    <3> QED
      BY <2>1, <2>2, <3>2, <3>3
  <2> QED
    BY <2>3, <2>4
<1>3. \A n \in DOMAIN log' : log'[n] = [first' EXCEPT !.chunk = @ + n - 1]
  BY DEF RelayInv, RelayIsOneStream
<1> QED
  BY <1>1, <1>2, <1>3 DEF RelayInv, RelayIsOneStream

\* Only the sink's two calls and a win change what is relayed.
LEMMA SinkFrame ==
    ASSUME Next, ~RaceWin, ~CommitOk, ~RelayChunk
    PROVE  UNCHANGED <<first, log>> /\ (pc' = "relaying" => pc = "relaying")
<1> USE DEF bookVars, sinkVars
<1>1. CASE Dialing
  BY <1>1 DEF Dialing, StartPrimary, Reserve, DialOk, DialErr, EnterLoop
<1>2. CASE Racing
  BY <1>2, DiscardFrame
  DEF Racing, RaceNoPath, RaceCtxDone, RaceTimeout, RaceFire, RaceClose,
      Reserve, Leave
<1>3. CASE Relaying \/ Unwinding
  BY <1>3, DiscardFrame
  DEF Relaying, CommitErr, RelayCtxDone, RelayEnd, Leave, Unwinding, CancelAll,
      WaitAndReturn
<1>4. CASE Environment \/ Terminated
  BY <1>4, EnvironmentFrame DEF Terminated, vars
<1>5. CASE \E i \in Backends : Forwarder(i) \/ Producer(i)
  BY <1>5, BackgroundFrame
<1> QED
  BY <1>1, <1>2, <1>3, <1>4, <1>5 DEF Next

\* Every step keeps: the log is the winner's stream from its first usable chunk.
LEMMA RelayStep ==
    ASSUME TypeOK, PhaseInv, CellInv, OrderInv, LaneInv, RelayInv, Next
    PROVE  RelayInv'
<1>1. CASE RaceWin
  <2> DEFINE h == Head(events)
  <2>1. /\ Receive /\ first' = h /\ h.chunk > 0 /\ pc' = "committing"
        /\ log' = log /\ log = <<>> /\ winner = 0 /\ UNCHANGED script
    BY <1>1 DEF RaceWin, Select, PhaseInv, Decided, streamVars
  <2>2. h \in Event /\ h.idx \in Backends
    BY <2>1, ReceiveType DEF TypeOK, PipeType
  <2>3. PICK lo \in 1 .. MaxChunks + 1, hi \in 0 .. MaxChunks : Lane(h.idx, lo, hi)
    BY <2>2 DEF LaneInv
  <2>4. h.chunk = lo /\ lo <= hi
    BY <2>1, <2>3, HeadOfLane
  <2>5. hi <= Sent(h.idx) /\ \A k \in 1 .. lo - 1 : ~script[h.idx][k]
    BY <2>1, <2>3 DEF Lane
  <2>6. /\ Len(script[h.idx]) \in Nat /\ hi <= Len(script[h.idx])
        /\ DOMAIN script[h.idx] = 1 .. Len(script[h.idx])
    <3>1. script[h.idx] \in Seq(BOOLEAN)
      BY <2>2 DEF TypeOK, PipeType
    <3>2. Sent(h.idx) \in Int /\ Sent(h.idx) <= Len(script[h.idx])
      BY <2>2, SentType
    <3> QED
      BY <2>5, <3>1, <3>2, LenProperties
  <2>7. winner' = h.idx /\ first'.chunk = lo
    BY <2>1, <2>4 DEF winner
  <2>8. \A k \in DOMAIN script'[winner'] : script'[winner'][k] => k >= lo
    BY <2>1, <2>5, <2>6, <2>7
  <2>9. lo \in 1 .. Len(script'[winner'])
    BY <2>1, <2>4, <2>6, <2>7
  <2>10. \A n \in DOMAIN log' : log'[n] = [first' EXCEPT !.chunk = @ + n - 1]
    BY <2>1
  <2> QED
    BY <2>1, <2>7, <2>8, <2>9, <2>10 DEF RelayInv, RelayIsOneStream
<1>f. ASSUME UNCHANGED <<first, script>>, log' # <<>>,
             \A n \in DOMAIN log' : log'[n] = [first EXCEPT !.chunk = @ + n - 1]
      PROVE  RelayInv'
  BY <1>f DEF RelayInv, RelayIsOneStream, winner
<1>e. /\ first \in Event \cup {NoEvent} /\ log \in Seq(Event)
      /\ first.chunk \in Nat
      /\ winner # 0 => first \in Event
  BY DEF TypeOK, LoopType, Event, NoEvent, winner
<1>2. CASE CommitOk
  <2>1. log' = <<first>> /\ UNCHANGED <<first, script>> /\ winner # 0
    BY <1>2 DEF CommitOk, streamVars, PhaseInv
  <2>2. DOMAIN log' = {1} /\ log'[1] = first /\ log' # <<>>
    BY <2>1
  <2>3. first = [first EXCEPT !.chunk = @ + 1 - 1]
    BY <1>e, <2>1 DEF Event
  <2> QED
    BY <1>f, <2>1, <2>2, <2>3
<1>3. CASE RelayChunk
  <2> DEFINE h == Head(events)
  <2>1. /\ Receive /\ h.chunk > 0 /\ h.idx = winner /\ pc = "relaying"
        /\ UNCHANGED <<first, script>> /\ winner # 0 /\ log # <<>>
    BY <1>3 DEF RelayChunk, FromWinner, streamVars, PhaseInv, RelayInv
  <2>2. h \in Event /\ h.idx \in Backends
    BY <2>1, ReceiveType DEF TypeOK, PipeType
  <2>3. CASE log' = log
    BY <1>f, <2>1, <2>3 DEF RelayInv, RelayIsOneStream
  <2>4. CASE log' = Append(log, h)
    <3>1. PICK lo \in 1 .. MaxChunks + 1, hi \in 0 .. MaxChunks : Lane(h.idx, lo, hi)
      BY <2>2 DEF LaneInv
    <3>2. h.chunk = lo /\ lo = Expected
      <4>1. h.chunk = lo
        BY <2>1, <3>1, HeadOfLane
      <4> QED
        BY <2>1, <3>1, <4>1 DEF Lane
    <3>3. h.chunk = first.chunk + Len(log) /\ Len(log) \in Nat
      BY <1>e, <2>1, <3>2, LenProperties DEF Expected
    <3>4. h = [first EXCEPT !.chunk = @ + (Len(log) + 1) - 1]
      BY <1>e, <2>1, <2>2, <3>3, SMTT(30) DEF Event, winner
    <3>5. /\ DOMAIN log' = 1 .. Len(log) + 1 /\ log' # <<>>
          /\ \A n \in 1 .. Len(log) : log'[n] = log[n]
          /\ log'[Len(log) + 1] = h
      <4>1. log' \in Seq(Event) /\ Len(log') = Len(log) + 1
        BY <1>e, <2>2, <2>4, AppendProperties
      <4> QED
        BY <1>e, <2>2, <2>4, <4>1, AppendProperties, LenProperties
    <3>6. ASSUME NEW n \in DOMAIN log'
          PROVE  log'[n] = [first EXCEPT !.chunk = @ + n - 1]
      <4>1. CASE n = Len(log) + 1
        BY <3>4, <3>5, <4>1
      <4>2. CASE n \in 1 .. Len(log)
        <5>1. n \in DOMAIN log
          BY <1>e, <4>2, LenProperties
        <5> QED
          BY <3>5, <4>2, <5>1 DEF RelayInv, RelayIsOneStream
      <4> QED
        BY <3>3, <3>5, <4>1, <4>2
    <3> QED
      BY <1>f, <2>1, <3>5, <3>6
  <2> QED
    BY <1>3, <2>3, <2>4 DEF RelayChunk
<1> QED
  BY <1>1, <1>2, <1>3, SinkFrame, RelayFrame

\* No path to a winner stays none while nothing is dialed, fails or is heard.
LEMMA NoPathFrame ==
    ASSUME NoPathToWinner, UNCHANGED <<pol, started, failed, closed>>
    PROVE  NoPathToWinner'
<1>1. Held' = Held /\ Started' = Started
  BY DEF Held, Started
<1>2. RunningCount' = RunningCount /\ CommittedCostDelta' = CommittedCostDelta
  BY <1>1, CostIsSum DEF RunningCount
<1> QED
  BY <1>1, <1>2
  DEF NoPathToWinner, Producing, CanStartAnother, HasMore, AllowStart,
      CostAllows, EffectiveMaxInFlight

\* Every step keeps: what an error and a result mean.
LEMMA OutcomeStep ==
    ASSUME TypeOK, PhaseInv, TearInv, CellInv, OrderInv, LaneInv, RelayInv,
           OutcomeInv, Next
    PROVE  OutcomeInv'
<1> USE DEF bookVars, sinkVars, timerVars
<1>e. pc \notin {"unwinding", "waiting", "returned"} =>
        err = "none" /\ result = "pending"
  BY DEF OutcomeInv
<1>p. /\ pc \in {"start", "dialing", "racing"} => winner = 0
      /\ pc \in {"committing", "relaying"} => winner # 0
  BY DEF PhaseInv, Decided
<1>1. ASSUME err' = "none", result' = "pending", pc' # "returned"
      PROVE  OutcomeInv'
  BY <1>1 DEF OutcomeInv
<1>2. CASE Dialing
  BY <1>1, <1>2, <1>e
  DEF Dialing, StartPrimary, Reserve, DialOk, DialErr, EnterLoop
<1>3. CASE RaceNoPath
  <2>1. /\ pc' = "unwinding" /\ err' = "nil" /\ UNCHANGED <<first, result>>
        /\ NoPathToWinner /\ UNCHANGED <<pol, started, failed, closed>>
        /\ winner = 0 /\ result = "pending"
    BY <1>3, <1>e, <1>p DEF RaceNoPath, Leave
  <2>2. NoPathToWinner' /\ winner' = 0
    BY <2>1, NoPathFrame DEF winner
  <2> QED
    BY <2>1, <2>2 DEF OutcomeInv
<1>4. CASE RaceCtxDone \/ RelayCtxDone
  BY <1>4, <1>e DEF RaceCtxDone, RelayCtxDone, Select, Leave, OutcomeInv
<1>5. CASE RaceTimeout
  BY <1>5, <1>e, <1>p DEF RaceTimeout, Select, Leave, OutcomeInv, winner
<1>6. CASE RaceFire \/ RaceClose \/ RaceWin
  BY <1>1, <1>6, <1>e DEF RaceFire, RaceClose, RaceWin, Select, Reserve
<1>7. CASE CommitOk
  BY <1>1, <1>7, <1>e DEF CommitOk
<1>8. CASE CommitErr
  BY <1>8, <1>e, <1>p DEF CommitErr, Leave, OutcomeInv, winner
<1>9. CASE RelayEnd
  <2> DEFINE h == Head(events)
  <2>1. /\ Receive /\ h.chunk = 0 /\ h.idx = winner /\ winner # 0
        /\ pc = "relaying" /\ pc' = "unwinding" /\ err' = "nil"
        /\ UNCHANGED <<first, log, result, prod, script>> /\ result = "pending"
        /\ log # <<>>
    BY <1>9, <1>e, <1>p DEF RelayEnd, Leave, FromWinner, streamVars, RelayInv
  <2>2. winner \in Backends
    BY <2>1, ReceiveType DEF TypeOK, PipeType
  <2>3. PICK lo \in 1 .. MaxChunks + 1, hi \in 0 .. MaxChunks : Lane(winner, lo, hi)
    BY <2>2 DEF LaneInv
  <2>4. lo = hi + 1 /\ hi = Sent(winner) /\ lo = Expected
    <3>1. lo = hi + 1 /\ hi = Sent(winner)
      BY <2>1, <2>3, HeadOfLane
    <3> QED
      BY <2>1, <2>3, <3>1 DEF Lane
  <2>5. fwd[winner] = "done"
    <3>1. 1 \in 1 .. Len(events) /\ events[1] = h
      BY <2>1, QueueReceive
    <3> QED
      BY <2>1, <3>1 DEF OrderInv
  <2>6. InChannel(winner) = 0 /\ InHand(winner) = 0
    BY <2>2, <2>5 DEF CellInv, Cell, InChannel, InHand
  <2>7. Expected = Len(script[winner]) + 1
    BY <2>2, <2>4, <2>6, SentType DEF Sent
  <2>8. prod[winner] = "closed"
    BY <2>2, <2>5 DEF TearInv
  <2> QED
    BY <2>1, <2>7, <2>8 DEF OutcomeInv, Expected, winner
<1>10. CASE RelayChunk
  <2>1. CASE Leave("sink")
    BY <1>10, <2>1, <1>e, <1>p DEF RelayChunk, Leave, OutcomeInv, winner
  <2>2. CASE UNCHANGED <<pc, err>>
    BY <1>1, <1>10, <2>2, <1>e DEF RelayChunk
  <2> QED
    BY <1>10, <2>1, <2>2 DEF RelayChunk
<1>f. ASSUME UNCHANGED <<pol, started, failed, closed, first, log, err, timeout>>,
             pc \in {"unwinding", "waiting"} =>
               pc' \in {"unwinding", "waiting", "returned"},
             pc \notin {"unwinding", "waiting"} => pc' = pc,
             result' # "pending" <=> pc' = "returned",
             result' = "ok" => err = "nil" /\ winner # 0,
             result' = "allFailed" => err = "nil" /\ winner = 0
      PROVE  OutcomeInv'
  <2>1. err = "nil" /\ winner # 0 => prod'[winner] = "closed"
                                     /\ script'[winner] = script[winner]
    <3> SUFFICES ASSUME err = "nil", winner # 0
                 PROVE  prod'[winner] = "closed" /\ script'[winner] = script[winner]
      OBVIOUS
    <3>1. prod[winner] = "closed" /\ winner \in Backends
      BY DEF OutcomeInv, TypeOK, LoopType, Event, NoEvent, winner
    <3> QED
      BY <3>1, ProducerFrame
  <2>2. winner' = winner /\ Expected' = Expected
    BY <1>f DEF winner, Expected
  <2>3. NoPathToWinner => NoPathToWinner'
    BY <1>f, NoPathFrame
  <2> QED
    BY <1>f, <2>1, <2>2, <2>3 DEF OutcomeInv
<1>11. CASE CancelAll
  BY <1>f, <1>11 DEF CancelAll, OutcomeInv
<1>12. CASE WaitAndReturn
  <2>1. err # "none" /\ err \in {"nil", "ctx", "sink"}
    BY <1>12 DEF WaitAndReturn, PhaseInv, TypeOK, LoopType
  <2>2. /\ result' # "pending" /\ pc' = "returned"
        /\ result' = "ok" => err = "nil" /\ winner # 0
        /\ result' = "allFailed" => err = "nil" /\ winner = 0
    BY <1>12, <2>1 DEF WaitAndReturn, ReturnedError
  <2> QED
    BY <1>f, <1>12, <2>2 DEF WaitAndReturn
<1>13. CASE RaceDiscard \/ RelayDiscard
  <2>1. pc' = pc /\ err' = err /\ result' = result /\ pc \in {"racing", "relaying"}
    BY <1>13, DiscardFrame DEF RaceDiscard, RelayDiscard, Select
  <2> QED
    BY <1>1, <1>e, <2>1
<1>14. CASE Environment
  <2>1. UNCHANGED <<pc, err, result>>
    BY <1>14, EnvironmentFrame
  <2>2. CASE timeout' # timeout
    <3>1. pc \in {"dialing", "racing"}
      BY <1>14, <2>2 DEF Environment, FireTick, TimeoutTick, ClientCancel
    <3> QED
      BY <1>1, <1>e, <2>1, <3>1
  <2>3. CASE timeout' = timeout
    BY <1>f, <1>14, <2>1, <2>3, EnvironmentFrame DEF OutcomeInv
  <2> QED
    BY <2>2, <2>3
<1>15. CASE Terminated
  BY <1>f, <1>15 DEF Terminated, vars, OutcomeInv
<1>16. ASSUME NEW i \in Backends, Forwarder(i) \/ Producer(i)
       PROVE  OutcomeInv'
  BY <1>f, <1>16, BackgroundFrame DEF OutcomeInv
<1> QED
  BY <1>2, <1>3, <1>4, <1>5, <1>6, <1>7, <1>8, <1>9, <1>10, <1>11, <1>12,
     <1>13, <1>14, <1>15, <1>16
  DEF Next, Racing, Relaying, Unwinding

\* A step that ends no backend blames none.
LEMMA BlameFrame ==
    ASSUME BlameInv, UNCHANGED <<failed, closed, endedAlone>>,
           \A i \in Backends : prod'[i] = "closed" => prod[i] = "closed",
           clientGone => clientGone',
           pc' \in {"start", "dialing", "racing"} =>
             pc \in {"start", "dialing", "racing"} /\ cancelled' = cancelled,
           cancelledAll' => pc' \in {"waiting", "returned"}
    PROVE  BlameInv'
BY DEF BlameInv

\* Every step keeps: who is blamed had ended before anybody cancelled it.
LEMMA BlameStep ==
    ASSUME TypeOK, PhaseInv, TearInv, CellInv, OrderInv, LaneInv, HeardInv,
           BlameInv, Next
    PROVE  BlameInv'
<1> USE DEF bookVars, ctxVars, streamVars
<1>a. cancelledAll => pc \in {"waiting", "returned"}
  BY DEF BlameInv
<1>t. /\ prod \in [Backends -> {"off", "running", "closed"}]
      /\ pc = "dialing" => started \in Backends
  BY DEF TypeOK, PipeType, BookType, PhaseInv, Backends
<1>1. CASE StartPrimary
  BY <1>1, <1>a, BlameFrame DEF StartPrimary, Reserve
<1>2. CASE DialOk
  BY <1>2, <1>a, <1>t, BlameFrame DEF DialOk, EnterLoop
<1>3. CASE DialErr
  <2>1. /\ pc = "dialing" /\ pc' = "racing" /\ ~cancelledAll
        /\ UNCHANGED <<cancelledAll, clientGone>>
        /\ failed' = failed \cup {started} /\ closed' = closed \cup {started}
        /\ cancelled' = cancelled \cup {started}
        /\ prod' = [prod EXCEPT ![started] = "closed"]
        /\ ~clientGone => endedAlone' = endedAlone \cup {started}
    BY <1>3, <1>a DEF DialErr, EnterLoop, RunDone
  <2> QED
    BY <1>t, <2>1 DEF BlameInv
<1>4. CASE RaceClose
  <2>1. PICK h \in Backends : h = Head(events).idx /\ prod[h] = "closed"
    BY <1>4, CloseIsHeard
  <2>2. /\ pc = "racing" /\ pc' \in {"racing", "dialing"} /\ closed' = closed \cup {h}
        /\ UNCHANGED <<failed, cancelled, cancelledAll, clientGone, prod, endedAlone>>
    BY <1>4, <2>1 DEF RaceClose, Select, Reserve
  <2>3. ~clientGone => h \in endedAlone
    BY <2>1, <2>2 DEF BlameInv
  <2> QED
    BY <1>a, <2>2, <2>3 DEF BlameInv
<1>5. CASE RaceNoPath \/ RaceCtxDone \/ RaceTimeout \/ RaceFire \/ RaceWin
  <2>1. /\ pc = "racing" /\ UNCHANGED <<failed, closed, cancelledAll, clientGone>>
        /\ UNCHANGED <<prod, endedAlone>>
        /\ pc' \in {"start", "dialing", "racing"} => cancelled' = cancelled
    BY <1>5
    DEF RaceNoPath, RaceCtxDone, RaceTimeout, RaceFire, RaceWin, Select, Reserve
  <2> QED
    BY <2>1, <1>a, BlameFrame
<1>6. CASE CommitOk \/ CommitErr \/ RelayCtxDone \/ RelayEnd \/ RelayChunk
  BY <1>6, <1>a, BlameFrame
  DEF CommitOk, CommitErr, RelayCtxDone, RelayEnd, RelayChunk, Leave
<1>7. CASE CancelAll
  BY <1>7, BlameFrame DEF CancelAll
<1>8. CASE WaitAndReturn
  BY <1>8, BlameFrame DEF WaitAndReturn
<1>9. CASE RaceDiscard \/ RelayDiscard
  BY <1>9, <1>a, BlameFrame, DiscardFrame
<1>10. CASE Environment
  <2>1. UNCHANGED <<pc, failed, closed, cancelled, cancelledAll, prod, endedAlone>>
        /\ (clientGone => clientGone')
    BY <1>10 DEF Environment, FireTick, TimeoutTick, ClientCancel
  <2> QED
    BY <2>1, <1>a, BlameFrame
<1>11. CASE Terminated
  BY <1>11, <1>a, BlameFrame DEF Terminated, vars
<1>12. ASSUME NEW i \in Backends, Forwarder(i) \/ Produce(i)
       PROVE  BlameInv'
  <2>1. UNCHANGED <<prod, endedAlone>>
    BY <1>12
    DEF Forwarder, FwdTake, FwdSend, FwdSeeClose, FwdSendClose, FwdCloseSkip,
        FwdCancelled, FwdDrain, FwdDrained, Produce
  <2> QED
    BY <1>12, <1>a, <2>1, BackgroundFrame, BlameFrame DEF Producer
<1>13. ASSUME NEW i \in Backends, ProducerEnd(i)
       PROVE  BlameInv'
  <2>1. UNCHANGED <<pc, failed, closed, cancelled, cancelledAll, clientGone>>
    BY <1>13, BackgroundFrame DEF Producer
  <2>2. /\ prod[i] = "running" /\ prod' = [prod EXCEPT ![i] = "closed"]
        /\ endedAlone \subseteq endedAlone'
        /\ ~BeDone(i) => endedAlone' = endedAlone \cup {i}
    BY <1>13 DEF ProducerEnd
  <2>3. ~clientGone /\ pc \in {"start", "dialing", "racing"} => ~BeDone(i)
    BY <1>a, <2>2 DEF BeDone, RunDone, BlameInv, HeardInv
  <2> QED
    BY <1>t, <2>1, <2>2, <2>3 DEF BlameInv
<1> QED
  BY <1>1, <1>2, <1>3, <1>4, <1>5, <1>6, <1>7, <1>8, <1>9, <1>10, <1>11, <1>12,
     <1>13
  DEF Next, Dialing, Racing, Relaying, Unwinding, Producer

-----------------------------------------------------------------------------
(* The results.                                                            *)

\* Every step keeps the inductive invariant.
LEMMA StreamStep == IndInv /\ StreamInv /\ [Next]_vars => StreamInv'
<1> SUFFICES ASSUME IndInv, StreamInv, [Next]_vars PROVE StreamInv'
  OBVIOUS
<1>1. CASE Next
  BY <1>1, CellStep, OrderStep, LaneStep, HeardStep, RelayStep, OutcomeStep,
     BlameStep
  DEF IndInv, StreamInv
<1>2. CASE UNCHANGED vars
  <2> USE <1>2 DEF vars, bookVars, sinkVars, timerVars, ctxVars, fwdVars, streamVars
  <2>1. CellInv' /\ OrderInv' /\ HeardInv'
    BY DEF StreamInv, CellInv, Cell, InChannel, OrderInv, HeardInv, Silent
  <2>2. LaneInv'
    <3>1. Expected' = Expected
      BY DEF Expected
    <3> QED
      BY <3>1, LaneQuiet DEF IndInv, StreamInv
  <2>3. RelayInv' /\ BlameInv'
    BY DEF StreamInv, RelayInv, RelayIsOneStream, BlameInv, winner
  <2>4. OutcomeInv'
    <3>1. NoPathToWinner => NoPathToWinner'
      BY NoPathFrame
    <3> QED
      BY <3>1 DEF StreamInv, OutcomeInv, Expected, winner
  <2> QED
    BY <2>1, <2>2, <2>3, <2>4 DEF StreamInv
<1> QED
  BY <1>1, <1>2

\* Where every chunk is, what was relayed and what is reported, in every
\* reachable state.
THEOREM StreamInvariance == Spec => []StreamInv
BY Invariance, StreamInit, StreamStep, PTL DEF Spec

\* The client is sent one backend's stream, from its first usable chunk on,
\* without a gap, a repeat, a swap or a chunk of a loser.
THEOREM RelayStaysOneStream == Spec => []RelayIsOneStream
BY StreamInvariance, PTL DEF StreamInv, RelayInv

\* A run that reports success relayed the winner's stream to its last chunk.
THEOREM SuccessMeansComplete == Spec => []SuccessIsComplete
<1>1. IndInv /\ StreamInv => SuccessIsComplete
  <2> SUFFICES ASSUME IndInv, StreamInv, result = "ok"
               PROVE  first.chunk + Len(log) - 1 = Len(script[winner])
    BY DEF SuccessIsComplete
  <2>1. log # <<>> /\ Expected = Len(script[winner]) + 1 /\ winner # 0
    BY DEF StreamInv, OutcomeInv
  <2>2. /\ first \in Event /\ log \in Seq(Event)
        /\ script \in [Backends -> Seq(BOOLEAN)]
    BY <2>1 DEF IndInv, TypeOK, LoopType, PipeType, NoEvent, winner
  <2>3. first.chunk \in Nat /\ winner \in Backends
    BY <2>2 DEF Event, winner
  <2>4. Len(log) \in Nat /\ Len(script[winner]) \in Nat
    BY <2>2, <2>3, LenProperties
  <2>5. first.chunk + Len(log) = Len(script[winner]) + 1
    BY <2>1 DEF Expected
  <2>6. \A a, b, c \in Nat : a + b = c + 1 => a + b - 1 = c
    OBVIOUS
  <2> QED
    BY <2>3, <2>4, <2>5, <2>6, SMTT(30)
<1> QED
  BY <1>1, Invariance, StreamInvariance, PTL

\* All-failed, with the client present and in time, means that nobody dialed
\* streamed a usable chunk and that nobody else could be dialed.
THEOREM AllFailedMeansIt == Spec => []AllFailedIsTrue
<1>1. IndInv /\ StreamInv => AllFailedIsTrue
  <2> SUFFICES ASSUME IndInv, StreamInv, result = "allFailed", timeout # "fired"
               PROVE  /\ \A i \in Started : \A k \in DOMAIN script[i] : ~script[i][k]
                      /\ ~CanStartAnother
    BY DEF AllFailedIsTrue
  <2>1. Producing = {} /\ ~CanStartAnother
    BY DEF StreamInv, OutcomeInv, NoPathToWinner
  <2>2. ASSUME NEW i \in Started
        PROVE  \A k \in DOMAIN script[i] : ~script[i][k]
    <3>1. i \in closed /\ i \in Backends
      BY <2>1 DEF Producing, IndInv, TypeOK, BookType, Started, Backends
    <3>2. Silent(i) /\ script[i] \in Seq(BOOLEAN)
      BY <3>1 DEF StreamInv, HeardInv, IndInv, TypeOK, PipeType
    <3> QED
      BY <3>2, LenProperties DEF Silent
  <2> QED
    BY <2>1, <2>2
<1> QED
  BY <1>1, Invariance, StreamInvariance, PTL

\* While the client stays, nobody is blamed for the race's own cancelling.
THEOREM BlameStaysDeserved == Spec => []BlameIsDeserved
<1>1. IndInv /\ StreamInv => BlameIsDeserved
  <2> SUFFICES ASSUME IndInv, StreamInv, ~clientGone, NEW i \in Lost
               PROVE  /\ LossReason(i) # "canceled" => i \in endedAlone
                      /\ LossReason(i) = "no_usable_token" =>
                           \A k \in DOMAIN script[i] : ~script[i][k]
    BY DEF BlameIsDeserved
  <2>1. i \in Backends
    BY DEF Lost, IndInv, TypeOK, BookType, Started, Backends
  <2>2. LossReason(i) # "canceled" => i \in closed
    BY DEF LossReason, StreamInv, BlameInv
  <2>3. i \in closed => i \in endedAlone /\ Silent(i)
    BY DEF StreamInv, BlameInv, HeardInv
  <2>4. DOMAIN script[i] = 1 .. Len(script[i])
    BY <2>1, LenProperties DEF IndInv, TypeOK, PipeType
  <2> QED
    BY <2>2, <2>3, <2>4 DEF Silent
<1> QED
  BY <1>1, Invariance, StreamInvariance, PTL

-----------------------------------------------------------------------------
(* Whether a success was cut short.                                        *)

\* The winner is heard to its own end: nobody but the client can cancel it
\* before that, and what it won by carried content.
UncutInv ==
    /\ winner # 0 => Usable(first)
    /\ pc \in {"committing", "relaying"} => winner \notin cancelled
    /\ ~clientGone /\ pc \in {"committing", "relaying"} =>
         (prod[winner] = "closed" => winner \in endedAlone)
    /\ ~clientGone /\ err = "nil" /\ winner # 0 => winner \in endedAlone

\* A step that neither wins nor ends the relay keeps it.
LEMMA UncutFrame ==
    ASSUME UncutInv, UNCHANGED first, winner # 0 => Usable(first)',
           clientGone => clientGone', endedAlone \subseteq endedAlone',
           pc' \in {"committing", "relaying"} =>
             /\ pc \in {"committing", "relaying"} /\ cancelled' = cancelled
             /\ ~clientGone /\ prod'[winner] = "closed" =>
                  prod[winner] = "closed" \/ winner \in endedAlone',
           err' = "nil" => err = "nil" \/ winner = 0
    PROVE  UncutInv'
<1>1. winner' = winner
  BY DEF winner
<1> QED
  BY <1>1 DEF UncutInv

\* The chunk that won stays the same chunk.
LEMMA WinningChunkStays ==
    ASSUME IndInv, StreamInv, Next, winner # 0, Usable(first), first' = first
    PROVE  Usable(first)'
<1> DEFINE s == script[winner]
<1>1. winner \in Backends /\ s \in Seq(BOOLEAN) /\ Len(s) \in Nat
      /\ first.chunk \in 1 .. Len(s)
  <2>1. winner \in Backends
    BY DEF IndInv, TypeOK, LoopType, winner, Event, NoEvent
  <2>2. s \in Seq(BOOLEAN)
    BY <2>1 DEF IndInv, TypeOK, PipeType
  <2> QED
    BY <2>1, <2>2, LenProperties DEF StreamInv, RelayInv
<1>2. s[first.chunk]
  BY DEF Usable, winner
<1>3. script'[winner][first.chunk]
  <2>1. CASE script'[winner] = s
    BY <1>2, <2>1
  <2>2. CASE script'[winner] # s
    <3>1. PICK usable \in BOOLEAN : script'[winner] = Append(s, usable)
      BY <1>1, <2>2, ProducerFrame DEF IndInv, StreamInv
    <3>2. Append(s, usable)[first.chunk] = s[first.chunk]
      BY <1>1, AppendProperties
    <3> QED
      BY <1>2, <3>1, <3>2
  <2> QED
    BY <2>1, <2>2
<1> QED
  BY <1>3 DEF Usable, winner

\* A winner has not been cancelled: whoever was cancelled before had failed.
LEMMA WinnerWasNotCancelled ==
    ASSUME IndInv, StreamInv, RaceWin
    PROVE  UncutInv'
<1> DEFINE h == Head(events)
<1>1. /\ Receive /\ first' = h /\ h.chunk > 0 /\ Usable(h) /\ pc = "racing"
      /\ UNCHANGED <<script, prod, err, clientGone, endedAlone>>
      /\ cancelled' = cancelled \cup Losers(h.idx)
  BY DEF RaceWin, Select, streamVars
<1>2. h \in Event /\ h.idx \in Backends
  BY <1>1, ReceiveType DEF IndInv, TypeOK, PipeType
<1>3. h.chunk \in 1 .. Len(script[h.idx])
  <2>1. PICK lo \in 1 .. MaxChunks + 1, hi \in 0 .. MaxChunks : Lane(h.idx, lo, hi)
    BY <1>2 DEF StreamInv, LaneInv
  <2>2. h.chunk = lo /\ lo <= hi /\ hi <= Sent(h.idx)
    BY <1>1, <2>1, HeadOfLane DEF Lane, IndInv, StreamInv
  <2>3. Sent(h.idx) \in Int /\ Sent(h.idx) <= Len(script[h.idx])
    BY <1>2, SentType DEF IndInv, StreamInv
  <2>4. Len(script[h.idx]) \in Nat
    BY <1>2, LenProperties DEF IndInv, TypeOK, PipeType
  <2> QED
    BY <2>1, <2>2, <2>3, <2>4
<1>4. h.idx \notin closed
  BY <1>1, <1>3 DEF StreamInv, HeardInv, Silent, Usable
<1>5. h.idx \notin cancelled'
  BY <1>1, <1>4 DEF StreamInv, BlameInv, Losers
<1>6. ~clientGone /\ prod[h.idx] = "closed" => h.idx \in endedAlone
  BY <1>1, <1>2 DEF StreamInv, BlameInv
<1>7. err = "none"
  BY <1>1 DEF StreamInv, OutcomeInv, IndInv, TypeOK, LoopType
<1>8. Usable(first)' /\ winner' = h.idx
  BY <1>1 DEF Usable, winner
<1> HIDE DEF h
<1> QED
  BY <1>1, <1>5, <1>6, <1>7, <1>8 DEF UncutInv

\* Every step keeps: a winner is heard to its own end.
LEMMA UncutStep ==
    ASSUME IndInv, StreamInv, StreamInv', UncutInv, Next
    PROVE  UncutInv'
<1> USE DEF bookVars, sinkVars, timerVars, ctxVars, streamVars
<1>u. first' = first => (winner # 0 => Usable(first)')
  BY WinningChunkStays DEF UncutInv
<1>p. pc \in {"start", "dialing", "racing"} => winner = 0
  BY DEF IndInv, PhaseInv, Decided
<1>1. CASE RaceWin
  BY <1>1, WinnerWasNotCancelled
<1>2. CASE RelayEnd
  <2>1. /\ pc = "relaying" /\ pc' = "unwinding"
        /\ UNCHANGED <<first, prod, clientGone, endedAlone>>
    BY <1>2 DEF RelayEnd, Leave
  <2>2. winner' = winner /\ winner # 0 /\ err' = "nil"
    BY <1>2, <2>1 DEF RelayEnd, Leave, winner, IndInv, PhaseInv
  <2>3. prod[winner] = "closed"
    BY <2>1, <2>2 DEF StreamInv, OutcomeInv
  <2> QED
    BY <1>u, <2>1, <2>2, <2>3 DEF UncutInv
<1>3. CASE Dialing
  BY <1>3, <1>u, <1>p, UncutFrame
  DEF Dialing, StartPrimary, Reserve, DialOk, DialErr, EnterLoop
<1>4. CASE RaceNoPath \/ RaceCtxDone \/ RaceTimeout \/ RaceFire \/ RaceClose
  <2>1. /\ pc = "racing" /\ UNCHANGED <<first, clientGone, endedAlone>>
        /\ pc' \notin {"committing", "relaying"}
    BY <1>4
    DEF RaceNoPath, RaceCtxDone, RaceTimeout, RaceFire, RaceClose, Select,
        Reserve, Leave
  <2> QED
    BY <2>1, <1>u, <1>p, UncutFrame
<1>5. CASE CommitOk \/ CommitErr \/ RelayCtxDone \/ RelayChunk
  <2>1. /\ pc \in {"committing", "relaying"} /\ (err' = "nil" => err = "nil")
        /\ UNCHANGED <<first, clientGone, endedAlone, cancelled, prod>>
    BY <1>5 DEF CommitOk, CommitErr, RelayCtxDone, RelayChunk, Leave
  <2> QED
    BY <2>1, <1>u, UncutFrame
<1>6. CASE CancelAll \/ WaitAndReturn
  <2>1. /\ pc' \notin {"committing", "relaying"} /\ err' = err
        /\ UNCHANGED <<first, clientGone, endedAlone>>
    BY <1>6 DEF CancelAll, WaitAndReturn
  <2> QED
    BY <2>1, <1>u, UncutFrame
<1>7. CASE RaceDiscard \/ RelayDiscard
  <2>1. UNCHANGED <<pc, first, err, clientGone, endedAlone, cancelled, prod>>
    BY <1>7 DEF RaceDiscard, RelayDiscard
  <2> QED
    BY <2>1, <1>u, UncutFrame
<1>8. CASE Environment \/ Terminated
  <2>1. UNCHANGED <<pc, first, err, endedAlone, cancelled, prod>>
        /\ (clientGone => clientGone')
    BY <1>8 DEF Environment, FireTick, TimeoutTick, ClientCancel, Terminated, vars
  <2> QED
    BY <2>1, <1>u, UncutFrame
<1>9. ASSUME NEW i \in Backends, Forwarder(i) \/ Produce(i)
      PROVE  UncutInv'
  <2>1. UNCHANGED <<pc, first, err, clientGone, endedAlone, cancelled, prod>>
    BY <1>9
    DEF Forwarder, FwdTake, FwdSend, FwdSeeClose, FwdSendClose, FwdCloseSkip,
        FwdCancelled, FwdDrain, FwdDrained, Produce
  <2> QED
    BY <2>1, <1>u, UncutFrame
<1>10. ASSUME NEW i \in Backends, ProducerEnd(i)
       PROVE  UncutInv'
  <2>1. /\ UNCHANGED <<pc, first, err, clientGone, cancelled, cancelledAll>>
        /\ prod' = [prod EXCEPT ![i] = "closed"]
        /\ endedAlone' = IF BeDone(i) THEN endedAlone ELSE endedAlone \cup {i}
    BY <1>10 DEF ProducerEnd
  <2>2. ~clientGone /\ pc \in {"committing", "relaying"} /\ i = winner =>
          i \in endedAlone'
    BY <2>1 DEF BeDone, RunDone, UncutInv, StreamInv, BlameInv
  <2>3. prod \in [Backends -> {"off", "running", "closed"}]
    BY DEF IndInv, TypeOK, PipeType
  <2>4. pc \in {"committing", "relaying"} /\ ~clientGone /\ prod'[winner] = "closed"
          => prod[winner] = "closed" \/ winner \in endedAlone'
    BY <2>1, <2>2, <2>3
  <2> QED
    BY <2>1, <2>4, <1>u, UncutFrame
<1> QED
  BY <1>1, <1>2, <1>3, <1>4, <1>5, <1>6, <1>7, <1>8, <1>9, <1>10
  DEF Next, Racing, Relaying, Unwinding, Producer

\* A winner is heard to its own end, in every reachable state.
THEOREM UncutInvariance == Spec => []UncutInv
<1>1. Init => UncutInv
  BY DEF Init, UncutInv, winner, NoEvent
<1>2. IndInv /\ StreamInv /\ StreamInv' /\ UncutInv /\ [Next]_vars => UncutInv'
  <2> SUFFICES ASSUME IndInv, StreamInv, StreamInv', UncutInv, [Next]_vars
               PROVE  UncutInv'
    OBVIOUS
  <2>1. CASE Next
    BY <2>1, UncutStep
  <2>2. CASE UNCHANGED vars
    BY <2>2
    DEF vars, sinkVars, ctxVars, streamVars, UncutInv, Usable, winner
  <2> QED
    BY <2>1, <2>2
<1> QED
  BY <1>1, <1>2, Invariance, StreamInvariance, PTL DEF Spec

\* A success was not cut short by the race itself: unless the client left, the
\* winner's stream ended on its own.
THEOREM SuccessIsNeverCut == Spec => []SuccessIsUncut
<1>1. StreamInv /\ UncutInv => SuccessIsUncut
  BY DEF SuccessIsUncut, StreamInv, OutcomeInv, UncutInv
<1> QED
  BY <1>1, StreamInvariance, UncutInvariance, PTL

-----------------------------------------------------------------------------
(* Upstream requests that are open are reservations that are held.         *)

\* A backend whose dial failed has no request open.
LEMMA LiveIsHeld ==
    ASSUME IndInv, StreamInv
    PROVE  /\ Live \subseteq Held
           /\ Cardinality(Live) \in Nat /\ Cardinality(Live) <= RunningCount
<1>1. ASSUME NEW i \in Live PROVE i \in Held
  <2>1. i \in Started /\ (prod[i] = "running" \/ (pc = "dialing" /\ i = started))
    BY DEF Live
  <2>2. i \notin failed
    BY <2>1 DEF IndInv, PhaseInv, StreamInv, BlameInv, HeardInv
  <2> QED
    BY <2>1, <2>2 DEF Held
<1>2. Live \subseteq Held
  BY <1>1
<1>3. IsFiniteSet(Held)
  BY HeldFinite DEF IndInv
<1> QED
  BY <1>2, <1>3, FS_Subset, FS_CardinalityType DEF RunningCount

\* A running producer is of a backend that was dialed, successfully.
LEMMA RunningWasDialed ==
    ASSUME IndInv, StreamInv, NEW i \in Backends, prod[i] = "running"
    PROVE  i \in Started /\ ~(pc = "dialing" /\ i = started)
<1>1. fwd[i] # "off"
  BY DEF StreamInv, CellInv, Cell
<1>2. ~(i > started) /\ ~(pc = "dialing" /\ i = started)
  BY <1>1 DEF StreamInv, CellInv, Cell
<1> QED
  BY <1>2 DEF IndInv, TypeOK, BookType, Started, Backends

\* Without a winner the first event is the contract's Nobody.
LEMMA WinnerIsDecided ==
    ASSUME TypeOK
    PROVE  Contract!Decided <=> winner # 0
BY DEF TypeOK, LoopType, Contract!Decided, Contract!Nobody, Event, NoEvent,
       Backends, winner

\* A policy, once resolved, is the run's for good.
LEMMA PolicyFrame == Next => UNCHANGED pol
<1> SUFFICES ASSUME Next PROVE UNCHANGED pol
  OBVIOUS
<1>1. CASE Dialing
  BY <1>1 DEF Dialing, StartPrimary, DialOk, DialErr
<1>2. CASE Racing
  BY <1>2, DiscardFrame
  DEF Racing, RaceNoPath, RaceCtxDone, RaceTimeout, RaceFire, RaceClose, RaceWin
<1>3. CASE Relaying \/ Unwinding
  BY <1>3, DiscardFrame
  DEF Relaying, CommitOk, CommitErr, RelayCtxDone, RelayEnd, RelayChunk,
      Unwinding, CancelAll, WaitAndReturn
<1>4. CASE Environment \/ Terminated
  BY <1>4, EnvironmentFrame DEF Terminated, vars
<1>5. CASE \E i \in Backends : Forwarder(i) \/ Producer(i)
  BY <1>5, BackgroundFrame
<1> QED
  BY <1>1, <1>2, <1>3, <1>4, <1>5 DEF Next

-----------------------------------------------------------------------------
(* One lemma per step of the contract.                                     *)

\* A step the contract does not speak of.
LEMMA ContractStutter ==
    ASSUME UNCHANGED <<pol, prod, started, first, log, result>>,
           pc' = "dialing" <=> pc = "dialing"
    PROVE  UNCHANGED Contract!cvars
<1>1. Live' = Live
  BY DEF Live, Started
<1>2. EffectiveMaxInFlight(pol)' = EffectiveMaxInFlight(pol)
  BY DEF EffectiveMaxInFlight
<1> QED
  BY <1>1, <1>2 DEF Contract!cvars

\* A reservation within the cap asks for one more upstream request.
LEMMA ReserveAsks ==
    ASSUME IndInv, StreamInv, Reserve, HasMore, winner = 0,
           pc \notin {"dialing", "returned"},
           RunningCount < EffectiveMaxInFlight(pol),
           UNCHANGED <<pol, prod, first, log, result>>
    PROVE  Contract!Ask
<1>1. Live' = Live \cup {started + 1}
  <2>1. started \in Nat /\ started' = started + 1 /\ pc' = "dialing"
    BY DEF IndInv, TypeOK, BookType, Reserve
  <2>2. prod[started + 1] # "running"
    <3>1. started + 1 \in Backends /\ started + 1 > started
      BY <2>1 DEF HasMore, Backends
    <3> QED
      BY <2>1, <3>1, RunningWasDialed DEF Started
  <2> QED
    BY <2>1, <2>2 DEF Live, Started
<1>2. Contract!Cardinality(Live) < EffectiveMaxInFlight(pol)
  <2>1. Cardinality(Live) < EffectiveMaxInFlight(pol)
    BY LiveIsHeld, HeldFinite, EffectivePositive DEF IndInv
  <2>2. Contract!Cardinality(Live) = Cardinality(Live)
    BY DEF Contract!Cardinality, Cardinality
  <2> QED
    BY <2>1, <2>2
<1>3. result = "pending" /\ ~Contract!Decided
  BY WinnerIsDecided DEF IndInv, StreamInv, OutcomeInv
<1>4. EffectiveMaxInFlight(pol)' = EffectiveMaxInFlight(pol)
  BY DEF EffectiveMaxInFlight
<1>5. started < NB /\ started' = started + 1
  BY DEF HasMore, Reserve
<1> QED
  BY <1>1, <1>2, <1>3, <1>4, <1>5 DEF Contract!Ask

\* A refused dial, or a producer's end, closes one upstream request.
LEMMA EndFinishes ==
    ASSUME IndInv, StreamInv, Next,
           DialErr \/ \E i \in Backends : ProducerEnd(i)
    PROVE  Contract!Finish
<1>p. EffectiveMaxInFlight(pol)' = EffectiveMaxInFlight(pol)
  BY PolicyFrame DEF EffectiveMaxInFlight
<1>t. prod \in [Backends -> {"off", "running", "closed"}] /\ started \in 0 .. NB
  BY DEF IndInv, TypeOK, PipeType, BookType
<1>1. CASE DialErr
  <2>1. /\ pc = "dialing" /\ pc' = "racing" /\ started \in Backends
        /\ prod' = [prod EXCEPT ![started] = "closed"]
        /\ UNCHANGED <<started, first, log, result>>
    BY <1>1, <1>t DEF DialErr, EnterLoop, sinkVars, IndInv, PhaseInv, Backends
  <2>2. started \in Live /\ Live' = Live \ {started}
    BY <1>t, <2>1 DEF Live, Started, Backends
  <2> QED
    BY <1>p, <2>1, <2>2 DEF Contract!Finish
<1>2. ASSUME NEW i \in Backends, ProducerEnd(i)
      PROVE  Contract!Finish
  <2>1. /\ prod[i] = "running" /\ prod' = [prod EXCEPT ![i] = "closed"]
        /\ UNCHANGED <<pc, started, first, log, result>>
    BY <1>2 DEF ProducerEnd, bookVars, sinkVars
  <2>2. i \in Started /\ ~(pc = "dialing" /\ i = started)
    BY <2>1, RunningWasDialed
  <2>3. i \in Live /\ Live' = Live \ {i}
    BY <1>t, <2>1, <2>2 DEF Live, Started, Backends
  <2> QED
    BY <1>p, <2>1, <2>3 DEF Contract!Finish
<1> QED
  BY <1>1, <1>2

\* The first usable token is the contract's win.
LEMMA RaceWinWins ==
    ASSUME IndInv, StreamInv, RaceWin
    PROVE  Contract!Win
<1> DEFINE h == Head(events)
<1>1. /\ Receive /\ first' = h /\ h.chunk > 0 /\ pc = "racing" /\ pc' = "committing"
      /\ UNCHANGED <<pol, prod, started, log, result>>
  BY DEF RaceWin, Select, bookVars, streamVars
<1>2. h \in Event /\ 1 \in 1 .. Len(events) /\ events[1] = h
  BY <1>1, ReceiveType, QueueReceive DEF IndInv, TypeOK, PipeType
<1>3. h.idx \in Backends /\ h.chunk \in 1 .. MaxChunks
      /\ h = [idx |-> h.idx, chunk |-> h.chunk]
  BY <1>1, <1>2 DEF Event
<1>4. h.idx \in 1 .. started
  <2>1. fwd[h.idx] # "off"
    BY <1>2 DEF StreamInv, OrderInv
  <2>2. ~(h.idx > started)
    BY <1>3, <2>1 DEF StreamInv, CellInv, Cell
  <2> QED
    BY <1>3, <2>2 DEF Backends, IndInv, TypeOK, BookType
<1>5. result = "pending" /\ ~Contract!Decided
  BY <1>1, WinnerIsDecided DEF IndInv, PhaseInv, Decided, StreamInv, OutcomeInv
<1>6. Live' = Live /\ EffectiveMaxInFlight(pol)' = EffectiveMaxInFlight(pol)
  BY <1>1 DEF Live, Started, EffectiveMaxInFlight
<1> HIDE DEF h
<1> QED
  BY <1>1, <1>3, <1>4, <1>5, <1>6 DEF Contract!Win

\* A chunk the sink accepts is the winner's next.
LEMMA RelaySends ==
    ASSUME IndInv, StreamInv, RelayInv', CommitOk \/ RelayChunk,
           NEW e \in Event, log' = Append(log, e)
    PROVE  Contract!Send
<1>1. /\ pc \in {"committing", "relaying"} /\ pc' # "dialing"
      /\ UNCHANGED <<pol, prod, started, first, result>>
  BY DEF CommitOk, RelayChunk, bookVars, streamVars, Leave
<1>2. log \in Seq(Event) /\ Len(log) \in Nat /\ log' \in Seq(Event)
      /\ Len(log) + 1 \in DOMAIN log' /\ log'[Len(log) + 1] = e
  <2>1. log \in Seq(Event)
    BY DEF IndInv, TypeOK, LoopType
  <2> QED
    BY <2>1, LenProperties, AppendProperties
<1>3. e = [first EXCEPT !.chunk = @ + (Len(log) + 1) - 1]
  BY <1>1, <1>2 DEF RelayInv, RelayIsOneStream
<1>4. e = [first EXCEPT !.chunk = @ + Len(log)]
  <2>1. winner # 0
    BY <1>1 DEF IndInv, PhaseInv
  <2>2. first \in Event
    BY <2>1 DEF IndInv, TypeOK, LoopType, NoEvent, winner
  <2>3. first.chunk \in Nat
    BY <2>2 DEF Event
  <2>4. first.chunk + (Len(log) + 1) - 1 = first.chunk + Len(log)
    BY <1>2, <2>3
  <2> QED
    BY <1>3, <2>4
<1>5. result = "pending" /\ Contract!Decided
  BY <1>1, WinnerIsDecided DEF IndInv, PhaseInv, StreamInv, OutcomeInv
<1>6. Live' = Live /\ EffectiveMaxInFlight(pol)' = EffectiveMaxInFlight(pol)
  BY <1>1 DEF Live, Started, EffectiveMaxInFlight
<1> QED
  BY <1>1, <1>4, <1>5, <1>6 DEF Contract!Send

\* Run returns with every upstream request closed, and says what happened.
LEMMA WaitReturns ==
    ASSUME IndInv, StreamInv, WaitAndReturn
    PROVE  Contract!Return
<1>1. /\ pc = "waiting" /\ pc' = "returned" /\ result' = ReturnedError /\ AllTornDown
      /\ UNCHANGED <<pol, prod, started, first, log>>
  BY DEF WaitAndReturn, bookVars, streamVars
<1>2. Live = {}
  BY <1>1 DEF Live, AllTornDown, IndInv, TearInv, TypeOK, BookType, Started, Backends
<1>3. Live' = Live /\ EffectiveMaxInFlight(pol)' = EffectiveMaxInFlight(pol)
  BY <1>1 DEF Live, Started, EffectiveMaxInFlight
<1>4. /\ result = "pending" /\ err \in {"nil", "ctx", "sink"}
      /\ err = "sink" => winner # 0
      /\ err = "nil" /\ winner # 0 => log # <<>>
  BY <1>1 DEF IndInv, PhaseInv, TypeOK, LoopType, StreamInv, OutcomeInv
<1>5. \/ result' = "ok" /\ log # <<>>
      \/ result' = "allFailed" /\ ~Contract!Decided
      \/ result' = "ctx"
      \/ result' = "sink" /\ Contract!Decided
  BY <1>1, <1>4, WinnerIsDecided DEF ReturnedError, IndInv
<1> QED
  BY <1>1, <1>2, <1>3, <1>4, <1>5 DEF Contract!Return

-----------------------------------------------------------------------------
(* The refinement.                                                         *)

\* Every step of the run is a step of the contract or a stutter.
LEMMA ContractStep ==
    ASSUME IndInv, StreamInv, RelayInv', Next
    PROVE  [Contract!Next]_(Contract!cvars)
<1> USE DEF bookVars, sinkVars, streamVars
<1>1. CASE StartPrimary
  <2>1. started = 0 /\ winner = 0
    BY <1>1 DEF StartPrimary, IndInv, PhaseInv, Decided
  <2>2. RunningCount < EffectiveMaxInFlight(pol)
    <3>1. Held = {}
      BY <2>1 DEF Held, Started
    <3>2. RunningCount = 0
      BY <3>1, FS_EmptySet DEF RunningCount
    <3> QED
      BY <3>2, EffectivePositive DEF IndInv
  <2>3. Contract!Ask
    BY <1>1, <2>1, <2>2, ReserveAsks DEF StartPrimary, HasMore
  <2> QED
    BY <2>3 DEF Contract!Next
<1>2. CASE DialOk
  <2>1. /\ pc = "dialing" /\ pc' = "racing" /\ started \in Backends
        /\ prod' = [prod EXCEPT ![started] = "running"]
        /\ UNCHANGED <<pol, started, first, log, result>>
    BY <1>2 DEF DialOk, EnterLoop, IndInv, PhaseInv, TypeOK, BookType, Backends
  <2>2. prod \in [Backends -> {"off", "running", "closed"}] /\ started \in 0 .. NB
    BY DEF IndInv, TypeOK, PipeType, BookType
  <2>3. Live' = Live /\ EffectiveMaxInFlight(pol)' = EffectiveMaxInFlight(pol)
    BY <2>1, <2>2 DEF Live, Started, Backends, EffectiveMaxInFlight
  <2> QED
    BY <2>1, <2>3 DEF Contract!cvars
<1>3. CASE RaceFire \/ RaceClose
  <2>1. /\ pc = "racing" /\ winner = 0
        /\ UNCHANGED <<pol, prod, first, log, result>>
    BY <1>3 DEF RaceFire, RaceClose, Select, IndInv, PhaseInv, Decided
  <2>2. CASE CanStartAnother /\ Reserve
    <3>1. RunningCount < EffectiveMaxInFlight(pol) /\ HasMore
      BY <2>1, <2>2 DEF CanStartAnother, AllowStart, IndInv, PhaseInv, TypeOK, BookType
    <3>2. Contract!Ask
      BY <2>1, <2>2, <3>1, ReserveAsks
    <3> QED
      BY <3>2 DEF Contract!Next
  <2>3. CASE UNCHANGED <<pc, started>>
    BY <2>1, <2>3, ContractStutter
  <2> QED
    BY <1>3, <2>2, <2>3 DEF RaceFire, RaceClose
<1>4. CASE RaceWin
  BY <1>4, RaceWinWins DEF Contract!Next
<1>5. CASE CommitOk
  <2>1. log' = Append(log, first) /\ first \in Event
    <3>1. log = <<>> /\ winner # 0
      BY <1>5 DEF CommitOk, IndInv, PhaseInv
    <3>2. first \in Event
      BY <3>1 DEF IndInv, TypeOK, LoopType, winner, NoEvent
    <3>3. <<first>> = Append(<<>>, first)
      BY <3>2
    <3> QED
      BY <1>5, <3>1, <3>2, <3>3 DEF CommitOk
  <2> QED
    BY <1>5, <2>1, RelaySends DEF Contract!Next
<1>6. CASE RelayChunk
  <2>1. Head(events) \in Event
    BY <1>6, ReceiveType DEF RelayChunk, IndInv, TypeOK, PipeType
  <2>2. CASE log' = Append(log, Head(events))
    BY <1>6, <2>1, <2>2, RelaySends DEF Contract!Next
  <2>3. CASE Leave("sink") /\ UNCHANGED log
    BY <1>6, <2>3, ContractStutter DEF RelayChunk, Leave
  <2> QED
    BY <1>6, <2>2, <2>3 DEF RelayChunk
<1>7. CASE WaitAndReturn
  BY <1>7, WaitReturns DEF Contract!Next
<1>8. CASE DialErr \/ \E i \in Backends : ProducerEnd(i)
  BY <1>8, EndFinishes DEF Contract!Next
<1>9. CASE RaceNoPath \/ RaceCtxDone \/ RaceTimeout
  BY <1>9, ContractStutter DEF RaceNoPath, RaceCtxDone, RaceTimeout, Select, Leave
<1>10. CASE CommitErr \/ RelayCtxDone \/ RelayEnd \/ CancelAll
  BY <1>10, ContractStutter DEF CommitErr, RelayCtxDone, RelayEnd, CancelAll, Leave
<1>11. CASE RaceDiscard \/ RelayDiscard
  BY <1>11, DiscardFrame, ContractStutter
<1>12. CASE Environment \/ Terminated
  BY <1>12, EnvironmentFrame, ContractStutter DEF Terminated, vars
<1>13. ASSUME NEW i \in Backends, Forwarder(i) \/ Produce(i)
       PROVE  UNCHANGED Contract!cvars
  <2>1. UNCHANGED prod
    BY <1>13
    DEF Forwarder, FwdTake, FwdSend, FwdSeeClose, FwdSendClose, FwdCloseSkip,
        FwdCancelled, FwdDrain, FwdDrained, Produce
  <2> QED
    BY <1>13, <2>1, BackgroundFrame, ContractStutter DEF Producer
<1> QED
  BY <1>1, <1>2, <1>3, <1>4, <1>5, <1>6, <1>7, <1>8, <1>9, <1>10, <1>11, <1>12,
     <1>13
  DEF Next, Dialing, Racing, Relaying, Unwinding, Producer

\* Whatever the race does, its caller sees the contract: a bounded number of
\* upstream requests, one winner, its chunks in order, and none left open when
\* Run returns.
THEOREM RunKeepsContract == Spec => KeepsContract
<1>1. Init => Contract!Init
  BY DEF Init, Contract!Init, Contract!Nobody, NoEvent, Live, Started
<1>2. IndInv /\ StreamInv /\ StreamInv' /\ [Next]_vars
        => [Contract!Next]_(Contract!cvars)
  <2> SUFFICES ASSUME IndInv, StreamInv, StreamInv', [Next]_vars
               PROVE  [Contract!Next]_(Contract!cvars)
    OBVIOUS
  <2>1. CASE Next
    BY <2>1, ContractStep DEF StreamInv
  <2>2. CASE UNCHANGED vars
    BY <2>2, ContractStutter DEF vars, bookVars, sinkVars, streamVars
  <2> QED
    BY <2>1, <2>2
<1> QED
  BY <1>1, <1>2, Invariance, StreamInvariance, PTL
  DEF Spec, KeepsContract, Contract!Spec
=============================================================================
