-------------------------- MODULE HedgeSystemProofs --------------------------
(***************************************************************************)
(* Machine-checked proofs that the race over real backends implements      *)
(* HedgeRun, and of what that gives: with HedgeRun's own theorems, what a  *)
(* run reports and leaves behind is true of its upstreams.                 *)
(* Then the same one level up: a request served by such a run is one of    *)
(* HedgeProxy's, and what its client is told and the registry counts is    *)
(* true of the upstreams.                                                  *)
(***************************************************************************)
EXTENDS HedgeService, FiniteSetTheorems, SequenceTheorems, TLAPS

\* The proofs about HedgeRun, for the producers that HedgeSystem reads off its
\* backends.
P == INSTANCE HedgeStreamProofs
    WITH prod <- [i \in 1 .. NB |-> ProducerOf(i)],
         ch <- [i \in 1 .. NB |-> OnChannel(i)],
         script <- [i \in 1 .. NB |-> ScriptOf(i)]

USE SystemAssumption

-----------------------------------------------------------------------------
(* P and HedgeSystem's Run are two instances of the same definitions.      *)

\* They add up the same costs.
LEMMA SameCost == P!CommittedCostDelta = Run!CommittedCostDelta
BY DEF P!CommittedCostDelta, Run!CommittedCostDelta, P!Held, Run!Held,
       P!Started, Run!Started, P!MapThenSumSet, Run!MapThenSumSet,
       P!MapThenFoldSet, Run!MapThenFoldSet

\* They count alike.
LEMMA SameCount ==
    ASSUME NEW S
    PROVE  P!Cardinality(S) = Cardinality(S) /\ Run!Cardinality(S) = Cardinality(S)
BY DEF P!Cardinality, Run!Cardinality, Cardinality

\* They decide alike what may be started.
LEMMA SameGuards ==
    /\ P!RunningCount = Run!RunningCount
    /\ P!CanStartAnother <=> Run!CanStartAnother
    /\ P!NoPathToWinner <=> Run!NoPathToWinner
    /\ P!ShouldStartAfterLoss <=> Run!ShouldStartAfterLoss
    /\ \A n, s : P!ArmFire(n, s) = Run!ArmFire(n, s)
BY SameCost, SameCount
DEF P!RunningCount, Run!RunningCount, P!Held, Run!Held, P!Started,
    Run!Started, P!CanStartAnother, Run!CanStartAnother, P!HasMore,
    Run!HasMore, P!AllowStart, Run!AllowStart, P!EffectiveMaxInFlight,
    Run!EffectiveMaxInFlight, P!CostAllows, Run!CostAllows,
    P!NoPathToWinner, Run!NoPathToWinner, P!Producing, Run!Producing,
    P!ShouldStartAfterLoss, Run!ShouldStartAfterLoss, P!HasHeadroom,
    Run!HasHeadroom, P!ArmFire, Run!ArmFire

\* The two instances begin alike.
LEMMA SameInit == P!Init <=> Run!Init
BY DEF P!Init, Run!Init, P!Backends, Run!Backends, P!NoEvent, Run!NoEvent

\* The two instances call Stream alike.
LEMMA SameDialing == P!Dialing <=> Run!Dialing
BY SameCount, SameGuards
DEF P!Dialing, Run!Dialing, P!StartPrimary, Run!StartPrimary, P!sinkVars,
    Run!sinkVars, P!timerVars, Run!timerVars, P!ctxVars, Run!ctxVars,
    P!fwdVars, Run!fwdVars, P!streamVars, Run!streamVars, P!Reserve,
    Run!Reserve, P!DialOk, Run!DialOk, P!bookVars, Run!bookVars,
    P!EnterLoop, Run!EnterLoop, P!TimeoutOnEntry, Run!TimeoutOnEntry,
    P!DialErr, Run!DialErr, P!Held, Run!Held, P!Started, Run!Started,
    P!RunDone, Run!RunDone, P!Clamp, Run!Clamp

\* The two instances race alike.
LEMMA SameRacing == P!Racing <=> Run!Racing
<1>1. P!RaceNoPath <=> Run!RaceNoPath
  BY SameGuards
  DEF P!RaceNoPath, Run!RaceNoPath, P!bookVars, Run!bookVars, P!timerVars,
      Run!timerVars, P!ctxVars, Run!ctxVars, P!fwdVars, Run!fwdVars,
      P!streamVars, Run!streamVars, P!Leave, Run!Leave
<1>2. P!RaceCtxDone <=> Run!RaceCtxDone
  BY SameGuards
  DEF P!RaceCtxDone, Run!RaceCtxDone, P!bookVars, Run!bookVars, P!timerVars,
      Run!timerVars, P!ctxVars, Run!ctxVars, P!fwdVars, Run!fwdVars,
      P!streamVars, Run!streamVars, P!RunDone, Run!RunDone, P!Leave,
      Run!Leave, P!Select, Run!Select
<1>3. P!RaceTimeout <=> Run!RaceTimeout
  BY SameGuards
  DEF P!RaceTimeout, Run!RaceTimeout, P!bookVars, Run!bookVars, P!ctxVars,
      Run!ctxVars, P!fwdVars, Run!fwdVars, P!streamVars, Run!streamVars,
      P!Leave, Run!Leave, P!Select, Run!Select
<1>4. P!RaceFire <=> Run!RaceFire
  BY SameGuards
  DEF P!RaceFire, Run!RaceFire, P!sinkVars, Run!sinkVars, P!ctxVars,
      Run!ctxVars, P!fwdVars, Run!fwdVars, P!streamVars, Run!streamVars,
      P!Reserve, Run!Reserve, P!Select, Run!Select
<1>5. P!RaceClose <=> Run!RaceClose
  BY SameGuards
  DEF P!RaceClose, Run!RaceClose, P!sinkVars, Run!sinkVars, P!ctxVars,
      Run!ctxVars, P!streamVars, Run!streamVars, P!Reserve, Run!Reserve,
      P!Select, Run!Select, P!Receive, Run!Receive
<1>6. P!RaceDiscard <=> Run!RaceDiscard
  BY SameGuards
  DEF P!RaceDiscard, Run!RaceDiscard, P!bookVars, Run!bookVars, P!sinkVars,
      Run!sinkVars, P!timerVars, Run!timerVars, P!ctxVars, Run!ctxVars,
      P!streamVars, Run!streamVars, P!Usable, Run!Usable, P!Select,
      Run!Select, P!Receive, Run!Receive
<1>7. P!RaceWin <=> Run!RaceWin
  BY SameGuards
  DEF P!RaceWin, Run!RaceWin, P!bookVars, Run!bookVars, P!streamVars,
      Run!streamVars, P!Usable, Run!Usable, P!Losers, Run!Losers, P!Started,
      Run!Started, P!Select, Run!Select, P!Receive, Run!Receive
<1> QED
  BY <1>1, <1>2, <1>3, <1>4, <1>5, <1>6, <1>7 DEF P!Racing, Run!Racing

\* The two instances relay alike.
LEMMA SameRelaying == P!Relaying <=> Run!Relaying
BY DEF P!Relaying, Run!Relaying, P!CommitOk, Run!CommitOk, P!bookVars,
    Run!bookVars, P!timerVars, Run!timerVars, P!ctxVars, Run!ctxVars,
    P!fwdVars, Run!fwdVars, P!streamVars, Run!streamVars, P!CommitErr,
    Run!CommitErr, P!Leave, Run!Leave, P!RelayCtxDone, Run!RelayCtxDone,
    P!RunDone, Run!RunDone, P!RelayDiscard, Run!RelayDiscard, P!sinkVars,
    Run!sinkVars, P!FromWinner, Run!FromWinner, P!winner, Run!winner,
    P!Receive, Run!Receive, P!RelayEnd, Run!RelayEnd, P!RelayChunk,
    Run!RelayChunk

\* The two instances tear down alike.
LEMMA SameUnwinding == P!Unwinding <=> Run!Unwinding
BY SameCost
DEF P!Unwinding, Run!Unwinding, P!CancelAll, Run!CancelAll, P!bookVars,
    Run!bookVars, P!sinkVars, Run!sinkVars, P!timerVars, Run!timerVars,
    P!fwdVars, Run!fwdVars, P!streamVars, Run!streamVars, P!WaitAndReturn,
    Run!WaitAndReturn, P!ctxVars, Run!ctxVars, P!Clamp, Run!Clamp,
    P!AllTornDown, Run!AllTornDown, P!Started, Run!Started, P!ReturnedError,
    Run!ReturnedError, P!winner, Run!winner

\* The two instances have the same timers and the same client.
LEMMA SameEnvironment == P!Environment <=> Run!Environment
BY DEF P!Environment, Run!Environment, P!FireTick, Run!FireTick, P!bookVars,
    Run!bookVars, P!sinkVars, Run!sinkVars, P!ctxVars, Run!ctxVars,
    P!fwdVars, Run!fwdVars, P!streamVars, Run!streamVars, P!TimeoutTick,
    Run!TimeoutTick, P!ClientCancel, Run!ClientCancel, P!timerVars,
    Run!timerVars

\* The two instances end alike.
LEMMA SameTerminated == P!Terminated <=> Run!Terminated
BY DEF P!Terminated, Run!Terminated, P!vars, Run!vars, P!bookVars,
    Run!bookVars, P!sinkVars, Run!sinkVars, P!timerVars, Run!timerVars,
    P!ctxVars, Run!ctxVars, P!fwdVars, Run!fwdVars, P!streamVars,
    Run!streamVars

\* The two instances forward alike.
LEMMA SameForwarder == ASSUME NEW i PROVE P!Forwarder(i) <=> Run!Forwarder(i)
BY DEF P!Forwarder, Run!Forwarder, P!FwdTake, Run!FwdTake, P!bookVars,
    Run!bookVars, P!sinkVars, Run!sinkVars, P!timerVars, Run!timerVars,
    P!ctxVars, Run!ctxVars, P!FwdSend, Run!FwdSend, P!streamVars,
    Run!streamVars, P!FwdSeeClose, Run!FwdSeeClose, P!FwdSendClose,
    Run!FwdSendClose, P!FwdCloseSkip, Run!FwdCloseSkip, P!CloseGivesUp,
    Run!CloseGivesUp, P!RunDone, Run!RunDone, P!FwdCancelled,
    Run!FwdCancelled, P!BeDone, Run!BeDone, P!FwdDrain, Run!FwdDrain,
    P!fwdVars, Run!fwdVars, P!FwdDrained, Run!FwdDrained

\* The two instances produce alike.
LEMMA SameProducer == ASSUME NEW i PROVE P!Producer(i) <=> Run!Producer(i)
BY DEF P!Producer, Run!Producer, P!Produce, Run!Produce, P!bookVars,
    Run!bookVars, P!sinkVars, Run!sinkVars, P!timerVars, Run!timerVars,
    P!ctxVars, Run!ctxVars, P!fwdVars, Run!fwdVars, P!ProducerEnd,
    Run!ProducerEnd, P!BeDone, Run!BeDone, P!RunDone, Run!RunDone

\* The two instances stutter alike.
LEMMA SameStutter == UNCHANGED P!vars <=> UNCHANGED Run!vars
BY DEF P!vars, Run!vars, P!bookVars, Run!bookVars, P!sinkVars, Run!sinkVars,
       P!timerVars, Run!timerVars, P!ctxVars, Run!ctxVars, P!fwdVars,
       Run!fwdVars, P!streamVars, Run!streamVars

\* So they are the same specification.
LEMMA SameRun == P!Spec <=> Run!Spec
<1>1. P!Next <=> Run!Next
  BY SameDialing, SameRacing, SameRelaying, SameUnwinding, SameEnvironment,
     SameTerminated, SameForwarder, SameProducer
  DEF P!Next, Run!Next, P!Backends, Run!Backends
<1>2. [P!Next]_P!vars <=> [Run!Next]_Run!vars
  BY <1>1, SameStutter
<1> QED
  BY <1>2, SameInit, PTL DEF P!Spec, Run!Spec

\* What HedgeRun assumes of its constants is assumed here.
LEMMA RunAssumed == P!RunAssumption
BY DEF P!RunAssumption, SystemAssumption, Run!RunAssumption

-----------------------------------------------------------------------------
(* The inductive invariant that the simulation needs, by concern.          *)

\* Which backends have been asked.
AskedInv ==
    /\ started \in 0 .. NB
    /\ pc = "start" => started = 0
    /\ pc = "dialing" => started > 0
    /\ \A i \in Backends : state[i] # "unasked" => i <= started

\* What each backend's state is made of.
BackendInv ==
    /\ want \in [Backends -> Answers]
    /\ state \in [Backends -> {"unasked", "starting", "refused", "open", "closed"}]
    /\ sent \in [Backends -> Nat]
    /\ queue \in [Backends -> Seq(Nat)]
    /\ connected \in [Backends -> BOOLEAN]

\* How far a backend is: it has sent only of what it has to say and only once
\* it was open, and it is connected only while its stream is to end.
SentInv ==
    \A i \in Backends :
        /\ sent[i] <= Len(want[i])
        /\ queue[i] # <<>> => sent[i] > 0
        /\ state[i] \in {"unasked", "starting", "refused"} => sent[i] = 0
        /\ connected[i] => state[i] \in {"starting", "open"}

\* A stream that ended by itself had said all there was to say.
SaidInv ==
    \A i \in endedAlone :
        /\ i \in Backends
        /\ state[i] = "refused" \/ (state[i] = "closed" /\ sent[i] = Len(want[i]))

SystemInv == AskedInv /\ BackendInv /\ SentInv /\ SaidInv

\* Nobody is asked and nothing is said at first.
LEMMA SystemInit == Init => SystemInv
<1> SUFFICES ASSUME Init PROVE SystemInv
  OBVIOUS
<1> USE DEF Init, Backends, Run!Backends
<1>1. /\ started = 0 /\ pc = "start" /\ endedAlone = {} /\ NB \in Nat
  BY DEF Run!Init, Run!RunAssumption
<1>2. AskedInv /\ SaidInv
  BY <1>1 DEF AskedInv, SaidInv
<1>3. BackendInv
  BY DEF BackendInv
<1>4. SentInv
  <2>1. \A i \in Backends : want[i] \in Seq(Nat)
    OBVIOUS
  <2> QED
    BY <2>1, LenProperties DEF SentInv
<1> QED
  BY <1>2, <1>3, <1>4 DEF SystemInv

\* What a step of one backend does to them: those that have ended stay so.
LEMMA PeerStep ==
    ASSUME BackendInv, SentInv, NEW p \in Backends,
           \/ Peer!Ask(p) \/ Peer!Connect(p) \/ Peer!Refuse(p) \/ Peer!Open(p)
           \/ Peer!Send(p) \/ Peer!Take(p) \/ Peer!Release(p) \/ Peer!Close(p)
    PROVE  /\ BackendInv' /\ SentInv' /\ want' = want
           /\ \A i \in Backends :
                /\ state[i] \in {"refused", "closed"} =>
                     state'[i] = state[i] /\ sent'[i] = sent[i]
                /\ state'[i] # "unasked" => state[i] # "unasked" \/ i = p
<1> USE DEF BackendInv
<1>1. \A i \in Backends : want[i] \in Seq(Nat) /\ Len(want[i]) \in Nat
  BY LenProperties
<1>2. CASE Peer!Ask(p)
  BY <1>2 DEF SentInv, Peer!Ask
<1>3. CASE Peer!Connect(p) \/ Peer!Release(p)
  BY <1>3 DEF SentInv, Peer!Connect, Peer!Release
<1>4. CASE Peer!Refuse(p)
  BY <1>4 DEF SentInv, Peer!Refuse
<1>5. CASE Peer!Open(p)
  BY <1>5 DEF SentInv, Peer!Open
<1>6. CASE Peer!Send(p)
  <2>1. /\ state[p] = "open" /\ sent[p] < Len(want[p])
        /\ queue' = [queue EXCEPT ![p] = <<want[p][sent[p] + 1]>>]
        /\ sent' = [sent EXCEPT ![p] = sent[p] + 1]
        /\ UNCHANGED <<want, state, connected>>
    BY <1>6 DEF Peer!Send
  <2>2. sent[p] \in Nat /\ want[p] \in Seq(Nat) /\ Len(want[p]) \in Nat
    BY <1>1
  <2>3. sent[p] + 1 \in 1 .. Len(want[p])
    BY <2>1, <2>2
  <2>4. want[p][sent[p] + 1] \in Nat
    BY <2>2, <2>3, ElementOfSeq
  <2>5. <<want[p][sent[p] + 1]>> \in Seq(Nat)
    BY <2>4
  <2>6. BackendInv'
    <3>1. queue' \in [Backends -> Seq(Nat)]
      BY <2>1, <2>5
    <3>2. sent[p] + 1 \in Nat
      BY <2>2
    <3>3. sent' \in [Backends -> Nat]
      BY <2>1, <3>2
    <3> QED
      BY <2>1, <3>1, <3>3
  <2>7. SentInv'
    <3>1. sent'[p] \in Nat /\ sent'[p] <= Len(want'[p]) /\ sent'[p] > 0
      BY <2>1, <2>2
    <3>2. state'[p] = "open"
      BY <2>1
    <3>3. ASSUME NEW i \in Backends, i # p
          PROVE  /\ sent'[i] = sent[i] /\ want'[i] = want[i] /\ queue'[i] = queue[i]
                 /\ state'[i] = state[i] /\ connected'[i] = connected[i]
      BY <2>1, <3>3
    <3> QED
      BY <3>1, <3>2, <3>3 DEF SentInv
  <2> QED
    BY <2>1, <2>6, <2>7
<1>7. CASE Peer!Take(p)
  BY <1>7 DEF SentInv, Peer!Take
<1>8. CASE Peer!Close(p)
  BY <1>8 DEF SentInv, Peer!Close
<1> QED
  BY <1>2, <1>3, <1>4, <1>5, <1>6, <1>7, <1>8

\* The loop by itself asks backends one at a time and ends none.
LEMMA LoopStep ==
    ASSUME AskedInv, Loop
    PROVE  AskedInv' /\ endedAlone' = endedAlone
<1> USE DEF Backends, Run!Backends
<1>0. NB \in Nat \ {0} /\ started \in 0 .. NB /\ UNCHANGED state
  BY DEF Run!RunAssumption, AskedInv, Loop, backendVars
<1>1. CASE Run!StartPrimary
  BY <1>0, <1>1 DEF AskedInv, Run!StartPrimary, Run!Reserve, Run!streamVars
<1>2. CASE Run!RaceFire \/ Run!RaceClose
  <2>1. endedAlone' = endedAlone
    BY <1>2 DEF Run!RaceFire, Run!RaceClose, Run!streamVars
  <2>2. CASE Run!CanStartAnother /\ Run!Reserve
    BY <1>0, <2>1, <2>2 DEF AskedInv, Run!CanStartAnother, Run!HasMore, Run!Reserve
  <2>3. CASE UNCHANGED <<pc, started>>
    BY <1>0, <2>1, <2>3 DEF AskedInv
  <2> QED
    BY <1>2, <2>2, <2>3 DEF Run!RaceFire, Run!RaceClose
<1>3. CASE \/ Run!RaceNoPath \/ Run!RaceCtxDone \/ Run!RaceTimeout
           \/ Run!RaceDiscard \/ Run!RaceWin \/ Run!Relaying
  <2>1. UNCHANGED <<started, endedAlone>> /\ pc' \notin {"start", "dialing"}
    BY <1>3
    DEF Run!RaceNoPath, Run!RaceCtxDone, Run!RaceTimeout, Run!RaceDiscard,
        Run!RaceWin, Run!Relaying, Run!CommitOk, Run!CommitErr,
        Run!RelayCtxDone, Run!RelayDiscard, Run!RelayEnd, Run!RelayChunk,
        Run!Select, Run!Leave, Run!bookVars, Run!streamVars
  <2> QED
    BY <1>0, <2>1 DEF AskedInv
<1>4. CASE Run!Unwinding \/ Run!Environment
  <2>1. UNCHANGED <<started, endedAlone>> /\ (pc' = pc \/ pc' \notin {"start", "dialing"})
    BY <1>4
    DEF Run!Unwinding, Run!CancelAll, Run!WaitAndReturn, Run!Environment,
        Run!FireTick, Run!TimeoutTick, Run!ClientCancel, Run!bookVars,
        Run!streamVars
  <2> QED
    BY <1>0, <2>1 DEF AskedInv
<1> QED
  BY <1>1, <1>2, <1>3, <1>4 DEF Loop, Run!Racing

\* Every step keeps the invariant.
LEMMA SystemStep ==
    ASSUME SystemInv, Next
    PROVE  SystemInv'
<1> USE DEF SystemInv, Backends, Run!Backends
<1>0. NB \in Nat \ {0} /\ started \in 0 .. NB
  BY DEF Run!RunAssumption, AskedInv
<1>1. CASE Loop
  <2>1. AskedInv' /\ endedAlone' = endedAlone /\ UNCHANGED backendVars
    BY <1>1, LoopStep DEF Loop
  <2> QED
    BY <2>1 DEF backendVars, BackendInv, SentInv, SaidInv
<1>2. CASE DialOk \/ DialErr
  <2>1. started \in Backends /\ UNCHANGED started /\ pc' = "racing"
    BY <1>0, <1>2 DEF DialOk, DialErr, AskedInv, bookVars, Run!EnterLoop
  <2>2. Peer!Open(started) \/ Peer!Refuse(started)
    BY <1>2 DEF DialOk, DialErr
  <2>3. AskedInv' /\ BackendInv' /\ SentInv'
    BY <1>0, <2>1, <2>2, PeerStep DEF AskedInv
  <2>4. SaidInv'
    <3>1. CASE DialOk
      <4>1. endedAlone' = endedAlone
        BY <3>1 DEF DialOk
      <4> QED
        BY <2>1, <2>2, <4>1, PeerStep DEF SaidInv
    <3>2. CASE DialErr
      <4>1. endedAlone' \subseteq endedAlone \cup {started} /\ Peer!Refuse(started)
        BY <3>2 DEF DialErr
      <4>2. state'[started] = "refused"
        BY <2>1, <4>1 DEF Peer!Refuse, BackendInv
      <4> QED
        BY <2>1, <4>1, <4>2, PeerStep DEF SaidInv
    <3> QED
      BY <1>2, <3>1, <3>2
  <2> QED
    BY <2>3, <2>4
<1>3. ASSUME NEW i \in Backends, Forward(i) \/ ReceiveClose(i) PROVE SystemInv'
  <2>1. UNCHANGED <<started, pc, endedAlone, want, state, sent, queue, connected>>
    BY <1>3
    DEF Forward, ReceiveClose, Run!FwdSend, Run!FwdSendClose, Run!FwdCloseSkip,
        Run!FwdCancelled, bookVars, backendVars, Run!bookVars, Run!streamVars
  <2> QED
    BY <2>1 DEF AskedInv, BackendInv, SentInv, SaidInv
<1>4. ASSUME NEW i \in Backends, Start(i) \/ Stream(i) \/ Receive(i) PROVE SystemInv'
  <2>1. UNCHANGED <<started, pc, endedAlone>>
    BY <1>4 DEF Start, Stream, Receive, runVars, bookVars
  <2>2. \/ Peer!Ask(i) \/ Peer!Connect(i) \/ Peer!Send(i) \/ Peer!Release(i)
        \/ Peer!Take(i)
    BY <1>4 DEF Start, Stream, Receive
  <2>3. i <= started \/ state' = state
    BY <1>0, <1>4, <2>2
    DEF Start, Stream, Receive, AskedInv, Peer!Send, Peer!Release, Peer!Take
  <2> QED
    BY <2>1, <2>2, <2>3, PeerStep DEF AskedInv, SaidInv
<1>5. ASSUME NEW i \in Backends, Close(i) PROVE SystemInv'
  <2>1. /\ UNCHANGED <<started, pc>> /\ Peer!Close(i) /\ state[i] = "open"
        /\ endedAlone' = IF Run!BeDone(i) THEN endedAlone ELSE endedAlone \cup {i}
    BY <1>5 DEF Close, bookVars, Peer!Close
  <2>2. AskedInv' /\ BackendInv' /\ SentInv'
    BY <2>1, PeerStep DEF AskedInv
  <2>3. ~Run!BeDone(i) => state'[i] = "closed" /\ sent'[i] = Len(want'[i])
    BY <2>1 DEF Peer!Close, Heard, Run!BeDone, BackendInv
  <2> QED
    BY <2>1, <2>2, <2>3, PeerStep DEF SaidInv
<1>6. CASE Terminated
  BY <1>6
  DEF Terminated, vars, runVars, bookVars, backendVars, AskedInv, BackendInv,
      SentInv, SaidInv
<1> QED
  BY <1>1, <1>2, <1>3, <1>4, <1>5, <1>6 DEF Next, Backstage

\* The simulation's invariant, for any number of backends and any answers.
THEOREM SystemInvariance == Spec => []SystemInv
<1>1. SystemInv /\ [Next]_vars => SystemInv'
  <2>1. SystemInv /\ UNCHANGED vars => SystemInv'
    BY DEF vars, runVars, bookVars, backendVars, SystemInv, AskedInv, BackendInv,
           SentInv, SaidInv
  <2> QED
    BY <2>1, SystemStep
<1> QED
  BY <1>1, SystemInit, PTL DEF Spec

-----------------------------------------------------------------------------
(* The simulation.                                                         *)

Producers == [i \in 1 .. NB |-> ProducerOf(i)]
Channels == [i \in 1 .. NB |-> OnChannel(i)]
Scripts == [i \in 1 .. NB |-> ScriptOf(i)]

\* What a step leaves of the backends, it leaves of the run's producers.
LEMMA SameBackends ==
    ASSUME UNCHANGED <<want, state, sent, queue>>
    PROVE  UNCHANGED <<Producers, Channels, Scripts>>
BY DEF Producers, Channels, Scripts, ProducerOf, OnChannel, ScriptOf

\* Stream returns a channel: the run sees its producer start.
LEMMA DialOkStep == ASSUME SystemInv, DialOk PROVE Run!DialOk
<1> USE DEF SystemInv, Backends, Run!Backends
<1>1. started \in Backends
  BY DEF DialOk, AskedInv, Run!RunAssumption
<1>2. /\ UNCHANGED <<want, sent, queue>>
      /\ state' = [state EXCEPT ![started] = "open"]
  BY DEF DialOk, Peer!Open
<1>3. Producers' = [Producers EXCEPT ![started] = "running"]
  BY <1>1, <1>2 DEF Producers, ProducerOf, BackendInv
<1>4. UNCHANGED <<Channels, Scripts>>
  BY <1>2 DEF Channels, Scripts, OnChannel, ScriptOf
<1> QED
  BY <1>3, <1>4
  DEF DialOk, Run!DialOk, Producers, Channels, Scripts, bookVars, sinkVars,
      ctxVars, Run!bookVars, Run!sinkVars, Run!ctxVars

\* Stream returns an error: the run sees a producer that has ended.
LEMMA DialErrStep == ASSUME SystemInv, DialErr PROVE Run!DialErr
<1> USE DEF SystemInv, Backends, Run!Backends
<1>1. started \in Backends
  BY DEF DialErr, AskedInv, Run!RunAssumption
<1>2. /\ UNCHANGED <<want, sent, queue>>
      /\ state' = [state EXCEPT ![started] = "refused"]
  BY DEF DialErr, Peer!Refuse
<1>3. Producers' = [Producers EXCEPT ![started] = "closed"]
  BY <1>1, <1>2 DEF Producers, ProducerOf, BackendInv
<1>4. UNCHANGED <<Channels, Scripts>>
  BY <1>2 DEF Channels, Scripts, OnChannel, ScriptOf
<1> QED
  BY <1>3, <1>4, SameCount
  DEF DialErr, Run!DialErr, Producers, Channels, Scripts, sinkVars, Run!sinkVars

\* A backend asked or connecting is no news to the run; one that sends is.
LEMMA StartStep ==
    ASSUME SystemInv, NEW i \in Backends, Start(i)
    PROVE  UNCHANGED Run!vars
<1> USE DEF SystemInv, Backends, Run!Backends
<1>1. UNCHANGED <<want, sent, queue, runVars>> /\
      state' \in {state, [state EXCEPT ![i] = "starting"]} /\
      state[i] \in {"unasked", "starting"}
  BY DEF Start, Peer!Ask, Peer!Connect
<1>2. UNCHANGED <<Producers, Channels, Scripts>>
  BY <1>1 DEF BackendInv, Producers, Channels, Scripts, ProducerOf, OnChannel, ScriptOf
<1> QED
  BY <1>1, <1>2
  DEF Producers, Channels, Scripts, runVars, bookVars, sinkVars, timerVars,
      ctxVars, fwdVars, Run!vars, Run!bookVars, Run!sinkVars, Run!timerVars,
      Run!ctxVars, Run!fwdVars, Run!streamVars

\* A function on 1 .. n is a sequence of length n.
LEMMA FunctionIsSeq ==
    ASSUME NEW S, NEW n \in Nat, NEW f \in [1 .. n -> S]
    PROVE  f \in Seq(S) /\ Len(f) = n
<1>1. f \in Seq(S)
  BY SeqDef
<1> QED
  BY <1>1, LenProperties

\* A chunk sent is the next one of the run's producer.
LEMMA SendStep ==
    ASSUME SystemInv, NEW i \in Backends, Peer!Send(i), UNCHANGED runVars
    PROVE  Run!Produce(i)
<1> USE DEF SystemInv, Backends, Run!Backends
<1>1. /\ state[i] = "open" /\ queue[i] = <<>> /\ sent[i] < Len(want[i])
      /\ queue' = [queue EXCEPT ![i] = <<want[i][sent[i] + 1]>>]
      /\ sent' = [sent EXCEPT ![i] = sent[i] + 1]
      /\ UNCHANGED <<want, state>>
  BY DEF Peer!Send
<1>2. /\ sent[i] \in Nat /\ Len(want[i]) \in Nat /\ Len(want[i]) <= MaxChunks
      /\ MaxChunks \in Nat
  BY LenProperties DEF BackendInv, Run!RunAssumption
<1> DEFINE usable == want[i][sent[i] + 1] \in Contentful
           old == Scripts[i]
           new == [k \in 1 .. sent[i] + 1 |-> want[i][k] \in Contentful]
<1>3. old = [k \in 1 .. sent[i] |-> want[i][k] \in Contentful]
  BY DEF Scripts, ScriptOf
<1>4. old \in Seq(BOOLEAN) /\ Len(old) = sent[i]
  <2>1. old \in [1 .. sent[i] -> BOOLEAN]
    BY <1>3
  <2> QED
    BY <1>2, <2>1, FunctionIsSeq
<1>5. Append(old, usable) = new
  <2>1. new \in Seq(BOOLEAN) /\ Len(new) = sent[i] + 1
    <3>1. new \in [1 .. sent[i] + 1 -> BOOLEAN]
      OBVIOUS
    <3>2. sent[i] + 1 \in Nat
      BY <1>2
    <3>3. \A S : \A n \in Nat : \A f \in [1 .. n -> S] : f \in Seq(S) /\ Len(f) = n
      BY FunctionIsSeq
    <3> HIDE DEF new
    <3> QED
      BY <3>1, <3>2, <3>3, SMTT(30)
  <2>2. /\ Append(old, usable) \in Seq(BOOLEAN)
        /\ Len(Append(old, usable)) = sent[i] + 1
        /\ \A k \in 1 .. sent[i] : Append(old, usable)[k] = old[k]
        /\ Append(old, usable)[sent[i] + 1] = usable
    BY <1>4, AppendProperties
  <2>3. \A k \in 1 .. sent[i] : k \in 1 .. sent[i] + 1
    BY <1>2
  <2>4. \A k \in 1 .. sent[i] : old[k] = new[k]
    BY <1>3, <2>3
  <2>5. sent[i] + 1 \in 1 .. sent[i] + 1
    BY <1>2
  <2>6. new[sent[i] + 1] = usable
    BY <2>5
  <2>7. \A k \in 1 .. sent[i] + 1 : k \in 1 .. sent[i] \/ k = sent[i] + 1
    BY <1>2
  <2>8. \A k \in 1 .. sent[i] + 1 : Append(old, usable)[k] = new[k]
    BY <2>2, <2>4, <2>6, <2>7
  <2> HIDE DEF usable, old, new
  <2> QED
    BY <2>1, <2>2, <2>8, SeqEqual
<1>6. Scripts' = [Scripts EXCEPT ![i] = Append(@, usable)]
  <2>1. Scripts'[i] = new
    BY <1>1 DEF Scripts, ScriptOf, BackendInv
  <2>2. \A j \in Backends \ {i} : Scripts'[j] = Scripts[j]
    BY <1>1 DEF Scripts, ScriptOf, BackendInv
  <2>3. Scripts = [j \in Backends |-> Scripts[j]] /\ Scripts' = [j \in Backends |-> Scripts'[j]]
    BY DEF Scripts
  <2> HIDE DEF usable, new
  <2> QED
    BY <1>5, <2>1, <2>2, <2>3
<1>7. Channels' = [Channels EXCEPT ![i] = sent[i] + 1]
  BY <1>1 DEF Channels, OnChannel, BackendInv
<1>8. Producers' = Producers /\ Producers[i] = "running" /\ Channels[i] = 0
  BY <1>1 DEF Producers, ProducerOf, Channels, OnChannel
<1>9. \E u \in BOOLEAN : Scripts' = [Scripts EXCEPT ![i] = Append(@, u)]
  <2>1. usable \in BOOLEAN
    OBVIOUS
  <2> QED
    BY <1>6, <2>1
<1>10. Len(Scripts[i]) = sent[i] /\ sent[i] < MaxChunks
  BY <1>1, <1>2, <1>4
<1> QED
  BY <1>7, <1>8, <1>9, <1>10
  DEF Run!Produce, Producers, Channels, Scripts, runVars, bookVars, sinkVars,
      timerVars, ctxVars, fwdVars, Run!bookVars, Run!sinkVars, Run!timerVars,
      Run!ctxVars, Run!fwdVars

\* A receive takes the chunk that the run's channel holds.
LEMMA ReceiveStep ==
    ASSUME SystemInv, NEW i \in Backends, Receive(i)
    PROVE  Run!FwdTake(i) \/ Run!FwdDrain(i)
<1> USE DEF SystemInv, Backends, Run!Backends
<1>1. /\ queue[i] # <<>> /\ queue' = [queue EXCEPT ![i] = <<>>]
      /\ UNCHANGED <<want, state, sent>>
  BY DEF Receive, Peer!Take
<1>2. Channels[i] = sent[i] /\ sent[i] # 0
  BY <1>1 DEF Channels, OnChannel, BackendInv, SentInv
<1>3. Channels' = [Channels EXCEPT ![i] = 0]
  BY <1>1 DEF Channels, OnChannel, BackendInv
<1>4. UNCHANGED <<Producers, Scripts>>
  BY <1>1 DEF Producers, Scripts, ProducerOf, ScriptOf
<1> QED
  BY <1>2, <1>3, <1>4
  DEF Receive, Run!FwdTake, Run!FwdDrain, Producers, Channels, Scripts, bookVars,
      sinkVars, timerVars, ctxVars, Run!bookVars, Run!sinkVars, Run!timerVars,
      Run!ctxVars, Run!fwdVars

\* A receive that finds the channel closed finds the run's one closed.
LEMMA ReceiveCloseStep ==
    ASSUME NEW i \in Backends, ReceiveClose(i)
    PROVE  Run!FwdSeeClose(i) \/ Run!FwdDrained(i)
<1> USE DEF Backends, Run!Backends
<1>1. state[i] = "closed" /\ queue[i] = <<>> /\ UNCHANGED <<want, state, sent, queue>>
  BY DEF ReceiveClose, AtEnd, backendVars
<1>2. Producers[i] = "closed" /\ Channels[i] = 0
  BY <1>1 DEF Producers, Channels, ProducerOf, OnChannel
<1>3. UNCHANGED <<Producers, Channels, Scripts>>
  BY <1>1, SameBackends
<1> QED
  BY <1>2, <1>3
  DEF ReceiveClose, Run!FwdSeeClose, Run!FwdDrained, Producers, Channels, Scripts,
      bookVars, sinkVars, timerVars, ctxVars, Run!bookVars, Run!sinkVars,
      Run!timerVars, Run!ctxVars, Run!streamVars

\* A backend that closes its channel is a producer that ends.
LEMMA CloseStep ==
    ASSUME SystemInv, NEW i \in Backends, Close(i)
    PROVE  Run!ProducerEnd(i)
<1> USE DEF SystemInv, Backends, Run!Backends
<1>1. /\ state[i] = "open" /\ state' = [state EXCEPT ![i] = "closed"]
      /\ UNCHANGED <<want, sent, queue>>
  BY DEF Close, Peer!Close
<1>2. Producers[i] = "running" /\ Producers' = [Producers EXCEPT ![i] = "closed"]
  BY <1>1 DEF Producers, ProducerOf, BackendInv
<1>3. UNCHANGED <<Channels, Scripts>>
  BY <1>1 DEF Channels, Scripts, OnChannel, ScriptOf
<1> QED
  BY <1>2, <1>3
  DEF Close, Run!ProducerEnd, Producers, Channels, Scripts, bookVars, sinkVars,
      timerVars, ctxVars, fwdVars, Run!bookVars, Run!sinkVars, Run!timerVars,
      Run!ctxVars, Run!fwdVars

\* Every step is one of the run's, or none of its business.
LEMMA Simulation ==
    ASSUME SystemInv, Next
    PROVE  Run!Next \/ UNCHANGED Run!vars
<1>1. CASE Loop
  BY <1>1 DEF Loop, Run!Next, Run!Dialing
<1>2. CASE DialOk \/ DialErr
  BY <1>2, DialOkStep, DialErrStep DEF Run!Next, Run!Dialing
<1>3. ASSUME NEW i \in Backends, Forward(i)
      PROVE  Run!Next
  BY <1>3 DEF Forward, Run!Next, Run!Forwarder, Backends
<1>4. ASSUME NEW i \in Backends, Start(i)
      PROVE  UNCHANGED Run!vars
  BY <1>4, StartStep
<1>5. ASSUME NEW i \in Backends, Stream(i)
      PROVE  Run!Next \/ UNCHANGED Run!vars
  <2>1. CASE Peer!Send(i)
    BY <1>5, <2>1, SendStep DEF Stream, Run!Next, Run!Producer, Backends
  <2>2. CASE Peer!Release(i)
    <3>1. UNCHANGED <<runVars, want, state, sent, queue>>
      BY <1>5, <2>2 DEF Stream, Peer!Release
    <3> QED
      BY <3>1, SameBackends
      DEF Producers, Channels, Scripts, runVars, bookVars, sinkVars, timerVars,
          ctxVars, fwdVars, Run!vars, Run!bookVars, Run!sinkVars,
          Run!timerVars, Run!ctxVars, Run!fwdVars, Run!streamVars
  <2> QED
    BY <1>5, <2>1, <2>2 DEF Stream
<1>6. ASSUME NEW i \in Backends, Receive(i) \/ ReceiveClose(i)
      PROVE  Run!Next
  BY <1>6, ReceiveStep, ReceiveCloseStep DEF Run!Next, Run!Forwarder, Backends
<1>7. ASSUME NEW i \in Backends, Close(i)
      PROVE  Run!Next
  BY <1>7, CloseStep DEF Run!Next, Run!Producer, Backends
<1>8. CASE Terminated
  BY <1>8, SameBackends
  DEF Terminated, vars, backendVars, Producers, Channels, Scripts, runVars,
      bookVars, sinkVars, timerVars, ctxVars, fwdVars, Run!vars, Run!bookVars,
      Run!sinkVars, Run!timerVars, Run!ctxVars, Run!fwdVars, Run!streamVars
<1> QED
  BY <1>1, <1>2, <1>3, <1>4, <1>5, <1>6, <1>7, <1>8 DEF Next, Backstage

\* The race over backends that keep the send contract is a run of HedgeRun.
THEOREM SystemImplementsRun == Spec => ImplementsRun
<1>1. Init => Run!Init
  BY DEF Init
<1>2. SystemInv /\ [Next]_vars => [Run!Next]_Run!vars
  <2>1. UNCHANGED vars => UNCHANGED Run!vars
    BY SameBackends
    DEF vars, backendVars, Producers, Channels, Scripts, runVars, bookVars,
        sinkVars, timerVars, ctxVars, fwdVars, Run!vars, Run!bookVars,
        Run!sinkVars, Run!timerVars, Run!ctxVars, Run!fwdVars, Run!streamVars
  <2> QED
    BY <2>1, Simulation
<1> QED
  BY <1>1, <1>2, SystemInvariance, PTL DEF Spec, ImplementsRun, Run!Spec

\* So whatever is proved of HedgeRun holds of it.
LEMMA RunHolds == Spec => P!Spec
BY SystemImplementsRun, SameRun DEF ImplementsRun

\* Among that, the contract of HedgeContract.
THEOREM SystemKeepsContract == Spec => P!KeepsContract
BY RunHolds, RunAssumed, P!RunKeepsContract

-----------------------------------------------------------------------------
(* What is true of the upstreams.                                          *)

\* When Run returns, no upstream connection that it opened is left open and no
\* producer is left behind.
THEOREM NoConnectionIsLeft == Spec => []NoConnectionLeft
<1>1. SystemInv /\ P!NoLeakAtReturn => NoConnectionLeft
  <2> SUFFICES ASSUME SystemInv, P!NoLeakAtReturn, pc = "returned", NEW i \in Backends
               PROVE  ~connected[i] /\ state[i] \in {"unasked", "refused", "closed"}
    BY DEF NoConnectionLeft
  <2>1. NB \in Nat /\ started \in 0 .. NB /\ i \in 1 .. NB
    BY DEF SystemInv, AskedInv, Run!RunAssumption, Backends, Run!Backends
  <2>2. state[i] \in {"unasked", "starting", "refused", "open", "closed"}
    BY DEF SystemInv, BackendInv
  <2>3. CASE i <= started
    <3>1. i \in P!Started
      BY <2>1, <2>3 DEF P!Started
    <3>2. ProducerOf(i) = "closed"
      BY <2>1, <3>1 DEF P!NoLeakAtReturn
    <3> QED
      BY <2>2, <3>2 DEF ProducerOf, SystemInv, SentInv
  <2>4. CASE ~(i <= started)
    BY <2>4 DEF SystemInv, AskedInv, SentInv
  <2> QED
    BY <2>3, <2>4
<1> QED
  BY <1>1, SystemInvariance, RunHolds, RunAssumed, P!NoLeak, PTL

\* Success means that the client was sent all that the winner's upstream had to
\* say, from its first chunk with content on.
THEOREM SuccessIsItsAnswer == Spec => []SuccessIsTheAnswer
<1>1. /\ SystemInv /\ P!IndInv /\ P!StreamInv /\ P!UncutInv
      /\ P!SuccessIsUncut /\ P!SuccessIsComplete
      => SuccessIsTheAnswer
  <2> SUFFICES ASSUME SystemInv, P!IndInv, P!StreamInv, P!UncutInv,
                      P!SuccessIsUncut, P!SuccessIsComplete,
                      result = "ok", ~clientGone
               PROVE  WholeAnswer
    BY DEF SuccessIsTheAnswer
  <2> DEFINE w == first.idx
             n == first.chunk
  <2>1. w # 0 /\ w \in endedAlone
    BY DEF P!SuccessIsUncut, P!StreamInv, P!OutcomeInv, P!winner
  <2>2. /\ w \in 1 .. NB /\ w \in Backends
        /\ state[w] = "refused" \/ sent[w] = Len(want[w])
    BY <2>1 DEF SystemInv, SaidInv, Backends, Run!Backends
  <2>3. /\ sent[w] \in Nat /\ want[w] \in Seq(Nat)
        /\ state[w] = "refused" => sent[w] = 0
    BY <2>2 DEF SystemInv, BackendInv, SentInv
  <2>4. ScriptOf(w) = [k \in 1 .. sent[w] |-> want[w][k] \in Contentful]
        /\ Len(ScriptOf(w)) = sent[w]
    <3>1. ScriptOf(w) \in [1 .. sent[w] -> BOOLEAN]
      BY DEF ScriptOf
    <3> QED
      BY <2>3, <3>1, FunctionIsSeq DEF ScriptOf
  <2>5. n \in 1 .. sent[w]
    BY <2>1, <2>2, <2>4 DEF P!StreamInv, P!RelayInv, P!winner
  <2>6. sent[w] = Len(want[w])
    BY <2>2, <2>3, <2>5
  <2>7. Len(log) \in Nat /\ first = [idx |-> w, chunk |-> n]
    <3>1. log \in Seq(P!Event) /\ first \in P!Event \cup {P!NoEvent}
      BY DEF P!IndInv, P!TypeOK, P!LoopType
    <3> QED
      BY <3>1, LenProperties DEF P!Event, P!NoEvent
  <2>8. n + Len(log) - 1 = sent[w]
    BY <2>2, <2>4 DEF P!SuccessIsComplete, P!winner
  <2>9. \A k \in DOMAIN log : log[k] = [first EXCEPT !.chunk = @ + k - 1]
    BY DEF P!StreamInv, P!RelayInv, P!RelayIsOneStream
  <2>10. \A k \in 1 .. Len(log) : log[k] = [idx |-> w, chunk |-> n + k - 1]
    <3>1. \A k \in 1 .. Len(log) : k \in DOMAIN log
      BY LenProperties DEF P!IndInv, P!TypeOK, P!LoopType
    <3> QED
      BY <2>7, <2>9, <3>1
  <2>11. want[w][n] \in Contentful
    <3>1. ScriptOf(w)[n]
      BY <2>1, <2>2 DEF P!UncutInv, P!Usable, P!winner
    <3> QED
      BY <2>4, <2>5, <3>1
  <2>12. \A k \in 1 .. n - 1 : want[w][k] \notin Contentful
    <3>1. \A k \in DOMAIN ScriptOf(w) : ScriptOf(w)[k] => k >= n
      BY <2>1, <2>2 DEF P!StreamInv, P!RelayInv, P!RelayIsOneStream, P!winner
    <3>2. \A k \in 1 .. n - 1 : k \in 1 .. sent[w] /\ ~(k >= n)
      BY <2>3, <2>5
    <3> QED
      BY <2>4, <3>1, <3>2
  <2>13. Len(log) = Len(want[w]) - n + 1
    <3>1. n \in Nat /\ sent[w] \in Nat /\ Len(log) \in Nat
      BY <2>3, <2>5, <2>7
    <3>2. n + Len(log) - 1 = Len(want[w]) /\ Len(want[w]) \in Nat
      BY <2>6, <2>8, <3>1
    <3> HIDE DEF n, w
    <3> QED
      BY <3>1, <3>2
  <2> QED
    BY <2>10, <2>11, <2>12, <2>13 DEF WholeAnswer
<1> QED
  BY <1>1, SystemInvariance, RunHolds, RunAssumed, P!Invariance,
     P!StreamInvariance, P!UncutInvariance, P!SuccessIsNeverCut,
     P!SuccessMeansComplete, PTL

\* All-failed is true of the upstreams: with the client there and in time, none
\* of those that took the request had anything with content to say.
THEOREM AllFailedIsTrueUpstream == Spec => []AllFailedIsTrueOfUpstreams
<1>1. SystemInv /\ P!StreamInv => AllFailedIsTrueOfUpstreams
  <2> SUFFICES ASSUME SystemInv, P!StreamInv, result = "allFailed", ~clientGone,
                      timeout # "fired", NEW i \in 1 .. started
               PROVE  state[i] = "refused" \/ Mute(i)
    BY DEF AllFailedIsTrueOfUpstreams
  <2>1. i \in closed
    BY DEF P!StreamInv, P!OutcomeInv, P!NoPathToWinner, P!Producing, P!Started
  <2>2. i \in endedAlone
    BY <2>1 DEF P!StreamInv, P!BlameInv
  <2>3. i \in 1 .. NB /\ (state[i] = "refused" \/ sent[i] = Len(want[i]))
        /\ sent[i] \in Nat
    BY <2>2 DEF SystemInv, SaidInv, BackendInv, Backends, Run!Backends
  <2>4. Len(ScriptOf(i)) = sent[i]
    <3>1. ScriptOf(i) \in [1 .. sent[i] -> BOOLEAN]
      BY DEF ScriptOf
    <3> QED
      BY <2>3, <3>1, FunctionIsSeq
  <2>5. \A k \in 1 .. sent[i] : ~ScriptOf(i)[k]
    BY <2>1, <2>3, <2>4 DEF P!StreamInv, P!HeardInv, P!Silent
  <2> QED
    BY <2>3, <2>5 DEF ScriptOf, Mute
<1> QED
  BY <1>1, SystemInvariance, RunHolds, RunAssumed, P!StreamInvariance, PTL
-----------------------------------------------------------------------------
(* The run in it is a run of HedgeSystem, so what is proved above holds.   *)

\* What the handler does is nothing to the run, and what the run does with its
\* sink is a step of its loop.
LEMMA ServiceIsSystem == ServiceSpec => Spec
<1>1. ServiceNext => Next \/ UNCHANGED vars
  <2>1. CASE RunAlone
    BY <2>1 DEF RunAlone, Next, Loop, Run!Relaying, Run!Unwinding
  <2>2. CASE Commit \/ Relay \/ Return
    BY <2>2 DEF Commit, Relay, Return, Next, Loop, Run!Relaying, Run!Unwinding
  <2>3. CASE NoneEligible \/ HandlerAlone \/ Answered
    BY <2>3 DEF NoneEligible, HandlerAlone, Answered, serviceVars
  <2> QED
    BY <2>1, <2>2, <2>3 DEF ServiceNext
<1>2. UNCHANGED serviceVars => UNCHANGED vars
  BY DEF serviceVars
<1> QED
  BY <1>1, <1>2, PTL DEF ServiceSpec, ServiceInit, Spec

\* What is known of the run.
Known == /\ SystemInv /\ P!IndInv /\ P!StreamInv /\ P!UncutInv
         /\ SuccessIsTheAnswer /\ AllFailedIsTrueOfUpstreams

\* It is known of every run.
LEMMA KnownHolds == ServiceSpec => []Known
BY ServiceIsSystem, SystemInvariance, RunHolds, RunAssumed, P!Invariance,
   P!StreamInvariance, P!UncutInvariance, SuccessIsItsAnswer,
   AllFailedIsTrueUpstream, PTL DEF Known

\* What the run does with no word to its sink: it gives up or gets a winner,
\* and once it has returned nothing changes that it returned.
RunFrame ==
    /\ UNCHANGED <<log, result>>
    /\ pc' = "start" => pc = "start"
    /\ pc = "start" => pc' = "start" \/ Proxy!Serving(q)
    /\ pc' = "returned" <=> pc = "returned"
    /\ pc = "returned" => UNCHANGED <<first, started, failed, closed, err>>
    /\ \/ UNCHANGED first /\ (pc' = "committing" <=> pc = "committing")
       \/ first.idx = 0 /\ pc # "committing" /\ pc' = "committing"
    /\ \/ err' = err
       \/ err = "none" /\ (err' = "nil" \/ (err' = "ctx" /\ clientGone))
    /\ clientGone => clientGone'

\* That is so for the goroutine of the loop.
LEMMA LoopAlone ==
    ASSUME Known,
           \/ Proxy!Serving(q) /\ Run!StartPrimary
           \/ Run!Racing \/ Run!RelayCtxDone \/ Run!RelayDiscard \/ Run!RelayEnd
           \/ Run!CancelAll \/ Run!Environment
    PROVE  RunFrame
<1> USE DEF RunFrame
<1>p. /\ pc \in {"start", "dialing", "racing"} => first.idx = 0
      /\ pc \notin {"unwinding", "waiting", "returned"} => err = "none"
      /\ Run!RunDone /\ pc \notin {"waiting", "returned"} => clientGone
  BY DEF Known, P!IndInv, P!PhaseInv, P!Decided, P!winner, P!StreamInv,
         P!OutcomeInv, P!BlameInv, Run!RunDone
<1>1. CASE Proxy!Serving(q) /\ Run!StartPrimary
  BY <1>1 DEF Run!StartPrimary, Run!Reserve, Run!sinkVars, Run!ctxVars
<1>2. CASE Run!RaceFire \/ Run!RaceClose \/ Run!RaceDiscard
  <2>1. /\ pc = "racing" /\ UNCHANGED <<log, result, first, err, clientGone>>
        /\ pc' \in {"racing", "dialing"}
    BY <1>2
    DEF Run!RaceFire, Run!RaceClose, Run!RaceDiscard, Run!Select, Run!Reserve,
        Run!sinkVars, Run!ctxVars
  <2> QED
    BY <2>1
<1>3. CASE Run!RaceNoPath \/ Run!RaceTimeout \/ Run!RaceCtxDone \/ Run!RelayCtxDone
           \/ Run!RelayEnd
  <2>1. /\ pc \in {"racing", "relaying"} /\ pc' = "unwinding"
        /\ UNCHANGED <<log, result, first, clientGone>>
        /\ err' = "nil" \/ (err' = "ctx" /\ Run!RunDone)
    BY <1>3
    DEF Run!RaceNoPath, Run!RaceTimeout, Run!RaceCtxDone, Run!RelayCtxDone,
        Run!RelayEnd, Run!Select, Run!Leave, Run!ctxVars
  <2> QED
    BY <1>p, <2>1
<1>4. CASE Run!RaceWin
  BY <1>p, <1>4 DEF Run!RaceWin, Run!Select
<1>5. CASE Run!RelayDiscard \/ Run!CancelAll
  BY <1>5 DEF Run!RelayDiscard, Run!CancelAll, Run!sinkVars, Run!ctxVars
<1>6. CASE Run!Environment
  BY <1>6
  DEF Run!Environment, Run!FireTick, Run!TimeoutTick, Run!ClientCancel,
      Run!sinkVars, Run!bookVars, Run!ctxVars
<1> QED
  BY <1>1, <1>2, <1>3, <1>4, <1>5, <1>6 DEF Run!Racing

\* It is so for the run's other goroutines and for the backends.
LEMMA GoroutinesAlone ==
    ASSUME DialOk \/ DialErr \/ Backstage
    PROVE  RunFrame
<1> USE DEF RunFrame, bookVars, sinkVars, ctxVars, fwdVars
<1>1. CASE DialOk \/ DialErr
  BY <1>1 DEF DialOk, DialErr, Run!EnterLoop
<1>2. ASSUME NEW i \in Backends, Forward(i) \/ Start(i) \/ Stream(i) \/ Receive(i)
                                 \/ ReceiveClose(i) \/ Close(i)
      PROVE  UNCHANGED <<pc, bookVars, sinkVars, ctxVars>>
  BY <1>2
  DEF Forward, Run!FwdSend, Run!FwdSendClose, Run!FwdCloseSkip, Run!FwdCancelled,
      Run!bookVars, Run!sinkVars, Run!ctxVars, Start, Stream, runVars, Receive,
      ReceiveClose, Close
<1>3. CASE Backstage
  <2>1. UNCHANGED <<pc, bookVars, sinkVars, ctxVars>>
    BY <1>2, <1>3 DEF Backstage
  <2> QED
    BY <2>1
<1> QED
  BY <1>1, <1>3

\* So it is for all that the run does alone.
LEMMA AloneFrame == ASSUME Known, RunAlone PROVE RunFrame
BY LoopAlone, GoroutinesAlone DEF RunAlone

-----------------------------------------------------------------------------
(* A request from end to end: the invariant that ties the handler to its   *)
(* run, by concern.                                                        *)

Pieces == {"data: ", "payload", "end", "[DONE]", "error", "completion"}

HandlerType ==
    /\ kind \in [{q} -> Kinds]
    /\ phase \in [{q} -> {"new", "serving", "reporting", "answering", "done"}]
    /\ winner \in [{q} -> 0 .. NB]
    /\ ret \in [{q} -> {"none", "ok", "allFailed", "noBackends", "ctx", "sink"}]
    /\ chunks \in [{q} -> Nat]
WireType ==
    /\ committed \in [{q} -> BOOLEAN] /\ writeErr \in [{q} -> BOOLEAN]
    /\ status \in [{q} -> Seq(Nat)] /\ body \in [{q} -> Seq(Pieces)]
ReportType ==
    /\ todo \in [{q} -> Seq(Proxy!Labels)] /\ DOMAIN held = {q}
    /\ added \in [{q} -> SUBSET Proxy!Labels]

\* The run is under way while the handler serves, and has returned when it
\* reports; they agree on the winner and on what the sink made of it.
LinkInv ==
    /\ pc \notin {"start", "returned"} => Proxy!Serving(q)
    /\ pc = "returned" => phase[q] \in {"reporting", "answering", "done"}
    /\ winner[q] = IF pc = "committing" THEN 0 ELSE first.idx
    /\ committed[q] <=> winner[q] # 0
    /\ writeErr[q] <=> err = "sink"
    /\ log = <<>> => chunks[q] = 0
    /\ log # <<>> /\ err # "sink" => chunks[q] + 1 = Len(log)

\* What Run returns, and what its error means.
ResultInv ==
    /\ err = "ctx" => clientGone
    /\ pc = "returned" => result = Run!ReturnedError
    /\ phase[q] \in {"reporting", "answering"} =>
         ret[q] = IF pc = "start" THEN "noBackends" ELSE result

\* What has been sent.
AnswerInv ==
    /\ phase[q] # "done" =>
         status[q] = IF kind[q] = "sse" /\ committed[q] THEN <<200>> ELSE <<>>
    /\ phase[q] = "done" =>
         \/ pc = "start" /\ \E c \in Refusals \cup {500, 503} : status[q] = <<c>>
         \/ pc = "returned" /\ committed[q] /\ status[q] = <<200>>
         \/ /\ pc = "returned" /\ ~committed[q]
            /\ status[q] = IF result = "ctx" THEN <<499>> ELSE <<502>>
    /\ kind[q] = "sse" /\ ~writeErr[q] =>
         /\ phase[q] # "done" => Len(body[q]) = 3 * Len(log)
         /\ phase[q] = "done" /\ committed[q] => Len(body[q]) = 3 * Len(log) + 1

\* A label that the run deserves.
Deserved(l) ==
    /\ pc = "returned"
    /\ \/ first.idx # 0 /\ l = Proxy!WinOf(first.idx)
       \/ \E i \in (1 .. started) \ {first.idx} : l = Proxy!LossOf(i, Run!LossReason(i))

\* What is reported of the backends.
ReportInv ==
    /\ phase[q] \in {"new", "serving"} => todo[q] = <<>> /\ added[q] = {}
    /\ held[q] # 0 => phase[q] = "reporting" /\ todo[q] # <<>>
    /\ \A k \in 1 .. Len(todo[q]) : Deserved(todo[q][k])
    /\ \A l \in added[q] : Deserved(l)

\* A failed dial is an upstream's refusal.
RefusedInv == \A i \in Backends : i \in failed <=> state[i] = "refused"

ServiceInv ==
    /\ HandlerType /\ WireType /\ ReportType
    /\ LinkInv /\ ResultInv /\ AnswerInv /\ ReportInv /\ RefusedInv

\* A backend is refused exactly when its dial fails.
LEMMA RefusedStep ==
    ASSUME Known, RefusedInv, Next
    PROVE  RefusedInv'
<1> USE DEF RefusedInv, Backends, Run!Backends
<1>0. /\ state \in [Backends -> {"unasked", "starting", "refused", "open", "closed"}]
      /\ pc = "dialing" => started \in Backends
  BY DEF Known, SystemInv, BackendInv, AskedInv, Run!RunAssumption
<1>1. CASE Loop
  <2>1. UNCHANGED <<state, failed>>
    BY <1>1
    DEF Loop, backendVars, Run!StartPrimary, Run!Reserve, Run!Racing,
        Run!RaceNoPath, Run!RaceCtxDone, Run!RaceTimeout, Run!RaceFire,
        Run!RaceClose, Run!RaceDiscard, Run!RaceWin, Run!Relaying,
        Run!CommitOk, Run!CommitErr, Run!RelayCtxDone, Run!RelayDiscard,
        Run!RelayEnd, Run!RelayChunk, Run!Unwinding, Run!CancelAll,
        Run!WaitAndReturn, Run!Environment, Run!FireTick, Run!TimeoutTick,
        Run!ClientCancel, Run!bookVars
  <2> QED
    BY <2>1
<1>2. CASE DialOk
  BY <1>0, <1>2 DEF DialOk, Peer!Open, bookVars
<1>3. CASE DialErr
  BY <1>0, <1>3 DEF DialErr, Peer!Refuse
<1>4. CASE Backstage
  <2>1. PICK i \in Backends : \/ Forward(i) \/ Start(i) \/ Stream(i) \/ Receive(i)
                              \/ ReceiveClose(i) \/ Close(i)
    BY <1>4 DEF Backstage
  <2>2. UNCHANGED failed
    BY <2>1
    DEF Forward, Run!FwdSend, Run!FwdSendClose, Run!FwdCloseSkip,
        Run!FwdCancelled, Run!bookVars, Start, Stream, runVars, Receive,
        ReceiveClose, Close, bookVars
  <2>3. \/ UNCHANGED state
        \/ /\ state[i] \in {"unasked", "open"}
           /\ \E s \in {"starting", "closed"} : state' = [state EXCEPT ![i] = s]
    BY <2>1
    DEF Forward, Start, Stream, Receive, ReceiveClose, Close, backendVars, Peer!Ask,
        Peer!Connect, Peer!Send, Peer!Release, Peer!Take, Peer!Close
  <2> QED
    BY <1>0, <2>2, <2>3
<1>5. CASE Terminated
  BY <1>5 DEF Terminated, vars, runVars, bookVars, backendVars
<1> QED
  BY <1>1, <1>2, <1>3, <1>4, <1>5 DEF Next

\* A request that has not been looked at has nothing to agree with.
LEMMA ServiceStart == ServiceInit => ServiceInv
<1> SUFFICES ASSUME ServiceInit PROVE ServiceInv
  OBVIOUS
<1>1. /\ pc = "start" /\ first = [idx |-> 0, chunk |-> 0] /\ log = <<>>
      /\ err = "none" /\ failed = {} /\ state = [i \in Backends |-> "unasked"]
  BY DEF ServiceInit, Init, Run!Init, Run!NoEvent
<1>2. /\ kind \in [{q} -> Kinds] /\ phase = [r \in {q} |-> "new"]
      /\ winner = [r \in {q} |-> 0] /\ ret = [r \in {q} |-> "none"]
      /\ committed = [r \in {q} |-> FALSE] /\ writeErr = [r \in {q} |-> FALSE]
      /\ status = [r \in {q} |-> <<>>] /\ body = [r \in {q} |-> <<>>]
      /\ chunks = [r \in {q} |-> 0] /\ todo = [r \in {q} |-> <<>>]
      /\ held = [r \in {q} |-> 0] /\ added = [r \in {q} |-> {}]
  BY DEF ServiceInit, Proxy!Init
<1>3. HandlerType /\ WireType /\ ReportType
  <2>1. 0 \in 0 .. NB
    BY DEF Run!RunAssumption
  <2> QED
    BY <1>2, <2>1 DEF HandlerType, WireType, ReportType
<1>4. LinkInv /\ ResultInv
  BY <1>1, <1>2 DEF LinkInv, ResultInv
<1>5. AnswerInv /\ ReportInv
  <2>1. status[q] = <<>> /\ body[q] = <<>> /\ ~committed[q] /\ phase[q] = "new"
        /\ todo[q] = <<>> /\ added[q] = {} /\ held[q] = 0
    BY <1>2
  <2> QED
    BY <1>1, <2>1 DEF AnswerInv, ReportInv
<1>6. RefusedInv
  BY <1>1 DEF RefusedInv
<1> QED
  BY <1>3, <1>4, <1>5, <1>6 DEF ServiceInv

\* The handler sees nothing of what the run does alone.
LEMMA AloneStep ==
    ASSUME Known, ServiceInv, RunAlone
    PROVE  /\ HandlerType' /\ WireType' /\ ReportType'
           /\ LinkInv' /\ ResultInv' /\ AnswerInv' /\ ReportInv'
<1>1. RunFrame
  BY AloneFrame
<1>2. UNCHANGED handlerVars
  BY DEF RunAlone
<1>3. HandlerType' /\ WireType' /\ ReportType'
  BY <1>2 DEF ServiceInv, handlerVars, HandlerType, WireType, ReportType
<1>4. LinkInv'
  <2>1. Proxy!Serving(q)' <=> Proxy!Serving(q)
    BY <1>2 DEF handlerVars, Proxy!Serving
  <2>2. UNCHANGED <<phase, winner, committed, writeErr, chunks>>
    BY <1>2 DEF handlerVars
  <2>3. err = "none" \/ err' = err => (err' = "sink" <=> err = "sink")
    BY <1>1 DEF RunFrame
  <2> QED
    BY <1>1, <2>1, <2>2, <2>3 DEF RunFrame, ServiceInv, LinkInv
<1>5. ResultInv'
  <2>1. UNCHANGED <<phase, ret>>
    BY <1>2 DEF handlerVars
  <2>2. pc = "returned" => Run!ReturnedError' = Run!ReturnedError
    BY <1>1 DEF RunFrame, Run!ReturnedError, Run!winner
  <2>3. /\ err = "ctx" => clientGone
        /\ pc = "returned" => result = Run!ReturnedError
        /\ phase[q] \in {"reporting", "answering"} =>
             ret[q] = IF pc = "start" THEN "noBackends" ELSE result
        /\ phase[q] \in {"reporting", "answering"} => ~Proxy!Serving(q)
    BY DEF ServiceInv, ResultInv, Proxy!Serving
  <2>4. err' = "ctx" => clientGone'
    BY <1>1, <2>3 DEF RunFrame
  <2>5. pc' = "returned" => result' = Run!ReturnedError'
    BY <1>1, <2>2, <2>3 DEF RunFrame
  <2>6. phase[q] \in {"reporting", "answering"} =>
          ret[q] = IF pc' = "start" THEN "noBackends" ELSE result'
    BY <1>1, <2>3 DEF RunFrame
  <2> QED
    BY <2>1, <2>4, <2>5, <2>6 DEF ResultInv
<1>6. AnswerInv'
  <2>1. UNCHANGED <<kind, phase, committed, status, writeErr, body>>
    BY <1>2 DEF handlerVars
  <2> QED
    BY <1>1, <2>1 DEF RunFrame, ServiceInv, AnswerInv, LinkInv, Proxy!Serving
<1>7. ReportInv'
  <2>1. UNCHANGED <<phase, todo, held, added>>
    BY <1>2 DEF handlerVars
  <2>2. \A l : Deserved(l) => Deserved(l)'
    BY <1>1 DEF RunFrame, Deserved, Run!LossReason, Proxy!WinOf, Proxy!LossOf
  <2> QED
    BY <2>1, <2>2 DEF ServiceInv, ReportInv
<1> QED
  BY <1>3, <1>4, <1>5, <1>6, <1>7

-----------------------------------------------------------------------------
(* Commit and Relay: the run and its sink.                                 *)

\* What is written to a sink goes behind what was.
LEMMA PiecesWritten ==
    ASSUME WireType, NEW w \in Seq(Pieces), body' = [body EXCEPT ![q] = @ \o w]
    PROVE  body' \in [{q} -> Seq(Pieces)] /\ Len(body'[q]) = Len(body[q]) + Len(w)
<1>1. body \in [{q} -> Seq(Pieces)] /\ body[q] \in Seq(Pieces)
  BY DEF WireType
<1>2. body[q] \o w \in Seq(Pieces) /\ Len(body[q] \o w) = Len(body[q]) + Len(w)
  BY <1>1, ConcatProperties
<1> HIDE DEF WireType
<1> QED
  BY <1>1, <1>2

\* A sink that takes a chunk of a stream has written three pieces more.
LEMMA TakesWhole ==
    ASSUME WireType, Proxy!SinkTakes(q)
    PROVE  /\ body' \in [{q} -> Seq(Pieces)] /\ writeErr' = writeErr
           /\ kind[q] = "sse" => ~writeErr[q] /\ Len(body'[q]) = Len(body[q]) + 3
<1>1. CASE kind[q] # "sse"
  BY <1>1 DEF Proxy!SinkTakes, WireType
<1>2. CASE kind[q] = "sse"
  <2>1. /\ UNCHANGED writeErr /\ ~writeErr[q]
        /\ body' = [body EXCEPT ![q] = @ \o Proxy!Event]
    BY <1>2 DEF Proxy!SinkTakes
  <2>2. Proxy!Event \in Seq(Pieces) /\ Len(Proxy!Event) = 3
    BY DEF Proxy!Event, Pieces
  <2>3. body' \in [{q} -> Seq(Pieces)] /\ Len(body'[q]) = Len(body[q]) + 3
    BY <2>1, <2>2, PiecesWritten
  <2> QED
    BY <2>1, <2>3
<1> QED
  BY <1>1, <1>2

\* A sink that fails is one of a stream, and remembers that it failed.
LEMMA FailsForGood ==
    ASSUME WireType, Proxy!SinkFails(q)
    PROVE  /\ body' \in [{q} -> Seq(Pieces)]
           /\ writeErr' \in [{q} -> BOOLEAN] /\ writeErr'[q]
           /\ kind[q] = "sse"
<1>1. PICK n \in 0 .. 2 :
        body' = [body EXCEPT ![q] = @ \o SubSeq(Proxy!Event, 1, n)]
  BY DEF Proxy!SinkFails
<1>2. SubSeq(Proxy!Event, 1, n) \in Seq(Pieces)
  <2>1. Proxy!Event \in Seq(Pieces) /\ Len(Proxy!Event) = 3
    BY DEF Proxy!Event, Pieces
  <2>2. 1 \in Int /\ n \in Int /\ \A k \in 1 .. n : Proxy!Event[k] \in Pieces
    <3>1. \A k \in 1 .. 3 : Proxy!Event[k] \in Pieces
      BY <2>1, ElementOfSeq
    <3>2. \A k \in 1 .. n : k \in 1 .. 3
      OBVIOUS
    <3> QED
      BY <3>1, <3>2
  <2>3. /\ SubSeq(Proxy!Event, 1, n) \in Seq(Pieces)
        /\ Len(SubSeq(Proxy!Event, 1, n)) = IF 1 <= n THEN n - 1 + 1 ELSE 0
    BY <2>2, SubSeqProperties
  <2> QED
    BY <2>3
<1>3. writeErr \in [{q} -> BOOLEAN] /\ writeErr' = [writeErr EXCEPT ![q] = TRUE]
  BY DEF WireType, Proxy!SinkFails
<1>4. writeErr' \in [{q} -> BOOLEAN] /\ writeErr'[q]
  BY <1>3, Zenon
<1> QED
  BY <1>1, <1>2, <1>4, PiecesWritten DEF Proxy!SinkFails

\* Where a run is that has a winner and writes to its sink.
LEMMA WritingFacts ==
    ASSUME Known, pc \in {"committing", "relaying"}
    PROVE  /\ first.idx \in 1 .. NB /\ first.idx # 0 /\ err = "none"
           /\ log \in Seq(P!Event) /\ Len(log) \in Nat
           /\ pc = "committing" => log = <<>>
           /\ pc = "relaying" => log # <<>>
<1>1. /\ first \in P!Event \cup {P!NoEvent} /\ first.idx # 0
      /\ log \in Seq(P!Event)
  BY DEF Known, P!IndInv, P!TypeOK, P!LoopType, P!PhaseInv, P!winner
<1>2. first.idx \in 1 .. NB
  BY <1>1 DEF P!Event, P!NoEvent, P!Backends
<1> QED
  BY <1>1, <1>2, LenProperties
  DEF Known, P!IndInv, P!PhaseInv, P!StreamInv, P!RelayInv, P!OutcomeInv

\* The first write makes it committed to the run's winner.
LEMMA CommitStep ==
    ASSUME Known, ServiceInv, Commit
    PROVE  /\ HandlerType' /\ WireType' /\ ReportType'
           /\ LinkInv' /\ ResultInv' /\ AnswerInv' /\ ReportInv'
<1> USE DEF ServiceInv
<1>1. /\ pc = "committing" /\ UNCHANGED <<first, result, clientGone>>
      /\ pc' \in {"relaying", "unwinding"}
  BY DEF Commit, Run!CommitOk, Run!CommitErr, Run!Leave, Run!ctxVars
<1>2. /\ first.idx \in 1 .. NB /\ first.idx # 0 /\ err = "none" /\ log = <<>>
      /\ first.idx \in 0 .. NB
  BY <1>1, WritingFacts
<1>3. /\ Proxy!Serving(q) /\ phase[q] = "serving" /\ ~committed[q] /\ ~writeErr[q]
      /\ chunks[q] = 0 /\ status[q] = <<>>
      /\ kind[q] = "sse" => Len(body[q]) = 0
  <2>1. Proxy!Serving(q) /\ winner[q] = 0 /\ chunks[q] = 0
    BY <1>1, <1>2 DEF LinkInv
  <2>2. phase[q] = "serving" /\ ~committed[q] /\ ~writeErr[q]
    BY <1>2, <2>1 DEF LinkInv, Proxy!Serving
  <2>3. status[q] = <<>> /\ (kind[q] = "sse" => Len(body[q]) = 3 * Len(log))
    BY <2>2 DEF AnswerInv
  <2>4. Len(log) = 0
    BY <1>2
  <2> QED
    BY <2>1, <2>2, <2>3, <2>4
<1>4. /\ winner' = [winner EXCEPT ![q] = first.idx]
      /\ committed' = [committed EXCEPT ![q] = TRUE]
      /\ status' = IF kind[q] = "sse" THEN [status EXCEPT ![q] = Append(@, 200)]
                   ELSE status
      /\ UNCHANGED <<kind, phase, ret, chunks, todo, held, added>>
  BY DEF Commit, Proxy!Committed, Proxy!report
<1>5. /\ winner' \in [{q} -> 0 .. NB] /\ winner'[q] = first.idx
      /\ committed' \in [{q} -> BOOLEAN] /\ committed'[q]
  <2>1. winner \in [{q} -> 0 .. NB] /\ committed \in [{q} -> BOOLEAN]
    BY DEF HandlerType, WireType
  <2> QED
    BY <1>2, <1>4, <2>1, Zenon
<1>6. /\ status' \in [{q} -> Seq(Nat)]
      /\ status'[q] = IF kind[q] = "sse" THEN <<200>> ELSE <<>>
  <2>1. status \in [{q} -> Seq(Nat)] /\ <<200>> \in Seq(Nat) /\ Append(<<>>, 200) = <<200>>
    BY DEF WireType
  <2> QED
    BY <1>3, <1>4, <2>1
<1>7. CASE Run!CommitOk /\ Proxy!SinkTakes(q)
  <2>1. log' = <<first>> /\ pc' = "relaying" /\ err' = err
    BY <1>7 DEF Run!CommitOk
  <2>2. /\ body' \in [{q} -> Seq(Pieces)] /\ writeErr' = writeErr
        /\ kind[q] = "sse" => Len(body'[q]) = Len(body[q]) + 3
    BY <1>7, TakesWhole
  <2>3. Len(log') = 1 /\ log' # <<>>
    BY <2>1
  <2>4. HandlerType' /\ WireType' /\ ReportType'
    BY <1>4, <1>5, <1>6, <2>2 DEF HandlerType, WireType, ReportType
  <2>5. LinkInv'
    <3>1. Proxy!Serving(q)'
      BY <1>3, <1>4 DEF Proxy!Serving
    <3> QED
      BY <1>1, <1>2, <1>3, <1>4, <1>5, <2>1, <2>2, <2>3, <3>1 DEF LinkInv
  <2>6. ResultInv'
    BY <1>2, <1>3, <1>4, <2>1 DEF ResultInv
  <2>7. AnswerInv'
    <3>1. kind[q] = "sse" => Len(body'[q]) = 3 * Len(log')
      <4>1. kind[q] = "sse" => Len(body'[q]) = 0 + 3
        BY <1>3, <2>2
      <4>2. 3 * Len(log') = 0 + 3
        BY <2>3
      <4> QED
        BY <4>1, <4>2, Zenon
    <3>2. status'[q] = IF kind'[q] = "sse" /\ committed'[q] THEN <<200>> ELSE <<>>
      <4>1. committed'[q] /\ kind' = kind
        BY <1>4, <1>5
      <4>2. CASE kind[q] = "sse"
        <5>1. status'[q] = <<200>>
          BY <1>6, <4>2
        <5> QED
          BY <4>1, <4>2, <5>1, Zenon
      <4>3. CASE kind[q] # "sse"
        <5>1. status'[q] = <<>>
          BY <1>6, <4>3
        <5> QED
          BY <4>1, <4>3, <5>1, Zenon
      <4> QED
        BY <4>2, <4>3
    <3>3. phase'[q] = "serving" /\ kind' = kind
      BY <1>3, <1>4
    <3> QED
      BY <3>1, <3>2, <3>3 DEF AnswerInv
  <2>8. ReportInv'
    BY <1>3, <1>4, LenProperties DEF ReportInv
  <2> QED
    BY <2>4, <2>5, <2>6, <2>7, <2>8
<1>8. CASE Run!CommitErr /\ Proxy!SinkFails(q)
  <2>1. log' = log /\ pc' = "unwinding" /\ err' = "sink"
    BY <1>8 DEF Run!CommitErr, Run!Leave
  <2>2. /\ body' \in [{q} -> Seq(Pieces)]
        /\ writeErr' \in [{q} -> BOOLEAN] /\ writeErr'[q]
    BY <1>8, FailsForGood
  <2>4. HandlerType' /\ WireType' /\ ReportType'
    BY <1>4, <1>5, <1>6, <2>2 DEF HandlerType, WireType, ReportType
  <2>5. LinkInv'
    <3>1. Proxy!Serving(q)'
      BY <1>3, <1>4 DEF Proxy!Serving
    <3> QED
      BY <1>1, <1>2, <1>3, <1>4, <1>5, <2>1, <2>2, <3>1 DEF LinkInv
  <2>6. ResultInv'
    BY <1>2, <1>3, <1>4, <2>1 DEF ResultInv
  <2>7. AnswerInv'
    BY <1>3, <1>4, <1>5, <1>6, <2>2 DEF AnswerInv
  <2>8. ReportInv'
    BY <1>3, <1>4, LenProperties DEF ReportInv
  <2> QED
    BY <2>4, <2>5, <2>6, <2>7, <2>8
<1> QED
  BY <1>7, <1>8 DEF Commit

\* Every write after it adds to the stream.
LEMMA RelayStep ==
    ASSUME Known, ServiceInv, Relay
    PROVE  /\ HandlerType' /\ WireType' /\ ReportType'
           /\ LinkInv' /\ ResultInv' /\ AnswerInv' /\ ReportInv'
<1> USE DEF ServiceInv
<1>1. /\ pc = "relaying" /\ UNCHANGED <<first, result, clientGone>>
      /\ pc' \in {"relaying", "unwinding"} /\ events # <<>>
  BY DEF Relay, Run!RelayChunk, Run!Receive, Run!Leave, Run!ctxVars
<1>2. /\ first.idx # 0 /\ err = "none" /\ log \in Seq(P!Event) /\ log # <<>>
      /\ Len(log) \in Nat
  BY <1>1, WritingFacts
<1>3. /\ Proxy!Serving(q) /\ phase[q] = "serving" /\ committed[q] /\ ~writeErr[q]
      /\ winner[q] = first.idx /\ chunks[q] + 1 = Len(log)
      /\ status[q] = IF kind[q] = "sse" THEN <<200>> ELSE <<>>
      /\ kind[q] = "sse" => Len(body[q]) = 3 * Len(log)
  <2>1. Proxy!Serving(q) /\ winner[q] = first.idx /\ chunks[q] + 1 = Len(log)
    BY <1>1, <1>2 DEF LinkInv
  <2>2. phase[q] = "serving" /\ committed[q] /\ ~writeErr[q]
    BY <1>2, <2>1 DEF LinkInv, Proxy!Serving
  <2> QED
    BY <2>1, <2>2 DEF AnswerInv
<1>4. /\ chunks' = [chunks EXCEPT ![q] = @ + 1]
      /\ UNCHANGED <<kind, phase, winner, ret, committed, status, todo, held, added>>
  BY DEF Relay, Proxy!Relayed, Proxy!handler, Proxy!report
<1>5. chunks' \in [{q} -> Nat] /\ chunks'[q] = chunks[q] + 1
  BY <1>4 DEF HandlerType
<1>6. HandlerType' /\ ReportType'
  BY <1>4, <1>5 DEF HandlerType, ReportType
<1>7. Proxy!Serving(q)'
  BY <1>3, <1>4 DEF Proxy!Serving
<1>8. ReportInv'
  BY <1>3, <1>4, LenProperties DEF ReportInv
<1>9. CASE pc' = "relaying" /\ Proxy!SinkTakes(q)
  <2>1. log' = Append(log, Head(events)) /\ err' = err
    BY <1>9 DEF Relay, Run!RelayChunk, Run!Leave
  <2>2. /\ body' \in [{q} -> Seq(Pieces)] /\ writeErr' = writeErr
        /\ kind[q] = "sse" => Len(body'[q]) = Len(body[q]) + 3
    BY <1>9, TakesWhole
  <2>3. Len(log') = Len(log) + 1 /\ log' # <<>>
    <3>1. Head(events) \in P!Event
      BY <1>1 DEF Known, P!IndInv, P!TypeOK, P!PipeType
    <3> QED
      BY <1>2, <2>1, <3>1, AppendProperties
  <2>4. WireType'
    BY <1>4, <2>2 DEF WireType
  <2>5. LinkInv'
    BY <1>2, <1>3, <1>4, <1>5, <1>7, <1>9, <1>1, <2>1, <2>2, <2>3 DEF LinkInv
  <2>6. ResultInv'
    BY <1>2, <1>3, <1>4, <1>9, <2>1 DEF ResultInv
  <2>7. AnswerInv'
    <3>1. kind[q] = "sse" => Len(body'[q]) = 3 * Len(log')
      BY <1>2, <1>3, <2>2, <2>3
    <3>2. status'[q] = IF kind'[q] = "sse" /\ committed'[q] THEN <<200>> ELSE <<>>
      BY <1>3, <1>4
    <3>3. phase'[q] = "serving" /\ kind' = kind
      BY <1>3, <1>4
    <3> QED
      BY <3>1, <3>2, <3>3 DEF AnswerInv
  <2> QED
    BY <1>6, <1>8, <2>4, <2>5, <2>6, <2>7
<1>10. CASE pc' = "unwinding" /\ Proxy!SinkFails(q)
  <2>1. log' = log /\ err' = "sink"
    BY <1>1, <1>10 DEF Relay, Run!RelayChunk, Run!Leave
  <2>2. /\ body' \in [{q} -> Seq(Pieces)]
        /\ writeErr' \in [{q} -> BOOLEAN] /\ writeErr'[q]
    BY <1>10, FailsForGood
  <2>4. WireType'
    BY <1>4, <2>2 DEF WireType
  <2>5. LinkInv'
    BY <1>2, <1>3, <1>4, <1>5, <1>7, <1>10, <1>1, <2>1, <2>2 DEF LinkInv
  <2>6. ResultInv'
    BY <1>3, <1>4, <1>10, <2>1 DEF ResultInv
  <2>7. AnswerInv'
    BY <1>3, <1>4, <2>2 DEF AnswerInv
  <2> QED
    BY <1>6, <1>8, <2>4, <2>5, <2>6, <2>7
<1> QED
  BY <1>9, <1>10 DEF Relay

-----------------------------------------------------------------------------
(* Return and what the handler does with it.                               *)

\* A run returns one of four things.
LEMMA ReturnedResult ==
    ASSUME Known, pc = "waiting"
    PROVE  /\ Run!ReturnedError \in {"ok", "allFailed", "ctx", "sink"}
           /\ Run!ReturnedError = "ok" => first.idx # 0
           /\ Run!ReturnedError = "allFailed" => first.idx = 0
           /\ Run!ReturnedError = "sink" <=> err = "sink"
           /\ err = "sink" => first.idx # 0
<1>1. err \in {"nil", "ctx", "sink"} /\ (err = "sink" => first.idx # 0)
  BY DEF Known, P!IndInv, P!TypeOK, P!LoopType, P!PhaseInv, P!StreamInv,
         P!OutcomeInv, P!winner
<1>2. CASE err = "nil" /\ first.idx = 0
  BY <1>2 DEF Run!ReturnedError, Run!winner
<1>3. CASE err = "nil" /\ first.idx # 0
  BY <1>3 DEF Run!ReturnedError, Run!winner
<1>4. CASE err \in {"ctx", "sink"}
  <2>1. Run!ReturnedError = err
    BY <1>4 DEF Run!ReturnedError, Run!winner
  <2> QED
    BY <1>1, <1>4, <2>1
<1> QED
  BY <1>1, <1>2, <1>3, <1>4

\* Who was asked, once a run is over.
LEMMA AskedFacts ==
    ASSUME Known, pc \in {"waiting", "returned"}
    PROVE  /\ started \in 1 .. NB /\ NB \in Nat
           /\ first.idx \in 0 .. NB /\ first.idx <= started
<1>1. /\ started \in 0 .. NB /\ NB \in Nat
      /\ first \in P!Event \cup {P!NoEvent}
  BY DEF Known, P!IndInv, P!TypeOK, P!LoopType, P!BookType, Run!RunAssumption
<1>2. started # 0
  BY DEF Known, P!IndInv, P!PhaseInv
<1>3. first.idx \in 0 .. NB
  BY <1>1 DEF P!Event, P!NoEvent, P!Backends
<1>4. CASE first.idx # 0
  <2> DEFINE w == first.idx
  <2>1. w \in 1 .. NB
    BY <1>3, <1>4
  <2>2. first.chunk \in 1 .. Len(ScriptOf(w))
    BY <1>4, <2>1 DEF Known, P!StreamInv, P!RelayInv, P!winner
  <2>3. ScriptOf(w) # <<>>
    BY <2>2
  <2>4. ~(w > started)
    BY <2>1, <2>3 DEF Known, P!StreamInv, P!CellInv, P!Cell, P!Backends
  <2> QED
    BY <1>1, <1>2, <1>3, <2>4
<1>5. CASE first.idx = 0
  BY <1>1, <1>2, <1>5
<1> QED
  BY <1>1, <1>2, <1>3, <1>4, <1>5

\* The first n backends, in the order in which a run asks them.
AskedUpTo(n) == [i \in 1 .. n |-> i]

\* They are one of the ways HedgeProxy lets a run attempt its backends.
LEMMA AskedInOrder ==
    ASSUME NB \in Nat, NEW n \in 0 .. NB
    PROVE  /\ AskedUpTo(n) \in Proxy!Attempts
           /\ n # 0 => AskedUpTo(n) # <<>>
           /\ \A b \in 1 .. n : \E i \in DOMAIN AskedUpTo(n) : AskedUpTo(n)[i] = b
<1>1. /\ DOMAIN AskedUpTo(n) = 1 .. n /\ \A i \in 1 .. n : AskedUpTo(n)[i] = i
      /\ AskedUpTo(n) \in [1 .. n -> Proxy!Backends]
  BY DEF AskedUpTo, Proxy!Backends
<1>2. AskedUpTo(n) \in Proxy!Attempts
  BY <1>1 DEF Proxy!Attempts
<1>3. n # 0 => AskedUpTo(n) # <<>>
  BY DEF AskedUpTo
<1> QED
  BY <1>1, <1>2, <1>3

\* What is reported of a run that was over with n asked are labels, each of them
\* the winner's or that of a loser with its reason.
LEMMA LabelsOfRun ==
    ASSUME winner[q] \in 0 .. NB, NB \in Nat, NEW n \in 0 .. NB, winner[q] <= n
    PROVE  LET s == Proxy!Labelled(q, Proxy!Losses(q, AskedUpTo(n), Why))
           IN  /\ s \in Seq(Proxy!Labels)
               /\ \A k \in 1 .. Len(s) :
                    \/ winner[q] # 0 /\ s[k] = Proxy!WinOf(winner[q])
                    \/ \E i \in (1 .. n) \ {winner[q]} :
                         s[k] = Proxy!LossOf(i, Run!LossReason(i))
               /\ n = 0 => s = <<>>
<1> DEFINE w == winner[q]
           m == IF w = 0 THEN n ELSE n - 1
           At(k) == IF w = 0 \/ k < w THEN k ELSE k + 1
           lost == Proxy!Losses(q, AskedUpTo(n), Why)
           s == Proxy!Labelled(q, lost)
<1>1. m \in Nat /\ \A k \in 1 .. m : At(k) \in (1 .. n) \ {w} /\ At(k) \in 1 .. NB
  OBVIOUS
<1>2. lost = [k \in 1 .. m |-> Proxy!LossOf(At(k), Why[At(k)])]
  <2> DEFINE tried == AskedUpTo(n)
             at == IF w = 0 THEN Len(tried) + 1
                   ELSE CHOOSE i \in DOMAIN tried : tried[i] = w
             On(k) == IF k < at THEN k ELSE k + 1
  <2>1. /\ Len(tried) = n /\ DOMAIN tried = 1 .. n
        /\ \A i \in 1 .. n : tried[i] = i
    BY DEF AskedUpTo
  <2>2. lost = [k \in 1 .. IF w = 0 THEN Len(tried) ELSE Len(tried) - 1 |->
                 Proxy!LossOf(tried[On(k)], Why[tried[On(k)]])]
    BY DEF Proxy!Losses
  <2>3. at = IF w = 0 THEN n + 1 ELSE w
    <3>1. CASE w = 0
      BY <2>1, <3>1
    <3>2. CASE w # 0
      <4>1. w \in 1 .. n
        BY <3>2
      <4> HIDE DEF tried, w
      <4>2. (CHOOSE i \in DOMAIN tried : tried[i] = w) \in DOMAIN tried
            /\ tried[CHOOSE i \in DOMAIN tried : tried[i] = w] = w
        BY <2>1, <4>1
      <4> QED
        BY <2>1, <3>2, <4>2
    <3> QED
      BY <3>1, <3>2
  <2>4. \A k \in 1 .. m : On(k) = At(k)
    <3> HIDE DEF at
    <3> QED
      BY <2>3
  <2>5. \A k \in 1 .. m : tried[On(k)] = At(k)
    BY <1>1, <2>1, <2>4
  <2> HIDE DEF At, On, tried, at, lost
  <2> QED
    BY <2>1, <2>2, <2>5
<1>3. \A i \in 1 .. NB : /\ Why[i] = Run!LossReason(i)
                         /\ Proxy!LossOf(i, Why[i]) \in Proxy!Labels
  <2>1. \A i \in 1 .. NB : Run!LossReason(i) \in {"error", "no_usable_token", "canceled"}
    BY DEF Run!LossReason
  <2>2. \A i \in 1 .. NB : Why[i] = Run!LossReason(i)
    BY DEF Why, Backends, Run!Backends
  <2> QED
    BY <2>1, <2>2 DEF Proxy!LossOf, Proxy!Labels, Proxy!Backends, Reasons
<1> HIDE DEF At, m, w
<1>4. lost \in [1 .. m -> Proxy!Labels]
  BY <1>1, <1>2, <1>3
<1>5. lost \in Seq(Proxy!Labels) /\ Len(lost) = m
  BY <1>1, <1>4, FunctionIsSeq
<1>6. \A k \in 1 .. m : \E i \in (1 .. n) \ {w} :
        lost[k] = Proxy!LossOf(i, Run!LossReason(i))
  BY <1>1, <1>2, <1>3
<1>7. CASE w = 0
  <2>1. s = lost
    BY <1>7 DEF Proxy!Labelled, w
  <2>2. n = 0 => s = <<>>
    <3>1. n = 0 => m = 0
      BY <1>7 DEF m
    <3> QED
      BY <1>5, <2>1, <3>1, EmptySeq
  <2> HIDE DEF s, lost
  <2> QED
    BY <1>5, <1>6, <2>1, <2>2 DEF s, w, lost
<1>8. CASE w # 0
  <2>1. s = lost \o <<Proxy!WinOf(w)>>
    BY <1>8 DEF Proxy!Labelled, w
  <2>2. <<Proxy!WinOf(w)>> \in Seq(Proxy!Labels) /\ Len(<<Proxy!WinOf(w)>>) = 1
    BY <1>8 DEF Proxy!WinOf, Proxy!Labels, Proxy!Backends, w
  <2> HIDE DEF lost, s
  <2>3. /\ s \in Seq(Proxy!Labels) /\ Len(s) = m + 1
        /\ \A k \in 1 .. m + 1 :
             s[k] = IF k <= m THEN lost[k] ELSE <<Proxy!WinOf(w)>>[k - m]
    BY <1>5, <2>1, <2>2, ConcatProperties
  <2>4. \A k \in 1 .. m + 1 : (k \in 1 .. m /\ s[k] = lost[k]) \/ s[k] = Proxy!WinOf(w)
    <3> SUFFICES ASSUME NEW k \in 1 .. m + 1
                 PROVE  (k \in 1 .. m /\ s[k] = lost[k]) \/ s[k] = Proxy!WinOf(w)
      OBVIOUS
    <3>1. CASE k <= m
      BY <1>1, <2>3, <3>1
    <3>2. CASE ~(k <= m)
      <4>1. k - m = 1
        BY <1>1, <3>2
      <4> QED
        BY <2>3, <3>2, <4>1
    <3> QED
      BY <3>1, <3>2
  <2>5. n # 0
    BY <1>8 DEF w
  <2> QED
    BY <1>6, <1>8, <2>3, <2>4, <2>5 DEF s, w, lost
<1> QED
  BY <1>7, <1>8

\* A handler that is not serving has no run under way.
LEMMA NotServing ==
    ASSUME Known, ServiceInv, pc \in {"start", "returned"}
    PROVE  /\ winner[q] = first.idx
           /\ pc = "start" => first.idx = 0 /\ ~committed[q] /\ err = "none" /\ started = 0
           /\ pc = "returned" => result \in {"ok", "allFailed", "ctx", "sink"}
           /\ pc = "returned" /\ ~committed[q] => result # "ok"
           /\ pc = "returned" => phase[q] \in {"reporting", "answering", "done"}
<1>1. winner[q] = first.idx /\ (committed[q] <=> winner[q] # 0)
      /\ (pc = "returned" => phase[q] \in {"reporting", "answering", "done"})
  BY DEF ServiceInv, LinkInv
<1>2. pc = "start" => first.idx = 0 /\ err = "none" /\ started = 0
  BY DEF Known, P!IndInv, P!PhaseInv, P!Decided, P!winner, P!StreamInv, P!OutcomeInv
<1>3. pc = "returned" => result \in {"ok", "allFailed", "ctx", "sink"}
  BY DEF Known, P!IndInv, P!TypeOK, P!LoopType, P!StreamInv, P!OutcomeInv
<1>4. result = "ok" => first.idx # 0
  BY DEF Known, P!StreamInv, P!OutcomeInv, P!winner
<1> QED
  BY <1>1, <1>2, <1>3, <1>4

\* Run returns what it found, and the handler has its report to make.
LEMMA ReturnStep ==
    ASSUME Known, ServiceInv, Return
    PROVE  /\ HandlerType' /\ WireType' /\ ReportType'
           /\ LinkInv' /\ ResultInv' /\ AnswerInv' /\ ReportInv'
<1> USE DEF ServiceInv
<1> DEFINE s == Proxy!Labelled(q, Proxy!Losses(q, Tried, Why))
<1>1. /\ pc = "waiting" /\ pc' = "returned" /\ result' = Run!ReturnedError
      /\ UNCHANGED <<first, log, err, started, failed, closed, clientGone>>
  BY DEF Return, Run!WaitAndReturn, Run!ctxVars
<1>2. /\ ret' = [ret EXCEPT ![q] = result']
      /\ todo' = [todo EXCEPT ![q] = s]
      /\ phase' = [phase EXCEPT ![q] = "reporting"]
      /\ UNCHANGED <<kind, winner, committed, writeErr, status, body, chunks, held, added>>
  BY DEF Return, Proxy!Returned, Proxy!Reported, Proxy!wire
<1>3. /\ Proxy!Serving(q) /\ phase[q] = "serving" /\ winner[q] = first.idx
  BY <1>1 DEF LinkInv, Proxy!Serving
<1>4. result' \in {"ok", "allFailed", "ctx", "sink"}
      /\ (Run!ReturnedError' = Run!ReturnedError)
  <2>1. Run!ReturnedError \in {"ok", "allFailed", "ctx", "sink"}
    BY <1>1, ReturnedResult
  <2>2. Run!ReturnedError' = Run!ReturnedError
    BY <1>1 DEF Run!ReturnedError, Run!winner
  <2> QED
    BY <1>1, <2>1, <2>2
<1>5. /\ s \in Seq(Proxy!Labels)
      /\ \A k \in 1 .. Len(s) :
           \/ winner[q] # 0 /\ s[k] = Proxy!WinOf(winner[q])
           \/ \E i \in (1 .. started) \ {winner[q]} :
                s[k] = Proxy!LossOf(i, Run!LossReason(i))
  <2>1. /\ winner[q] \in 0 .. NB /\ NB \in Nat /\ started \in 0 .. NB
        /\ winner[q] <= started
    BY <1>1, <1>3, AskedFacts
  <2>2. Tried = AskedUpTo(started)
    BY DEF Tried, AskedUpTo
  <2> QED
    BY <2>1, <2>2, LabelsOfRun
<1> HIDE DEF s
<1>6. /\ phase' \in [{q} -> {"new", "serving", "reporting", "answering", "done"}]
      /\ phase'[q] = "reporting"
      /\ ret' \in [{q} -> {"none", "ok", "allFailed", "noBackends", "ctx", "sink"}]
      /\ ret'[q] = result'
      /\ todo' \in [{q} -> Seq(Proxy!Labels)] /\ todo'[q] = s
  BY <1>2, <1>4, <1>5 DEF HandlerType, ReportType
<1>7. HandlerType' /\ WireType' /\ ReportType'
  BY <1>2, <1>6 DEF HandlerType, WireType, ReportType
<1>8. LinkInv'
  BY <1>1, <1>2, <1>3, <1>6 DEF LinkInv
<1>9. ResultInv'
  <2>1. err = "ctx" => clientGone
    BY DEF ResultInv
  <2> QED
    BY <1>1, <1>4, <1>6, <2>1 DEF ResultInv
<1>10. AnswerInv'
  BY <1>1, <1>2, <1>3, <1>6 DEF AnswerInv
<1>11. ReportInv'
  <2>1. added[q] = {} /\ todo[q] = <<>>
    BY <1>3 DEF ReportInv
  <2>2. held[q] = 0
    BY <1>3, <2>1 DEF ReportInv
  <2>3. ASSUME NEW l,
               \/ first.idx # 0 /\ l = Proxy!WinOf(first.idx)
               \/ \E i \in (1 .. started) \ {first.idx} :
                    l = Proxy!LossOf(i, Run!LossReason(i))
        PROVE  Deserved(l)'
    BY <1>1, <2>3 DEF Deserved, Run!LossReason, Proxy!WinOf, Proxy!LossOf
  <2>4. \A k \in 1 .. Len(todo'[q]) : Deserved(todo[q][k])'
    BY <1>3, <1>5, <1>6, <2>3
  <2> QED
    BY <1>2, <1>6, <2>1, <2>2, <2>4 DEF ReportInv
<1> QED
  BY <1>7, <1>8, <1>9, <1>10, <1>11

\* With every backend cooling there is nothing to return.
LEMMA NoneEligibleStep ==
    ASSUME Known, ServiceInv, NoneEligible
    PROVE  /\ HandlerType' /\ WireType' /\ ReportType'
           /\ LinkInv' /\ ResultInv' /\ AnswerInv' /\ ReportInv'
<1> USE DEF ServiceInv
<1>1. /\ pc = "start" /\ pc' = "start" /\ phase[q] = "serving"
      /\ UNCHANGED <<first, log, err, result, clientGone>>
  BY DEF NoneEligible, vars, runVars, sinkVars, ctxVars, Proxy!Serving
<1>2. first.idx = 0 /\ winner[q] = 0 /\ ~committed[q]
  BY <1>1, NotServing
<1>3. Proxy!Labelled(q, Proxy!Losses(q, <<>>, Why)) = <<>>
  <2>1. winner[q] \in 0 .. NB /\ NB \in Nat /\ 0 \in 0 .. NB /\ winner[q] <= 0
    BY <1>2 DEF Run!RunAssumption
  <2>2. AskedUpTo(0) = <<>>
    BY DEF AskedUpTo
  <2> QED
    BY <2>1, <2>2, LabelsOfRun
<1>4. /\ ret' = [ret EXCEPT ![q] = "noBackends"]
      /\ todo' = [todo EXCEPT ![q] = <<>>]
      /\ phase' = [phase EXCEPT ![q] = "reporting"]
      /\ UNCHANGED <<kind, winner, committed, writeErr, status, body, chunks, held, added>>
  BY <1>3 DEF NoneEligible, Proxy!Returned, Proxy!Reported, Proxy!wire
<1>5. /\ phase' \in [{q} -> {"new", "serving", "reporting", "answering", "done"}]
      /\ phase'[q] = "reporting"
      /\ ret' \in [{q} -> {"none", "ok", "allFailed", "noBackends", "ctx", "sink"}]
      /\ ret'[q] = "noBackends"
      /\ todo' \in [{q} -> Seq(Proxy!Labels)] /\ todo'[q] = <<>>
  BY <1>4 DEF HandlerType, ReportType
<1>6. HandlerType' /\ WireType' /\ ReportType'
  BY <1>4, <1>5 DEF HandlerType, WireType, ReportType
<1>7. LinkInv'
  BY <1>1, <1>4 DEF LinkInv
<1>8. ResultInv'
  BY <1>1, <1>5 DEF ResultInv
<1>9. AnswerInv'
  BY <1>1, <1>4, <1>5 DEF AnswerInv
<1>10. ReportInv'
  <2>1. added[q] = {} /\ held[q] = 0
    BY <1>1 DEF ReportInv
  <2> QED
    BY <1>4, <1>5, <2>1, LenProperties DEF ReportInv
<1> QED
  BY <1>6, <1>7, <1>8, <1>9, <1>10

\* The handler by itself serves no run, and goes on from phase to phase.
LEMMA HandlerFrame ==
    ASSUME ServiceInv, HandlerAlone
    PROVE  /\ UNCHANGED <<pc, first, log, err, result, clientGone, started, failed,
                          closed>>
           /\ UNCHANGED <<kind, winner, ret, committed, writeErr, chunks>>
           /\ pc \in {"start", "returned"}
           /\ phase' \in [{q} -> {"new", "serving", "reporting", "answering", "done"}]
           /\ \/ phase[q] = "new" /\ phase'[q] \in {"serving", "done"}
              \/ phase[q] = "serving" /\ phase'[q] = "done"
              \/ phase[q] = "reporting" /\ phase'[q] \in {"reporting", "answering"}
              \/ phase[q] = "answering" /\ phase'[q] = "done"
<1>1. UNCHANGED vars
  BY DEF HandlerAlone
<1>2. phase \in [{q} -> {"new", "serving", "reporting", "answering", "done"}]
  BY DEF ServiceInv, HandlerType
<1>3. CASE Proxy!Refuse(q) \/ Proxy!Count(q) \/ Proxy!NoFlusher(q)
  <2>1. /\ UNCHANGED <<kind, winner, ret, committed, writeErr, chunks>>
        /\ ~Proxy!Serving(q)
        /\ \/ phase[q] = "new" /\ phase' = [phase EXCEPT ![q] = "serving"]
           \/ phase[q] \in {"new", "serving"} /\ phase' = [phase EXCEPT ![q] = "done"]
    BY <1>3
    DEF Proxy!Refuse, Proxy!Count, Proxy!NoFlusher, Proxy!wire, Proxy!Serving
  <2> QED
    BY <1>1, <1>2, <2>1
    DEF vars, runVars, bookVars, sinkVars, ctxVars, ServiceInv, LinkInv
<1>4. CASE Proxy!Find(q) \/ Proxy!AddOne(q)
  <2>1. UNCHANGED <<kind, winner, ret, committed, writeErr, chunks, phase>>
        /\ phase[q] = "reporting"
    BY <1>4
    DEF Proxy!Find, Proxy!AddOne, Proxy!wire, Proxy!handler, ServiceInv, ReportInv
  <2> QED
    BY <1>1, <1>2, <2>1
    DEF vars, runVars, bookVars, sinkVars, ctxVars, ServiceInv, LinkInv, Proxy!Serving
<1>5. CASE Proxy!Conclude(q)
  <2>1. UNCHANGED <<kind, winner, ret, committed, writeErr, chunks>>
        /\ phase[q] = "reporting" /\ phase' = [phase EXCEPT ![q] = "answering"]
    BY <1>5 DEF Proxy!Conclude, Proxy!wire
  <2> QED
    BY <1>1, <1>2, <2>1
    DEF vars, runVars, bookVars, sinkVars, ctxVars, ServiceInv, LinkInv, Proxy!Serving
<1>6. CASE Proxy!AnswerError(q) \/ Proxy!AnswerStream(q) \/ Proxy!AnswerJSON(q)
  <2>1. UNCHANGED <<kind, winner, ret, committed, writeErr, chunks>>
        /\ phase[q] = "answering" /\ phase' = [phase EXCEPT ![q] = "done"]
    BY <1>6 DEF Proxy!AnswerError, Proxy!AnswerStream, Proxy!AnswerJSON
  <2> QED
    BY <1>1, <1>2, <2>1
    DEF vars, runVars, bookVars, sinkVars, ctxVars, ServiceInv, LinkInv, Proxy!Serving
<1> QED
  BY <1>3, <1>4, <1>5, <1>6 DEF HandlerAlone

\* So it keeps what ties it to its run.
LEMMA HandlerLinks ==
    ASSUME Known, ServiceInv, HandlerAlone
    PROVE  HandlerType' /\ LinkInv' /\ ResultInv'
<1> USE HandlerFrame
<1>1. HandlerType'
  BY DEF ServiceInv, HandlerType
<1>2. LinkInv'
  <2>1. pc = "returned" => phase'[q] \in {"reporting", "answering", "done"}
    BY NotServing
  <2> QED
    BY <2>1 DEF ServiceInv, LinkInv
<1>3. ResultInv'
  <2>1. Run!ReturnedError' = Run!ReturnedError
    BY DEF Run!ReturnedError, Run!winner
  <2> QED
    BY <2>1 DEF ServiceInv, ResultInv
<1> QED
  BY <1>1, <1>2, <1>3

\* What has been reported stays deserved.
LEMMA HandlerReports ==
    ASSUME Known, ServiceInv, HandlerAlone
    PROVE  ReportType' /\ ReportInv'
<1>1. ASSUME NEW l, Deserved(l) PROVE Deserved(l)'
  BY <1>1, HandlerFrame DEF Deserved, Run!LossReason, Proxy!WinOf, Proxy!LossOf
<1>2. /\ todo[q] \in Seq(Proxy!Labels) /\ added[q] \in SUBSET Proxy!Labels
      /\ todo \in [{q} -> Seq(Proxy!Labels)] /\ DOMAIN held = {q}
      /\ added \in [{q} -> SUBSET Proxy!Labels]
      /\ \A k \in 1 .. Len(todo[q]) : Deserved(todo[q][k])
      /\ \A l \in added[q] : Deserved(l)
      /\ phase[q] \in {"new", "serving"} => todo[q] = <<>> /\ added[q] = {}
      /\ held[q] # 0 => phase[q] = "reporting" /\ todo[q] # <<>>
  BY DEF ServiceInv, ReportType, ReportInv
<1>3. CASE Proxy!Find(q)
  <2>1. /\ UNCHANGED <<phase, todo, added>> /\ phase[q] = "reporting" /\ todo[q] # <<>>
        /\ DOMAIN held' = DOMAIN held
    BY <1>3 DEF Proxy!Find, Proxy!handler
  <2> QED
    BY <1>1, <1>2, <2>1 DEF ReportType, ReportInv
<1>4. CASE Proxy!AddOne(q)
  <2>1. /\ held' = [held EXCEPT ![q] = 0] /\ held[q] # 0
        /\ added' = [added EXCEPT ![q] = @ \cup {Head(todo[q])}]
        /\ todo' = [todo EXCEPT ![q] = Tail(@)]
        /\ UNCHANGED phase
    BY <1>4 DEF Proxy!AddOne, Proxy!handler
  <2>2. /\ phase[q] = "reporting" /\ todo[q] # <<>>
        /\ Head(todo[q]) \in Proxy!Labels /\ Tail(todo[q]) \in Seq(Proxy!Labels)
        /\ Head(todo[q]) = todo[q][1] /\ 1 \in 1 .. Len(todo[q])
        /\ Len(Tail(todo[q])) = Len(todo[q]) - 1 /\ Len(todo[q]) \in Nat
        /\ \A k \in 1 .. Len(Tail(todo[q])) : Tail(todo[q])[k] = todo[q][k + 1]
    BY <1>2, <2>1, EmptySeq, HeadTailProperties, LenProperties
  <2>3. /\ held'[q] = 0 /\ DOMAIN held' = {q}
        /\ added' \in [{q} -> SUBSET Proxy!Labels]
        /\ added'[q] = added[q] \cup {Head(todo[q])}
        /\ todo' \in [{q} -> Seq(Proxy!Labels)] /\ todo'[q] = Tail(todo[q])
    BY <1>2, <2>1, <2>2
  <2>4. \A k \in 1 .. Len(Tail(todo[q])) : k + 1 \in 1 .. Len(todo[q])
    BY <2>2
  <2>5. \A l \in added'[q] : Deserved(l)'
    BY <1>1, <1>2, <2>2, <2>3
  <2>6. \A k \in 1 .. Len(todo'[q]) : Deserved(todo[q][k])'
    BY <1>1, <1>2, <2>2, <2>3, <2>4
  <2> QED
    BY <2>1, <2>2, <2>3, <2>5, <2>6 DEF ReportType, ReportInv
<1>5. CASE ~Proxy!Find(q) /\ ~Proxy!AddOne(q)
  <2>1. /\ UNCHANGED <<todo, held, added>>
        /\ phase[q] = "reporting" => todo[q] = <<>>
    BY <1>5
    DEF HandlerAlone, Proxy!Refuse, Proxy!Count, Proxy!NoFlusher, Proxy!Conclude,
        Proxy!AnswerError, Proxy!AnswerStream, Proxy!AnswerJSON, Proxy!report
  <2>2. held[q] = 0
    BY <1>2, <2>1
  <2>3. phase'[q] \in {"new", "serving"} => phase[q] \in {"new", "serving"}
    BY HandlerFrame
  <2> QED
    BY <1>1, <1>2, <2>1, <2>2, <2>3 DEF ReportType, ReportInv
<1> QED
  BY <1>3, <1>4, <1>5

\* A status line and a JSON body, sent to a client that was sent nothing.
LEMMA ErrorWritten ==
    ASSUME WireType, NEW code \in Nat, Proxy!WriteError(q, code), status[q] = <<>>
    PROVE  /\ status' \in [{q} -> Seq(Nat)] /\ status'[q] = <<code>>
           /\ body' \in [{q} -> Seq(Pieces)]
<1>1. /\ status \in [{q} -> Seq(Nat)] /\ body \in [{q} -> Seq(Pieces)]
      /\ status' = [status EXCEPT ![q] = Append(@, code)]
      /\ body' = [body EXCEPT ![q] = Append(@, "error")]
  BY DEF WireType, Proxy!WriteError
<1>2. Append(status[q], code) = <<code>> /\ <<code>> \in Seq(Nat)
  OBVIOUS
<1>3. "error" \in Pieces
  BY DEF Pieces
<1>4. body[q] \in Seq(Pieces)
  BY <1>1
<1>5. Append(body[q], "error") \in Seq(Pieces)
  BY <1>3, <1>4, AppendProperties
<1> QED
  BY <1>1, <1>2, <1>5

\* What the handler answers is what its run calls for.
LEMMA HandlerAnswers ==
    ASSUME Known, ServiceInv, HandlerAlone
    PROVE  WireType' /\ AnswerInv'
<1>1. /\ committed \in [{q} -> BOOLEAN] /\ writeErr \in [{q} -> BOOLEAN]
      /\ status \in [{q} -> Seq(Nat)] /\ body \in [{q} -> Seq(Pieces)]
      /\ WireType
  BY DEF ServiceInv, WireType
<1>2. /\ UNCHANGED <<committed, writeErr>> /\ UNCHANGED <<kind, pc, result, log>>
      /\ pc \in {"start", "returned"}
      /\ phase \in [{q} -> {"new", "serving", "reporting", "answering", "done"}]
  BY HandlerFrame DEF ServiceInv, HandlerType
<1>3. /\ pc = "start" => ~committed[q]
      /\ pc = "returned" => result \in {"ok", "allFailed", "ctx", "sink"}
      /\ pc = "returned" => phase[q] \in {"reporting", "answering", "done"}
  BY <1>2, NotServing
<1>4. /\ phase[q] # "done" =>
           status[q] = IF kind[q] = "sse" /\ committed[q] THEN <<200>> ELSE <<>>
      /\ phase[q] # "done" /\ kind[q] = "sse" /\ ~writeErr[q] =>
           Len(body[q]) = 3 * Len(log)
  BY DEF ServiceInv, AnswerInv
<1>5. CASE Proxy!Count(q) \/ Proxy!Find(q) \/ Proxy!AddOne(q) \/ Proxy!Conclude(q)
  <2>1. UNCHANGED <<status, body>> /\ phase[q] # "done" /\ phase'[q] # "done"
    <3>1. UNCHANGED <<status, body>>
      BY <1>5
      DEF Proxy!Count, Proxy!Find, Proxy!AddOne, Proxy!Conclude, Proxy!wire
    <3>2. \/ phase[q] = "new" /\ phase' = [phase EXCEPT ![q] = "serving"]
          \/ phase[q] = "reporting" /\ phase' = [phase EXCEPT ![q] = "answering"]
          \/ phase[q] = "reporting" /\ phase' = phase
      BY <1>5
      DEF Proxy!Count, Proxy!Find, Proxy!AddOne, Proxy!Conclude, Proxy!handler,
          ServiceInv, ReportInv
    <3> QED
      BY <1>2, <3>1, <3>2
  <2> QED
    BY <1>1, <1>2, <1>4, <2>1 DEF WireType, AnswerInv
<1>6. CASE Proxy!Refuse(q) \/ Proxy!NoFlusher(q)
  <2>1. /\ phase[q] \in {"new", "serving"} /\ kind[q] # "sse"
        /\ phase' = [phase EXCEPT ![q] = "done"]
        /\ \E c \in Refusals \cup {500} : Proxy!WriteError(q, c)
    BY <1>6 DEF Proxy!Refuse, Proxy!NoFlusher
  <2>2. PICK c \in Refusals \cup {500} : Proxy!WriteError(q, c)
    BY <2>1
  <2>3. c \in Nat
    BY ServiceAssumption DEF Proxy!ProxyAssumption
  <2>4. status[q] = <<>> /\ pc = "start" /\ phase'[q] = "done"
    BY <1>2, <1>3, <1>4, <2>1
  <2>5. /\ status' \in [{q} -> Seq(Nat)] /\ status'[q] = <<c>>
        /\ body' \in [{q} -> Seq(Pieces)]
    BY <1>1, <2>2, <2>3, <2>4, ErrorWritten
  <2> QED
    BY <1>1, <1>2, <2>1, <2>4, <2>5 DEF WireType, AnswerInv
<1>7. CASE Proxy!AnswerError(q)
  <2>1. /\ phase[q] = "answering" /\ ~committed[q] /\ phase' = [phase EXCEPT ![q] = "done"]
        /\ Proxy!WriteError(q, Proxy!ErrorStatus(q))
    BY <1>7 DEF Proxy!AnswerError, Proxy!Uncommitted
  <2>2. ret[q] = IF pc = "start" THEN "noBackends" ELSE result
    BY <2>1 DEF ServiceInv, ResultInv
  <2>3. Proxy!ErrorStatus(q) = IF pc = "start" THEN 503
                               ELSE IF result = "ctx" THEN 499 ELSE 502
    BY <1>2, <1>3, <2>2 DEF Proxy!ErrorStatus
  <2>4. status[q] = <<>> /\ phase'[q] = "done"
    BY <1>2, <1>4, <2>1
  <2>5. /\ status' \in [{q} -> Seq(Nat)] /\ status'[q] = <<Proxy!ErrorStatus(q)>>
        /\ body' \in [{q} -> Seq(Pieces)]
    <3>1. Proxy!ErrorStatus(q) \in Nat
      BY <2>3
    <3> QED
      BY <1>1, <2>1, <2>4, <3>1, ErrorWritten
  <2>6. WireType'
    BY <1>1, <1>2, <2>5 DEF WireType
  <2>7. AnswerInv'
    <3>1. pc = "start" => status'[q] = <<503>>
      BY <2>3, <2>5
    <3>2. pc = "returned" => status'[q] = IF result = "ctx" THEN <<499>> ELSE <<502>>
      BY <2>3, <2>5
    <3> QED
      BY <1>2, <2>1, <2>4, <3>1, <3>2 DEF AnswerInv
  <2> QED
    BY <2>6, <2>7
<1>8. CASE Proxy!AnswerStream(q)
  <2>1. /\ phase[q] = "answering" /\ committed[q] /\ kind[q] = "sse"
        /\ phase' = [phase EXCEPT ![q] = "done"] /\ UNCHANGED status
        /\ body' = IF ~writeErr[q] THEN [body EXCEPT ![q] = Append(@, "[DONE]")] ELSE body
    BY <1>8 DEF Proxy!AnswerStream, Proxy!Uncommitted, Proxy!MayTerminate
  <2>2. /\ phase'[q] = "done" /\ status[q] = <<200>> /\ pc = "returned"
    BY <1>2, <1>3, <1>4, <2>1
  <2>3. body' \in [{q} -> Seq(Pieces)]
        /\ (~writeErr[q] => Len(body'[q]) = Len(body[q]) + 1)
    <3>1. "[DONE]" \in Pieces
      BY DEF Pieces
    <3>2. body[q] \in Seq(Pieces)
      BY <1>1
    <3>3. /\ Append(body[q], "[DONE]") \in Seq(Pieces)
          /\ Len(Append(body[q], "[DONE]")) = Len(body[q]) + 1
      BY <3>1, <3>2, AppendProperties
    <3> QED
      BY <1>1, <2>1, <3>3
  <2>4. WireType'
    BY <1>1, <1>2, <2>1, <2>3 DEF WireType
  <2>5. ~writeErr[q] => Len(body'[q]) = 3 * Len(log) + 1
    BY <1>4, <2>1, <2>3
  <2>6. AnswerInv'
    BY <1>2, <2>1, <2>2, <2>5 DEF AnswerInv
  <2> QED
    BY <2>4, <2>6
<1>9. CASE Proxy!AnswerJSON(q)
  <2>1. /\ phase[q] = "answering" /\ committed[q] /\ kind[q] = "json"
        /\ phase' = [phase EXCEPT ![q] = "done"]
        /\ status' = [status EXCEPT ![q] = Append(@, 200)]
        /\ body' = [body EXCEPT ![q] = Append(@, "completion")]
    BY <1>9 DEF Proxy!AnswerJSON, Proxy!Uncommitted
  <2>2. phase'[q] = "done" /\ status[q] = <<>> /\ pc = "returned"
    BY <1>2, <1>3, <1>4, <2>1
  <2>3. body' \in [{q} -> Seq(Pieces)]
    <3>1. "completion" \in Pieces
      BY DEF Pieces
    <3>2. body[q] \in Seq(Pieces)
      BY <1>1
    <3>3. Append(body[q], "completion") \in Seq(Pieces)
      BY <3>1, <3>2, AppendProperties
    <3> QED
      BY <1>1, <2>1, <3>3
  <2>4. status' \in [{q} -> Seq(Nat)] /\ status'[q] = <<200>>
    <3>1. Append(status[q], 200) = <<200>> /\ <<200>> \in Seq(Nat)
      BY <2>2
    <3> QED
      BY <1>1, <2>1, <3>1
  <2> QED
    BY <1>1, <1>2, <2>1, <2>2, <2>3, <2>4 DEF WireType, AnswerInv
<1> QED
  BY <1>5, <1>6, <1>7, <1>8, <1>9 DEF HandlerAlone

\* A step that changes nothing keeps it.
LEMMA ServiceStutter ==
    ASSUME ServiceInv, UNCHANGED serviceVars
    PROVE  ServiceInv'
<1> USE DEF serviceVars, vars, runVars, bookVars, sinkVars, ctxVars, backendVars,
            handlerVars
<1>1. HandlerType' /\ WireType' /\ ReportType'
  BY DEF ServiceInv, HandlerType, WireType, ReportType
<1>2. LinkInv' /\ ResultInv'
  <2>1. Run!ReturnedError' = Run!ReturnedError
    BY DEF Run!ReturnedError, Run!winner
  <2> QED
    BY <2>1 DEF ServiceInv, LinkInv, ResultInv, Proxy!Serving
<1>3. AnswerInv'
  BY DEF ServiceInv, AnswerInv
<1>4. ReportInv'
  <2>1. ASSUME NEW l, Deserved(l) PROVE Deserved(l)'
    BY <2>1 DEF Deserved, Run!LossReason, Proxy!WinOf, Proxy!LossOf
  <2> QED
    BY <2>1 DEF ServiceInv, ReportInv
<1>5. RefusedInv'
  BY DEF ServiceInv, RefusedInv, Backends, Run!Backends
<1> QED
  BY <1>1, <1>2, <1>3, <1>4, <1>5 DEF ServiceInv

\* Every step keeps handler and run together.
LEMMA ServiceStep ==
    ASSUME Known, ServiceInv, ServiceNext
    PROVE  ServiceInv'
<1>1. Next \/ UNCHANGED vars
  BY DEF ServiceNext, RunAlone, Commit, Relay, Return, NoneEligible, HandlerAlone,
         Answered, serviceVars, Next, Loop, Run!Relaying, Run!Unwinding
<1>2. RefusedInv'
  <2>1. CASE Next
    BY <2>1, RefusedStep DEF ServiceInv
  <2>2. CASE UNCHANGED vars
    BY <2>2
    DEF vars, runVars, bookVars, backendVars, ServiceInv, RefusedInv, Backends,
        Run!Backends
  <2> QED
    BY <1>1, <2>1, <2>2
<1>3. CASE RunAlone
  BY <1>2, <1>3, AloneStep DEF ServiceInv
<1>4. CASE Commit
  BY <1>2, <1>4, CommitStep DEF ServiceInv
<1>5. CASE Relay
  BY <1>2, <1>5, RelayStep DEF ServiceInv
<1>6. CASE Return
  BY <1>2, <1>6, ReturnStep DEF ServiceInv
<1>7. CASE NoneEligible
  BY <1>2, <1>7, NoneEligibleStep DEF ServiceInv
<1>8. CASE HandlerAlone
  BY <1>2, <1>8, HandlerLinks, HandlerReports, HandlerAnswers DEF ServiceInv
<1>9. CASE Answered
  BY <1>9, ServiceStutter DEF Answered
<1> QED
  BY <1>3, <1>4, <1>5, <1>6, <1>7, <1>8, <1>9 DEF ServiceNext

\* Handler and run agree throughout, for any number of backends, any upstreams
\* and any bounds.
THEOREM ServiceInvariance == ServiceSpec => []ServiceInv
<1>1. Known /\ ServiceInv /\ [ServiceNext]_serviceVars => ServiceInv'
  BY ServiceStep, ServiceStutter
<1> QED
  BY <1>1, ServiceStart, KnownHolds, PTL DEF ServiceSpec

-----------------------------------------------------------------------------
(* The handler over a real run is the handler of HedgeProxy.               *)

\* The winner's next chunk is one that it may have.
LEMMA NextChunk ==
    ASSUME Known, pc = "relaying", Run!RelayChunk
    PROVE  Len(log) < MaxChunks
<1>1. /\ first.idx \in P!Backends /\ log \in Seq(P!Event) /\ log # <<>>
      /\ Len(log) \in Nat /\ MaxChunks \in Nat
  BY WritingFacts DEF P!Backends, Run!RunAssumption
<1>2. /\ events \in Seq(P!Event) /\ events # <<>>
      /\ Head(events).idx = first.idx /\ Head(events).chunk > 0
  BY DEF Run!RelayChunk, Run!Receive, Run!FromWinner, Run!winner, Known, P!IndInv,
         P!TypeOK, P!PipeType
<1>3. /\ Head(events) = events[1] /\ 1 \in 1 .. Len(events)
      /\ events[1] \in P!Event
  BY <1>2, EmptySeq, HeadTailProperties, LenProperties, ElementOfSeq
<1>4. P!Queued(first.idx, events[1].chunk) /\ events[1].chunk \in 1 .. MaxChunks
  BY <1>1, <1>2, <1>3 DEF P!Queued, P!Event
<1>5. PICK lo \in 1 .. MaxChunks + 1, hi \in 0 .. MaxChunks : P!Lane(first.idx, lo, hi)
  BY <1>1 DEF Known, P!StreamInv, P!LaneInv
<1>6. lo <= events[1].chunk /\ lo = P!Expected
  BY <1>4, <1>5 DEF P!Lane, P!winner
<1>7. first.chunk \in Nat /\ first.chunk > 0
  <2>1. first \in P!Event
    BY <1>1 DEF Known, P!IndInv, P!TypeOK, P!LoopType, P!NoEvent, P!Backends
  <2>2. first.chunk # 0
    BY <1>1 DEF Known, P!StreamInv, P!RelayInv, P!winner, P!Backends
  <2> QED
    BY <2>1, <2>2 DEF P!Event
<1> QED
  BY <1>1, <1>4, <1>6, <1>7 DEF P!Expected

\* Every step is one of HedgeProxy's, or none of the handler's business.
LEMMA ProxySimulation ==
    ASSUME Known, ServiceInv, ServiceNext
    PROVE  Proxy!Next \/ UNCHANGED Proxy!vars
<1>1. CASE RunAlone \/ Answered
  BY <1>1
  DEF RunAlone, Answered, serviceVars, handlerVars, Proxy!vars, Proxy!handler,
      Proxy!wire, Proxy!report, Proxy!metrics
<1>2. CASE Commit
  <2>1. pc = "committing" /\ Proxy!SinkChunk(q) /\ Proxy!Committed(q, first.idx)
    BY <1>2
    DEF Commit, Run!CommitOk, Run!CommitErr, Proxy!SinkChunk
  <2>2. first.idx \in 1 .. NB /\ Proxy!Serving(q) /\ winner[q] = 0
    BY <2>1, WritingFacts DEF ServiceInv, LinkInv
  <2>3. Proxy!Commit(q)
    BY <2>1, <2>2 DEF Proxy!Commit, Proxy!Backends
  <2> QED
    BY <2>3 DEF Proxy!Next
<1>3. CASE Relay
  <2>1. /\ pc = "relaying" /\ Run!RelayChunk
        /\ Proxy!SinkChunk(q) /\ Proxy!Relayed(q)
    BY <1>3 DEF Relay, Run!RelayChunk, Proxy!SinkChunk
  <2>2. /\ first.idx # 0 /\ err = "none" /\ log # <<>> /\ Len(log) \in Nat
        /\ Len(log) < MaxChunks /\ MaxChunks \in Nat
    BY <2>1, WritingFacts, NextChunk DEF Run!RunAssumption
  <2>3. /\ Proxy!Serving(q) /\ winner[q] # 0 /\ ~writeErr[q]
        /\ chunks[q] \in Nat /\ chunks[q] + 1 = Len(log)
    BY <2>1, <2>2 DEF ServiceInv, LinkInv, HandlerType
  <2>4. chunks[q] < MaxChunks
    BY <2>2, <2>3
  <2>5. Proxy!Relay(q)
    BY <2>1, <2>3, <2>4 DEF Proxy!Relay
  <2> QED
    BY <2>5 DEF Proxy!Next
<1>4. Why \in [Proxy!Backends -> Reasons]
  BY DEF Why, Run!LossReason, Reasons, Backends, Run!Backends, Proxy!Backends
<1>5. CASE Return
  <2>1. /\ pc = "waiting" /\ result' = Run!ReturnedError
        /\ Proxy!Returned(q, result') /\ Proxy!Reported(q, Tried, Why)
    BY <1>5 DEF Return, Run!WaitAndReturn
  <2>2. /\ Proxy!Serving(q) /\ winner[q] = first.idx /\ (writeErr[q] <=> err = "sink")
    BY <2>1 DEF ServiceInv, LinkInv
  <2>3. result' \in Proxy!Returns(q)
    BY <2>1, <2>2, ReturnedResult DEF Proxy!Returns
  <2>4. /\ started \in 1 .. NB /\ winner[q] \in 0 .. NB /\ started >= winner[q]
        /\ NB \in Nat /\ result' # "noBackends"
    BY <2>1, <2>2, AskedFacts, ReturnedResult
  <2>5. /\ Tried \in Proxy!Attempts /\ Tried # <<>>
        /\ winner[q] = 0 \/ \E i \in DOMAIN Tried : Tried[i] = winner[q]
    <3>1. Tried = AskedUpTo(started) /\ started \in 0 .. NB /\ started # 0
      BY <2>4 DEF Tried, AskedUpTo
    <3>2. winner[q] # 0 => winner[q] \in 1 .. started
      BY <2>4
    <3> QED
      BY <2>4, <3>1, <3>2, AskedInOrder
  <2>6. Proxy!Return(q)
    BY <1>4, <2>1, <2>2, <2>3, <2>4, <2>5 DEF Proxy!Return
  <2> QED
    BY <2>6 DEF Proxy!Next
<1>6. CASE NoneEligible
  <2>1. /\ pc = "start" /\ Proxy!Serving(q) /\ Proxy!Returned(q, "noBackends")
        /\ Proxy!Reported(q, <<>>, Why)
    BY <1>6 DEF NoneEligible
  <2>2. winner[q] = 0
    BY <2>1, NotServing
  <2>3. "noBackends" \in Proxy!Returns(q) /\ <<>> \in Proxy!Attempts
    <3>1. 0 \in 0 .. NB /\ AskedUpTo(0) = <<>>
      BY DEF Run!RunAssumption, AskedUpTo
    <3> QED
      BY <2>2, <3>1, AskedInOrder DEF Proxy!Returns
  <2>4. Proxy!Return(q)
    BY <1>4, <2>1, <2>2, <2>3 DEF Proxy!Return
  <2> QED
    BY <2>4 DEF Proxy!Next
<1>7. CASE HandlerAlone
  BY <1>7 DEF HandlerAlone, Proxy!Next
<1> QED
  BY <1>1, <1>2, <1>3, <1>5, <1>6, <1>7 DEF ServiceNext

\* A request over a real run and real backends is one of HedgeProxy's.
THEOREM ServiceImplementsProxy == ServiceSpec => ImplementsProxy
<1>1. ServiceInit => Proxy!Init
  BY DEF ServiceInit
<1>2. Known /\ ServiceInv /\ [ServiceNext]_serviceVars => [Proxy!Next]_Proxy!vars
  <2>1. UNCHANGED serviceVars => UNCHANGED Proxy!vars
    BY DEF serviceVars, handlerVars, Proxy!vars, Proxy!handler, Proxy!wire,
           Proxy!report, Proxy!metrics
  <2> QED
    BY <2>1, ProxySimulation
<1> QED
  BY <1>1, <1>2, KnownHolds, ServiceInvariance, PTL
  DEF ServiceSpec, ImplementsProxy, Proxy!Spec

-----------------------------------------------------------------------------
(* What the client and the operator are told is true of the upstreams.     *)

\* What a handler answers before there is a run is no answer of a run.
LEMMA OwnCodes ==
    ASSUME NEW c \in Refusals \cup {500, 503}
    PROVE  c \notin {200, 499, 502} /\ <<c>> \notin {<<200>>, <<499>>, <<502>>}
<1>1. Refusals \subseteq {400, 401, 405}
  BY ServiceAssumption DEF Proxy!ProxyAssumption
<1>2. c \notin {200, 499, 502}
  BY <1>1
<1>3. \A d, e : <<d>> = <<e>> => d = e
  OBVIOUS
<1>4. <<c>> # <<200>> /\ <<c>> # <<499>> /\ <<c>> # <<502>>
  BY <1>2, <1>3, ZenonT(30)
<1> QED
  BY <1>2, <1>4

\* A client that stays, over a connection that holds, is sent the whole answer
\* of one upstream when it is sent a 200.
THEOREM AnswersAreWhole == ServiceSpec => []AnswerIsWhole
<1>1. Known /\ ServiceInv => AnswerIsWhole
  <2> SUFFICES ASSUME Known, ServiceInv, phase[q] = "done", status[q] = << 200 >>,
                      ~clientGone, ~writeErr[q]
               PROVE  WholeAnswer /\ (kind[q] = "sse" => Len(body[q]) = 3 * Len(log) + 1)
    BY DEF AnswerIsWhole
  <2>1. pc = "returned" /\ committed[q]
    <3>3. <<499>> # <<200>> /\ <<502>> # <<200>>
      OBVIOUS
    <3>4. ~\E c \in Refusals \cup {500, 503} : status[q] = <<c>>
      BY OwnCodes
    <3>5. status[q] # IF result = "ctx" THEN <<499>> ELSE <<502>>
      BY <3>3
    <3> QED
      BY <3>4, <3>5, Zenon DEF ServiceInv, AnswerInv
  <2>2. first.idx # 0 /\ err # "sink" /\ err # "ctx" /\ result = Run!ReturnedError
    BY <2>1 DEF ServiceInv, LinkInv, ResultInv
  <2>3. err = "nil"
    <3>1. result # "pending" /\ result # "none"
      BY <2>1 DEF Known, P!StreamInv, P!OutcomeInv, P!IndInv, P!TypeOK, P!LoopType
    <3>2. err \in {"none", "nil", "ctx", "sink"}
      BY DEF Known, P!IndInv, P!TypeOK, P!LoopType
    <3>3. err = "none" => Run!ReturnedError = "none"
      BY DEF Run!ReturnedError, Run!winner
    <3> QED
      BY <2>2, <3>1, <3>2, <3>3
  <2>4. result = "ok"
    BY <2>2, <2>3 DEF Run!ReturnedError, Run!winner
  <2>5. WholeAnswer
    BY <2>4 DEF Known, SuccessIsTheAnswer
  <2>6. kind[q] = "sse" => Len(body[q]) = 3 * Len(log) + 1
    BY <2>1 DEF ServiceInv, AnswerInv
  <2> QED
    BY <2>5, <2>6
<1> QED
  BY <1>1, KnownHolds, ServiceInvariance, PTL

\* An error status is true of the client and of the upstreams.
THEOREM ErrorsStayTrue == ServiceSpec => []ErrorsAreTrue
<1>1. Known /\ ServiceInv => ErrorsAreTrue
  <2> SUFFICES ASSUME Known, ServiceInv, phase[q] = "done"
               PROVE  /\ status[q] = <<499>> => clientGone
                      /\ status[q] = <<503>> => \A i \in Backends : state[i] = "unasked"
                      /\ status[q] = <<502>> /\ ~clientGone /\ timeout # "fired" =>
                           \A i \in 1 .. started : state[i] = "refused" \/ Mute(i)
    BY DEF ErrorsAreTrue
  <2>0. \A c, d : <<c>> = <<d>> => c = d
    OBVIOUS
  <2>1. CASE pc = "start" /\ \E c \in Refusals \cup {500, 503} : status[q] = <<c>>
    <3>1. status[q] # <<499>> /\ status[q] # <<502>>
      BY <2>1, OwnCodes
    <3>2. \A i \in Backends : state[i] = "unasked"
      <4>1. started = 0
        BY <2>1, NotServing
      <4>2. \A i \in Backends : ~(i <= 0)
        BY DEF Backends, Run!Backends
      <4> QED
        BY <4>1, <4>2 DEF Known, SystemInv, AskedInv
    <3> QED
      BY <3>1, <3>2
  <2>2. CASE pc = "returned" /\ committed[q] /\ status[q] = <<200>>
    <3>1. <<200>> # <<499>> /\ <<200>> # <<502>> /\ <<200>> # <<503>>
      BY <2>0
    <3> QED
      BY <2>2, <3>1
  <2>3. CASE /\ pc = "returned" /\ ~committed[q]
             /\ status[q] = IF result = "ctx" THEN <<499>> ELSE <<502>>
    <3>1. <<499>> # <<502>> /\ <<499>> # <<503>> /\ <<502>> # <<503>>
      BY <2>0
    <3>2. CASE result = "ctx"
      <4>1. Run!ReturnedError = "ctx"
        BY <2>3, <3>2 DEF ServiceInv, ResultInv
      <4>2. err = "ctx"
        BY <4>1 DEF Run!ReturnedError, Run!winner
      <4> QED
        BY <2>3, <3>1, <3>2, <4>2 DEF ServiceInv, ResultInv
    <3>3. CASE result # "ctx"
      <4>1. result \in {"allFailed", "sink"} /\ winner[q] = first.idx
        BY <2>3, <3>3, NotServing
      <4>2. first.idx = 0
        BY <2>3, <4>1 DEF ServiceInv, LinkInv
      <4>3. result # "sink"
        <5>1. result = "sink" => Run!ReturnedError = "sink"
          BY <2>3 DEF ServiceInv, ResultInv
        <5>2. Run!ReturnedError = "sink" => err = "sink"
          BY DEF Run!ReturnedError, Run!winner
        <5>3. err = "sink" => first.idx # 0
          BY DEF Known, P!StreamInv, P!OutcomeInv, P!winner
        <5> QED
          BY <4>2, <5>1, <5>2, <5>3
      <4> QED
        BY <2>3, <3>1, <3>3, <4>1, <4>3 DEF Known, AllFailedIsTrueOfUpstreams
    <3> QED
      BY <3>2, <3>3
  <2> QED
    BY <2>1, <2>2, <2>3 DEF ServiceInv, AnswerInv
<1> QED
  BY <1>1, KnownHolds, ServiceInvariance, PTL

\* What is counted for or against a backend is true of its upstream.
THEOREM CountsStayTrue == ServiceSpec => []CountsAreTrue
<1>1. Known /\ ServiceInv => CountsAreTrue
  <2> SUFFICES ASSUME Known, ServiceInv, NEW i \in Backends
               PROVE  /\ Proxy!LossOf(i, "error") \in added[q] => state[i] = "refused"
                      /\ Proxy!WinOf(i) \in added[q] =>
                           i = first.idx /\ want[i][first.chunk] \in Contentful
                      /\ Proxy!LossOf(i, "no_usable_token") \in added[q] /\ ~clientGone
                           => Mute(i)
    BY DEF CountsAreTrue
  <2>0. i \in 1 .. NB
    BY DEF Backends, Run!Backends
  <2>1. \A l \in added[q] : Deserved(l)
    BY DEF ServiceInv, ReportInv
  <2>2. ASSUME NEW x \in {"error", "no_usable_token"}, Proxy!LossOf(i, x) \in added[q]
        PROVE  Run!LossReason(i) = x
    BY <2>1, <2>2 DEF Deserved, Proxy!LossOf, Proxy!WinOf
  <2>3. Proxy!WinOf(i) \in added[q] => i = first.idx
    <3>1. \A j : Run!LossReason(j) # "win"
      BY DEF Run!LossReason
    <3> QED
      BY <2>1, <3>1 DEF Deserved, Proxy!LossOf, Proxy!WinOf
  <2>4. Run!LossReason(i) = "error" => i \in failed
    BY DEF Run!LossReason
  <2>5. Run!LossReason(i) = "no_usable_token" => i \in closed \ failed
    BY DEF Run!LossReason
  <2>6. i \in failed <=> state[i] = "refused"
    BY DEF ServiceInv, RefusedInv
  <2>7. sent[i] \in Nat /\ Len(ScriptOf(i)) = sent[i]
    <3>1. sent[i] \in Nat
      BY DEF Known, SystemInv, BackendInv
    <3>2. ScriptOf(i) \in [1 .. sent[i] -> BOOLEAN]
      BY DEF ScriptOf
    <3> QED
      BY <3>1, <3>2, FunctionIsSeq
  <2>8. i \in closed \ failed /\ ~clientGone => Mute(i)
    <3> SUFFICES ASSUME i \in closed, i \notin failed, ~clientGone PROVE Mute(i)
      OBVIOUS
    <3>1. i \in endedAlone
      BY DEF Known, P!StreamInv, P!BlameInv
    <3>2. sent[i] = Len(want[i])
      BY <2>6, <3>1 DEF Known, SystemInv, SaidInv
    <3>3. \A k \in 1 .. sent[i] : ~ScriptOf(i)[k]
      BY <2>0, <2>7 DEF Known, P!StreamInv, P!HeardInv, P!Silent
    <3> QED
      BY <3>2, <3>3 DEF ScriptOf, Mute
  <2>9. i = first.idx => want[i][first.chunk] \in Contentful
    <3> SUFFICES ASSUME i = first.idx PROVE want[i][first.chunk] \in Contentful
      OBVIOUS
    <3>1. first.idx # 0
      BY <2>0
    <3>2. ScriptOf(i)[first.chunk]
      BY <2>0, <3>1 DEF Known, P!UncutInv, P!Usable, P!winner
    <3>3. first.chunk \in 1 .. sent[i]
      BY <2>0, <2>7, <3>1 DEF Known, P!StreamInv, P!RelayInv, P!winner
    <3> QED
      BY <3>2, <3>3 DEF ScriptOf
  <2> QED
    BY <2>2, <2>3, <2>4, <2>5, <2>6, <2>8, <2>9
<1> QED
  BY <1>1, KnownHolds, ServiceInvariance, PTL
=============================================================================
