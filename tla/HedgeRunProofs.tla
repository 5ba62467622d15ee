--------------------------- MODULE HedgeRunProofs ---------------------------
(***************************************************************************)
(* Machine-checked proofs about HedgeRun, for every number of backends,    *)
(* every cost and every set of policies.                                   *)
(***************************************************************************)
EXTENDS HedgeRun, HedgeSums

USE RunAssumption

-----------------------------------------------------------------------------
(* The inductive invariant, by concern.                                    *)

Decided == {"committing", "relaying", "unwinding", "waiting", "returned"}

\* How the program counter, the number of attempts and the winner go together.
PhaseInv ==
    /\ pc = "start" <=> started = 0
    /\ pc = "dialing" => started \notin failed
    /\ winner # 0 => pc \in Decided
    /\ pc \in {"committing", "relaying"} => winner # 0
    /\ winner = 0 \/ pc = "committing" => log = <<>>
    /\ pc \in {"unwinding", "waiting"} => err # "none"

\* Who has been cancelled once there is a winner.
CancelInv == winner # 0 => Lost \subseteq cancelled

\* A forwarder past its channel's close has seen its producer end.
TearInv ==
    /\ \A i \in Backends : fwd[i] \in {"closing", "done"} => prod[i] = "closed"
    /\ pc = "returned" => AllTornDown

BookInv == InFlightConserved /\ InFlightCapped
CostInv == CostConserved /\ CostCapped

\* The initial state is well typed.
LEMMA InitType == Init => TypeOK
<1> SUFFICES ASSUME Init PROVE TypeOK
  OBVIOUS
<1>1. LoopType
  BY DEF Init, LoopType
<1>2. BookType
  BY DEF Init, BookType, Started
<1>3. ContextType
  BY DEF Init, ContextType
<1>4. PipeType
  BY DEF Init, PipeType
<1> QED
  BY <1>1, <1>2, <1>3, <1>4 DEF TypeOK

\* What is received is an event, and leaves a queue of events.
LEMMA ReceiveType ==
    ASSUME events \in Seq(Event), Receive
    PROVE  /\ Head(events) \in Event /\ Head(events).idx \in Backends
           /\ events' \in Seq(Event)
<1>1. Head(events) \in Event /\ events' \in Seq(Event)
  BY DEF Receive
<1> QED
  BY <1>1 DEF Event

\* A reservation keeps the types of the book.
LEMMA ReserveType ==
    ASSUME TypeOK, HasMore, Reserve
    PROVE  /\ pc' = "dialing" /\ started' \in 0 .. NB
           /\ failed' \subseteq Started' /\ reserved' \in Int /\ inFlight' \in Nat
BY DEF TypeOK, BookType, HasMore, Reserve, Started

\* Every step keeps the types: one case per action.
LEMMA TypeStep ==
    ASSUME TypeOK, PhaseInv, Next
    PROVE  TypeOK'
<1>0. /\ pc = "start" <=> started = 0
      /\ pc \in {"committing", "relaying"} => winner # 0
      /\ pc = "waiting" => err # "none"
  BY DEF PhaseInv
<1>r. Reserve /\ HasMore =>
        /\ pc' = "dialing" /\ started' \in 0 .. NB
        /\ failed' \subseteq Started' /\ reserved' \in Int /\ inFlight' \in Nat
  BY ReserveType
<1>e. Receive => /\ Head(events) \in Event /\ Head(events).idx \in Backends
                 /\ events' \in Seq(Event)
  BY ReceiveType DEF TypeOK, PipeType
<1> HIDE DEF PhaseInv
<1> USE DEF TypeOK, LoopType, BookType, ContextType, PipeType, Started, bookVars,
            sinkVars, timerVars, ctxVars, fwdVars, streamVars
<1>1. CASE StartPrimary
  BY <1>1, <1>0 DEF StartPrimary, Reserve
<1>2. CASE DialOk
  BY <1>2, <1>0 DEF DialOk, EnterLoop, ArmFire, TimeoutOnEntry, Backends
<1>3. CASE DialErr
  <2>1. started \in Backends
    BY <1>3, <1>0 DEF DialErr, Backends
  <2>2. LoopType'
    BY <1>3 DEF DialErr, EnterLoop
  <2>3. BookType'
    <3>1. started \in Started /\ started' = started
      BY <1>3, <2>1 DEF DialErr, Backends
    <3>2. failed' \subseteq Started' /\ closed' \subseteq Backends
      BY <1>3, <2>1, <3>1 DEF DialErr
    <3>3. reserved' \in Int /\ inFlight' \in Nat
      BY <1>3 DEF DialErr, Clamp
    <3> QED
      BY <3>1, <3>2, <3>3
  <2>4. ContextType'
    BY <1>3, <2>1 DEF DialErr, EnterLoop, ArmFire, TimeoutOnEntry
  <2>5. PipeType'
    BY <1>3, <2>1 DEF DialErr
  <2> QED
    BY <2>2, <2>3, <2>4, <2>5
<1>4. CASE RaceNoPath
  BY <1>4 DEF RaceNoPath, Leave
<1>5. CASE RaceCtxDone
  BY <1>5 DEF RaceCtxDone, Select, Leave
<1>6. CASE RaceTimeout
  BY <1>6 DEF RaceTimeout, Select, Leave
<1>7. CASE RaceFire
  <2>1. CASE CanStartAnother /\ Reserve /\ fireTimer' = "stopped"
    BY <1>7, <1>r, <2>1, SMTT(30) DEF RaceFire, CanStartAnother
  <2>2. CASE ~CanStartAnother
    BY <1>7, <2>2, ZenonT(30) DEF RaceFire, Select, ArmFire
  <2> QED
    BY <1>7, <2>1, <2>2 DEF RaceFire
<1>8. CASE RaceClose
  <2>1. closed' \subseteq Backends /\ events' \in Seq(Event) /\ pc = "racing"
    BY <1>8, <1>e DEF RaceClose, Select
  <2>2. CASE CanStartAnother /\ Reserve /\ UNCHANGED fireTimer
    <3>1. BookType' /\ pc' = "dialing"
      BY <1>r, <2>1, <2>2 DEF CanStartAnother
    <3> QED
      BY <1>8, <2>1, <2>2, <3>1, SMTT(30) DEF RaceClose
  <2>3. CASE ~CanStartAnother
    <3>1. /\ UNCHANGED <<pc, started, failed, reserved, inFlight>>
          /\ fireTimer' \in {"stopped", "running", "due"}
      BY <1>8, <2>3 DEF RaceClose, ArmFire
    <3> QED
      BY <1>8, <2>1, <3>1 DEF RaceClose
  <2> QED
    BY <1>8, <2>2, <2>3 DEF RaceClose
<1>9. CASE RaceDiscard
  BY <1>9, <1>e, SMTT(30) DEF RaceDiscard, Select, Leave
<1>10. CASE RaceWin
  <2>1. Started \subseteq Backends
    BY DEF Backends
  <2>2. cancelled' \subseteq Backends
    BY <1>10, <2>1 DEF RaceWin, Losers
  <2> QED
    BY <1>10, <1>e, <2>2 DEF RaceWin
<1>11. CASE CommitOk
  BY <1>11, <1>0 DEF CommitOk, winner, NoEvent
<1>12. CASE CommitErr
  BY <1>12 DEF CommitErr, Leave
<1>13. CASE RelayCtxDone
  BY <1>13 DEF RelayCtxDone, Leave
<1>14. CASE RelayDiscard
  BY <1>14, <1>e, SMTT(30) DEF RelayDiscard, Select, Leave
<1>15. CASE RelayEnd
  BY <1>15, <1>e DEF RelayEnd, Select, Leave
<1>16. CASE RelayChunk
  <2>1. Append(log, Head(events)) \in Seq(Event)
    BY <1>16, <1>e DEF RelayChunk
  <2>2. /\ pc' \in {"relaying", "unwinding"} /\ err' \in {"none", "nil", "ctx", "sink"}
        /\ log' \in {log, Append(log, Head(events))}
    BY <1>16 DEF RelayChunk, Leave
  <2> QED
    BY <1>16, <1>e, <2>1, <2>2, ZenonT(30) DEF RelayChunk
<1>17. CASE CancelAll
  BY <1>17 DEF CancelAll
<1>18. CASE WaitAndReturn
  <2>1. result' \in {"pending", "ok", "allFailed", "ctx", "sink"}
    BY <1>18, <1>0 DEF WaitAndReturn, ReturnedError
  <2>2. inFlight' \in Nat
    BY <1>18 DEF WaitAndReturn, Clamp
  <2> QED
    BY <1>18, <2>1, <2>2 DEF WaitAndReturn
<1>19. ASSUME NEW i \in Backends, FwdTake(i) PROVE TypeOK'
  BY <1>19, SMTT(30) DEF FwdTake
<1>20. ASSUME NEW i \in Backends, FwdSend(i) PROVE TypeOK'
  <2>1. [idx |-> i, chunk |-> hand[i]] \in Event
    BY DEF Event
  <2>2. events' \in Seq(Event)
    BY <1>20, <2>1 DEF FwdSend
  <2> QED
    BY <1>20, <2>2, SMTT(30) DEF FwdSend
<1>21. ASSUME NEW i \in Backends, FwdSeeClose(i) PROVE TypeOK'
  BY <1>21, SMTT(30) DEF FwdSeeClose
<1>22. ASSUME NEW i \in Backends, FwdSendClose(i) PROVE TypeOK'
  <2>1. [idx |-> i, chunk |-> 0] \in Event
    BY DEF Event
  <2>2. events' \in Seq(Event)
    BY <1>22, <2>1 DEF FwdSendClose
  <2> QED
    BY <1>22, <2>2, SMTT(30) DEF FwdSendClose
<1>23. ASSUME NEW i \in Backends, FwdCloseSkip(i) PROVE TypeOK'
  BY <1>23, SMTT(30) DEF FwdCloseSkip
<1>24. ASSUME NEW i \in Backends, FwdCancelled(i) PROVE TypeOK'
  BY <1>24, SMTT(30) DEF FwdCancelled
<1>25. ASSUME NEW i \in Backends, FwdDrain(i) PROVE TypeOK'
  BY <1>25, SMTT(30) DEF FwdDrain
<1>26. ASSUME NEW i \in Backends, FwdDrained(i) PROVE TypeOK'
  BY <1>26, SMTT(30) DEF FwdDrained
<1>27. ASSUME NEW i \in Backends, Produce(i) PROVE TypeOK'
  BY <1>27, SMTT(30) DEF Produce
<1>28. ASSUME NEW i \in Backends, ProducerEnd(i) PROVE TypeOK'
  BY <1>28 DEF ProducerEnd
<1>29. CASE FireTick
  BY <1>29 DEF FireTick
<1>30. CASE TimeoutTick
  BY <1>30 DEF TimeoutTick
<1>31. CASE ClientCancel
  BY <1>31 DEF ClientCancel
<1>32. CASE Terminated
  BY <1>32 DEF Terminated, vars
<1> HIDE DEF TypeOK
<1> QED
  BY <1>1, <1>2, <1>3, <1>4, <1>5, <1>6, <1>7, <1>8, <1>9, <1>10,
     <1>11, <1>12, <1>13, <1>14, <1>15, <1>16, <1>17, <1>18, <1>19,
     <1>20, <1>21, <1>22, <1>23, <1>24, <1>25, <1>26, <1>27, <1>28,
     <1>29, <1>30, <1>31, <1>32
  DEF Next, Dialing, Racing, Relaying, Unwinding, Forwarder, Producer,
      Environment

-----------------------------------------------------------------------------
(* What the goroutines beside the race loop, and the environment, leave    *)
(* alone.                                                                  *)

\* Forwarders and producers touch neither the loop's variables nor the book.
LEMMA BackgroundFrame ==
    ASSUME NEW i \in Backends, Forwarder(i) \/ Producer(i)
    PROVE  UNCHANGED <<pol, pc, bookVars, sinkVars, timerVars, ctxVars>>
BY DEF Forwarder, Producer, FwdTake, FwdSend, FwdSeeClose, FwdSendClose,
       FwdCloseSkip, FwdCancelled, FwdDrain, FwdDrained, Produce, ProducerEnd

\* The clock and the client touch the timers and the context alone.
LEMMA EnvironmentFrame ==
    ASSUME Environment
    PROVE  UNCHANGED <<pol, pc, bookVars, sinkVars, cancelled, fwdVars,
                       streamVars>>
BY DEF Environment, FireTick, TimeoutTick, ClientCancel, ctxVars

\* Steps of the loop that only take an event off the queue.
LEMMA DiscardFrame ==
    ASSUME RaceDiscard \/ RelayDiscard
    PROVE  UNCHANGED <<pol, pc, bookVars, sinkVars, timerVars, ctxVars, fwd,
                       streamVars>>
BY DEF RaceDiscard, RelayDiscard

\* Every step keeps the phases, the attempts and the winner in agreement.
LEMMA PhaseStep ==
    ASSUME TypeOK, PhaseInv, Next
    PROVE  PhaseInv'
<1> USE DEF PhaseInv, Decided, winner, bookVars, sinkVars
<1>t. /\ started \in 0 .. NB /\ failed \subseteq 1 .. started
      /\ \A ev \in Event : ev.idx # 0
  BY DEF TypeOK, BookType, Started, Event, Backends
<1>1. CASE UNCHANGED <<pc, started, failed, first, log, err>>
  BY <1>1
<1>2. CASE StartPrimary
  BY <1>2, <1>t DEF StartPrimary, Reserve
<1>3. CASE DialOk
  BY <1>3, <1>t DEF DialOk, EnterLoop
<1>4. CASE DialErr
  BY <1>4, <1>t DEF DialErr, EnterLoop
<1>5. CASE RaceNoPath \/ RaceCtxDone \/ RaceTimeout
  BY <1>5 DEF RaceNoPath, RaceCtxDone, RaceTimeout, Select, Leave
<1>6. CASE RaceFire \/ RaceClose
  <2>1. pc = "racing" /\ UNCHANGED <<first, log, err>>
    BY <1>6 DEF RaceFire, RaceClose, Select
  <2>2. CASE Reserve
    BY <2>1, <2>2, <1>t DEF Reserve
  <2>3. CASE UNCHANGED <<pc, started, failed>>
    BY <2>1, <2>3
  <2> QED
    BY <1>6, <2>2, <2>3 DEF RaceFire, RaceClose
<1>7. CASE RaceWin
  <2>1. first' \in Event /\ pc = "racing" /\ pc' = "committing"
    BY <1>7, ReceiveType DEF RaceWin, Select, TypeOK, PipeType
  <2>2. started # 0 /\ UNCHANGED <<started, failed, log, err>> /\ winner' # 0
    BY <1>7, <2>1, <1>t DEF RaceWin
  <2>3. log = <<>>
    BY <2>1
  <2> QED
    BY <2>1, <2>2, <2>3
<1>8. CASE CommitOk \/ CommitErr
  BY <1>8 DEF CommitOk, CommitErr, Leave
<1>9. CASE RelayCtxDone \/ RelayEnd \/ RelayChunk
  BY <1>9 DEF RelayCtxDone, RelayEnd, RelayChunk, Leave
<1>10. CASE CancelAll \/ WaitAndReturn
  BY <1>10 DEF CancelAll, WaitAndReturn
<1> HIDE DEF PhaseInv
<1>11. CASE RaceDiscard \/ RelayDiscard
  BY <1>1, <1>11, DiscardFrame
<1>12. CASE Environment \/ Terminated
  BY <1>1, <1>12, EnvironmentFrame DEF Terminated, vars
<1>13. CASE \E i \in Backends : Forwarder(i) \/ Producer(i)
  BY <1>1, <1>13, BackgroundFrame
<1> QED
  BY <1>2, <1>3, <1>4, <1>5, <1>6, <1>7, <1>8, <1>9, <1>10, <1>11, <1>12, <1>13
  DEF Next, Dialing, Racing, Relaying, Unwinding

-----------------------------------------------------------------------------
(* The reservation book.                                                   *)

\* The effective cap is at least one: the primary may always run.
LEMMA EffectivePositive ==
    ASSUME TypeOK
    PROVE  EffectiveMaxInFlight(pol) \in Nat /\ EffectiveMaxInFlight(pol) >= 1
BY DEF TypeOK, LoopType, EffectiveMaxInFlight

\* The held backends are finitely many, and their number is a natural.
LEMMA HeldFinite ==
    ASSUME TypeOK
    PROVE  IsFiniteSet(Held) /\ RunningCount \in Nat
<1>1. started \in Int /\ Held \subseteq 1 .. started
  BY DEF TypeOK, BookType, Held, Started
<1>2. IsFiniteSet(1 .. started)
  BY <1>1, FS_Interval
<1>3. IsFiniteSet(Held)
  BY <1>1, <1>2, FS_Subset
<1> QED
  BY <1>3, FS_CardinalityType DEF RunningCount

\* A reservation adds one backend to those held, and one to the book.
LEMMA ReserveBook ==
    ASSUME TypeOK, BookInv, Reserve, RunningCount < EffectiveMaxInFlight(pol),
           UNCHANGED pol, pc # "returned"
    PROVE  BookInv'
<1>1. Held' = Held \cup {started + 1} /\ started + 1 \notin Held
  BY DEF TypeOK, BookType, Reserve, Held, Started
<1>2. RunningCount' = RunningCount + 1
  BY <1>1, HeldFinite, FS_AddElement DEF RunningCount
<1>3. EffectiveMaxInFlight(pol)' = EffectiveMaxInFlight(pol)
  BY DEF EffectiveMaxInFlight
<1> QED
  BY <1>2, <1>3, HeldFinite, EffectivePositive
  DEF BookInv, InFlightConserved, InFlightCapped, Reserve

\* A failed dial takes its backend out of the held ones, and out of the book.
LEMMA RollbackBook ==
    ASSUME TypeOK, PhaseInv, BookInv, DialErr
    PROVE  BookInv' /\ RunningCount' = Cardinality(Held \ {started})
<1>1. Held' = Held \ {started} /\ started \in Held
  BY DEF TypeOK, BookType, PhaseInv, DialErr, Held, Started
<1>2. RunningCount' = RunningCount - 1 /\ RunningCount \in Nat /\ RunningCount' \in Nat
  <2>1. RunningCount' = RunningCount - 1
    BY <1>1, HeldFinite, FS_RemoveElement DEF RunningCount
  <2>2. IsFiniteSet(Held \ {started})
    BY HeldFinite, FS_Subset
  <2> QED
    BY <1>1, <2>1, <2>2, HeldFinite, FS_CardinalityType DEF RunningCount
<1>3. EffectiveMaxInFlight(pol)' = EffectiveMaxInFlight(pol) /\ pc' = "racing"
  BY DEF EffectiveMaxInFlight, DialErr, EnterLoop
<1>4. inFlight = RunningCount /\ reserved = RunningCount
  BY DEF DialErr, BookInv, InFlightConserved
<1>5. inFlight' = RunningCount' /\ reserved' = RunningCount'
  BY <1>2, <1>4 DEF DialErr, Clamp
<1>6. RunningCount <= EffectiveMaxInFlight(pol)
  BY DEF BookInv, InFlightCapped
<1> QED
  BY <1>1, <1>2, <1>3, <1>5, <1>6, EffectivePositive
  DEF BookInv, InFlightConserved, InFlightCapped, RunningCount

\* A step that starts and fails nothing leaves the book right.
LEMMA BookFrame ==
    ASSUME BookInv, UNCHANGED <<pol, started, failed, reserved, inFlight>>,
           pc' = "returned" <=> pc = "returned"
    PROVE  BookInv'
BY DEF BookInv, InFlightConserved, InFlightCapped, RunningCount, Held, Started,
       EffectiveMaxInFlight

\* Every step keeps the book and the cap.
LEMMA BookStep ==
    ASSUME TypeOK, PhaseInv, BookInv, Next
    PROVE  BookInv'
<1> USE DEF bookVars
<1>1. CASE StartPrimary
  <2>1. RunningCount = 0
    <3>1. Held = {}
      BY <1>1 DEF StartPrimary, PhaseInv, Held, Started
    <3> QED
      BY <3>1, FS_EmptySet DEF RunningCount
  <2> QED
    BY <1>1, <2>1, ReserveBook, EffectivePositive DEF StartPrimary
<1>2. CASE DialOk
  BY <1>2, BookFrame DEF DialOk, EnterLoop
<1>3. CASE DialErr
  BY <1>3, RollbackBook
<1>4. CASE RaceFire \/ RaceClose
  <2>1. pc = "racing" /\ UNCHANGED pol /\ started # 0
    BY <1>4 DEF RaceFire, RaceClose, Select, PhaseInv
  <2>2. CASE CanStartAnother /\ Reserve
    <3>1. RunningCount < EffectiveMaxInFlight(pol)
      BY <2>1, <2>2, EffectivePositive, HeldFinite
      DEF CanStartAnother, AllowStart, TypeOK, BookType
    <3> QED
      BY <2>1, <2>2, <3>1, ReserveBook
  <2>3. CASE UNCHANGED <<pc, started, failed, reserved, inFlight>>
    BY <2>1, <2>3, BookFrame
  <2> QED
    BY <1>4, <2>2, <2>3 DEF RaceFire, RaceClose
<1>5. CASE RaceNoPath \/ RaceCtxDone \/ RaceTimeout \/ RaceWin
  BY <1>5, BookFrame
  DEF RaceNoPath, RaceCtxDone, RaceTimeout, RaceWin, Select, Leave
<1>6. CASE CommitOk \/ CommitErr \/ RelayCtxDone \/ RelayEnd \/ RelayChunk
  BY <1>6, BookFrame
  DEF CommitOk, CommitErr, RelayCtxDone, RelayEnd, RelayChunk, Leave
<1>7. CASE CancelAll
  BY <1>7, BookFrame DEF CancelAll
<1>8. CASE WaitAndReturn
  <2>1. /\ RunningCount' = RunningCount /\ reserved' = reserved
        /\ EffectiveMaxInFlight(pol)' = EffectiveMaxInFlight(pol)
    BY <1>8 DEF WaitAndReturn, RunningCount, Held, Started, EffectiveMaxInFlight
  <2>2. inFlight' = 0 /\ pc' = "returned"
    BY <1>8, HeldFinite DEF WaitAndReturn, BookInv, InFlightConserved, Clamp
  <2> QED
    BY <2>1, <2>2 DEF BookInv, InFlightConserved, InFlightCapped
<1>9. CASE RaceDiscard \/ RelayDiscard
  BY <1>9, BookFrame, DiscardFrame
<1>10. CASE Environment \/ Terminated
  BY <1>10, BookFrame, EnvironmentFrame DEF Terminated, vars
<1>11. CASE \E i \in Backends : Forwarder(i) \/ Producer(i)
  BY <1>11, BookFrame, BackgroundFrame
<1> QED
  BY <1>1, <1>2, <1>3, <1>4, <1>5, <1>6, <1>7, <1>8, <1>9, <1>10, <1>11
  DEF Next, Dialing, Racing, Relaying, Unwinding

-----------------------------------------------------------------------------
(* The committed cost.                                                     *)

\* The committed cost of the held backends, as a sum over them.
LEMMA CostIsSum ==
    /\ CommittedCostDelta = SumOf(Cost, Held)
    /\ CommittedCostDelta' = SumOf(Cost, Held')
BY DEF CommittedCostDelta, SumOf, MapThenSumSet, MapThenFoldSet

\* Each held backend has a cost, and together they have one.
LEMMA HeldCosts ==
    ASSUME TypeOK
    PROVE  /\ \A i \in Held : Cost[i] \in Nat
           /\ SumOf(Cost, Held) \in Nat
<1>1. \A i \in Held : Cost[i] \in Nat
  BY DEF TypeOK, BookType, Held, Started
<1> QED
  BY <1>1, HeldFinite, SumNat

\* A step that starts and fails nothing leaves the costs right.
LEMMA CostFrame ==
    ASSUME CostInv, UNCHANGED <<pol, started, failed, committedCost>>,
           pc' = "returned" <=> pc = "returned"
    PROVE  CostInv'
<1>1. Held' = Held
  BY DEF Held, Started
<1>2. CommittedCostDelta' = CommittedCostDelta
  BY <1>1, CostIsSum
<1> QED
  BY <1>1, <1>2 DEF CostInv, CostConserved, CostCapped

\* A reservation commits its backend's cost, within the ceiling.
LEMMA ReserveCost ==
    ASSUME TypeOK, CostInv, HasMore, Reserve, UNCHANGED pol, pc # "returned",
           started = 0 \/ CostAllows(pol, CommittedCostDelta, Cost[started + 1])
    PROVE  CostInv'
<1> DEFINE n == started + 1
<1>1. Held' = Held \cup {n} /\ n \notin Held /\ Cost[n] \in Nat
  BY DEF TypeOK, BookType, HasMore, Reserve, Held, Started
<1>2. CommittedCostDelta' = CommittedCostDelta + Cost[n] /\ CommittedCostDelta \in Nat
  <2>1. SumOf(Cost, Held \cup {n}) = Cost[n] + SumOf(Cost, Held)
    <3>1. \A i \in Held \cup {n} : Cost[i] \in Int
      BY <1>1, HeldCosts
    <3> HIDE DEF n
    <3> QED
      BY <1>1, <3>1, HeldFinite, SumAdd
  <2> QED
    BY <1>1, <2>1, CostIsSum, HeldCosts
<1>3. committedCost' = CommittedCostDelta' /\ pc' # "returned"
  BY <1>2 DEF CostInv, CostConserved, Reserve
<1>4. CASE started = 0
  <2>1. Held' \subseteq {1}
    BY <1>1, <1>4 DEF Held, Started
  <2> QED
    BY <1>3, <2>1 DEF CostInv, CostConserved, CostCapped
<1>5. CASE CostAllows(pol, CommittedCostDelta, Cost[n])
  BY <1>2, <1>3, <1>5 DEF CostAllows, CostInv, CostConserved, CostCapped
<1> QED
  BY <1>4, <1>5

\* A failed dial gives its backend's cost back, once.
LEMMA RollbackCost ==
    ASSUME TypeOK, PhaseInv, CostInv, DialErr
    PROVE  CostInv'
<1>1. /\ Held' = Held \ {started} /\ started \in Held
      /\ UNCHANGED pol /\ pc = "dialing" /\ pc' = "racing"
      /\ committedCost' = Clamp(committedCost - Cost[started])
  BY DEF TypeOK, BookType, PhaseInv, DialErr, EnterLoop, Held, Started
<1>2. /\ CommittedCostDelta = Cost[started] + CommittedCostDelta'
      /\ CommittedCostDelta \in Nat /\ CommittedCostDelta' \in Nat
      /\ Cost[started] \in Nat
  <2>1. SumOf(Cost, Held) = Cost[started] + SumOf(Cost, Held \ {started})
    BY <1>1, HeldFinite, HeldCosts, SumSplit
  <2>2. IsFiniteSet(Held \ {started})
    BY HeldFinite, FS_Subset
  <2>3. SumOf(Cost, Held \ {started}) \in Nat
    BY <2>2, HeldCosts, SumNat
  <2> QED
    BY <1>1, <2>1, <2>3, CostIsSum, HeldCosts
<1>3. committedCost' = CommittedCostDelta'
  BY <1>1, <1>2 DEF CostInv, CostConserved, Clamp
<1>4. pol.costCeiling \in Nat
  BY DEF TypeOK, LoopType
<1>5. pol.costCeiling > 0 => CommittedCostDelta' <= pol.costCeiling \/ Held' \subseteq {1}
  BY <1>1, <1>2, <1>4 DEF CostInv, CostCapped
<1> QED
  BY <1>1, <1>3, <1>5 DEF CostInv, CostConserved, CostCapped

\* Every step keeps the committed cost exact and under the ceiling.
LEMMA CostStep ==
    ASSUME TypeOK, PhaseInv, CostInv, Next
    PROVE  CostInv'
<1> USE DEF bookVars
<1>1. CASE StartPrimary
  BY <1>1, ReserveCost DEF StartPrimary, PhaseInv, HasMore
<1>2. CASE DialOk
  BY <1>2, CostFrame DEF DialOk, EnterLoop
<1>3. CASE DialErr
  BY <1>3, RollbackCost
<1>4. CASE RaceFire \/ RaceClose
  <2>1. pc = "racing" /\ UNCHANGED pol /\ started # 0 /\ started \in Nat
    BY <1>4 DEF RaceFire, RaceClose, Select, PhaseInv, TypeOK, BookType
  <2>2. CASE CanStartAnother /\ Reserve
    BY <2>1, <2>2, ReserveCost DEF CanStartAnother, AllowStart
  <2>3. CASE UNCHANGED <<pc, started, failed, committedCost>>
    BY <2>1, <2>3, CostFrame
  <2> QED
    BY <1>4, <2>2, <2>3 DEF RaceFire, RaceClose
<1>5. CASE RaceNoPath \/ RaceCtxDone \/ RaceTimeout \/ RaceWin
  BY <1>5, CostFrame
  DEF RaceNoPath, RaceCtxDone, RaceTimeout, RaceWin, Select, Leave
<1>6. CASE CommitOk \/ CommitErr \/ RelayCtxDone \/ RelayEnd \/ RelayChunk
  BY <1>6, CostFrame
  DEF CommitOk, CommitErr, RelayCtxDone, RelayEnd, RelayChunk, Leave
<1>7. CASE CancelAll
  BY <1>7, CostFrame DEF CancelAll
<1>8. CASE WaitAndReturn
  <2>1. Held' = Held /\ UNCHANGED pol
    BY <1>8 DEF WaitAndReturn, Held, Started
  <2>2. committedCost' = 0 /\ pc' = "returned"
    BY <1>8, CostIsSum, HeldCosts DEF WaitAndReturn, CostInv, CostConserved, Clamp
  <2>3. CommittedCostDelta' = CommittedCostDelta
    BY <2>1, CostIsSum
  <2> QED
    BY <2>1, <2>2, <2>3 DEF CostInv, CostConserved, CostCapped
<1>9. CASE RaceDiscard \/ RelayDiscard
  BY <1>9, CostFrame, DiscardFrame
<1>10. CASE Environment \/ Terminated
  BY <1>10, CostFrame, EnvironmentFrame DEF Terminated, vars
<1>11. CASE \E i \in Backends : Forwarder(i) \/ Producer(i)
  BY <1>11, CostFrame, BackgroundFrame
<1> QED
  BY <1>1, <1>2, <1>3, <1>4, <1>5, <1>6, <1>7, <1>8, <1>9, <1>10, <1>11
  DEF Next, Dialing, Racing, Relaying, Unwinding

-----------------------------------------------------------------------------
(* Tear-down.                                                              *)

\* Every step keeps: gone forwarders had their producers end before them.
LEMMA TearStep ==
    ASSUME TypeOK, PhaseInv, TearInv, Next
    PROVE  TearInv'
<1> USE DEF bookVars, fwdVars, streamVars
<1>t. /\ fwd \in [Backends -> {"off", "idle", "holding", "closing", "draining",
                              "done"}]
      /\ prod \in [Backends -> {"off", "running", "closed"}]
      /\ ch \in [Backends -> 0 .. MaxChunks]
      /\ Started \subseteq Backends
      /\ pc = "dialing" => started \in Backends
  BY SMTT(30) DEF TypeOK, PipeType, BookType, PhaseInv, Started, Backends
<1>1. ASSUME UNCHANGED <<fwd, prod, started>>, pc' = "returned" => pc = "returned"
      PROVE  TearInv'
  BY <1>1 DEF TearInv, AllTornDown, Started
<1>2. CASE RaceFire \/ RaceClose \/ StartPrimary
  <2>1. pc' # "returned" /\ UNCHANGED <<fwd, prod>>
    BY <1>2 DEF RaceFire, RaceClose, StartPrimary, Select, Reserve
  <2> QED
    BY <2>1 DEF TearInv
<1>3. CASE DialOk \/ DialErr
  BY <1>3, <1>t DEF DialOk, DialErr, EnterLoop, TearInv
<1>4. CASE WaitAndReturn
  BY <1>4 DEF WaitAndReturn, TearInv, AllTornDown, Started
<1>5. CASE RaceNoPath \/ RaceCtxDone \/ RaceTimeout \/ RaceWin
  BY <1>1, <1>5 DEF RaceNoPath, RaceCtxDone, RaceTimeout, RaceWin, Select, Leave
<1>6. CASE CommitOk \/ CommitErr \/ RelayCtxDone \/ RelayEnd \/ RelayChunk
  BY <1>1, <1>6
  DEF CommitOk, CommitErr, RelayCtxDone, RelayEnd, RelayChunk, Leave
<1>7. CASE CancelAll
  BY <1>1, <1>7 DEF CancelAll
<1>8. CASE RaceDiscard \/ RelayDiscard
  BY <1>1, <1>8, DiscardFrame
<1>9. CASE Environment \/ Terminated
  BY <1>1, <1>9, EnvironmentFrame DEF Terminated, vars
<1>10. ASSUME NEW i \in Backends, Forwarder(i) \/ Producer(i)
       PROVE  TearInv'
  <2>1. UNCHANGED <<pc, started>>
    BY <1>10, BackgroundFrame
  <2>2. ASSUME NEW j \in Backends, fwd'[j] \in {"closing", "done"}
        PROVE  prod'[j] = "closed"
    <3>1. CASE Producer(i)
      BY <1>t, <2>2, <3>1 DEF Producer, Produce, ProducerEnd, TearInv
    <3>2. CASE FwdTake(i) \/ FwdSend(i) \/ FwdCancelled(i) \/ FwdDrain(i)
      BY <1>t, <2>2, <3>2 DEF FwdTake, FwdSend, FwdCancelled, FwdDrain, TearInv
    <3>3. CASE FwdSeeClose(i) \/ FwdSendClose(i) \/ FwdCloseSkip(i) \/ FwdDrained(i)
      BY <1>t, <2>2, <3>3
      DEF FwdSeeClose, FwdSendClose, FwdCloseSkip, FwdDrained, TearInv
    <3> QED
      BY <1>10, <3>1, <3>2, <3>3 DEF Forwarder
  <2>3. ASSUME pc = "returned"
        PROVE  AllTornDown'
    <3>1. \A j \in Started : fwd[j] = "done"
      BY <2>3 DEF TearInv, AllTornDown
    <3>2. \A j \in Started : fwd'[j] = "done"
      BY <1>10, <1>t, <3>1
      DEF Forwarder, Producer, FwdTake, FwdSend, FwdSeeClose, FwdSendClose,
          FwdCloseSkip, FwdCancelled, FwdDrain, FwdDrained, Produce, ProducerEnd
    <3> QED
      BY <2>1, <3>2 DEF AllTornDown, Started
  <2> QED
    BY <2>1, <2>2, <2>3 DEF TearInv
<1> QED
  BY <1>2, <1>3, <1>4, <1>5, <1>6, <1>7, <1>8, <1>9, <1>10
  DEF Next, Dialing, Racing, Relaying, Unwinding

-----------------------------------------------------------------------------
(* The winner.                                                             *)

\* What a step does once there is a winner.
LEMMA DecidedFrame ==
    ASSUME TypeOK, PhaseInv, Next, winner # 0
    PROVE  /\ UNCHANGED <<first, started, cancelled>>
           /\ log' = log \/ \E ev \in Event : log' = Append(log, ev)
<1> USE DEF bookVars, sinkVars, ctxVars
<1>1. pc \in Decided
  BY DEF PhaseInv
<1>2. CASE CommitOk
  <2>1. log' = Append(log, first) /\ first \in Event
    <3>1. log = <<>>
      BY <1>2 DEF CommitOk, PhaseInv
    <3>2. first \in Event
      BY DEF TypeOK, LoopType, winner, NoEvent
    <3>3. <<first>> = Append(<<>>, first)
      BY <3>2
    <3> QED
      BY <1>2, <3>1, <3>2, <3>3 DEF CommitOk
  <2> QED
    BY <1>2, <2>1 DEF CommitOk
<1>3. CASE RelayChunk
  <2>1. Head(events) \in Event
    BY <1>3, ReceiveType DEF RelayChunk, TypeOK, PipeType
  <2> QED
    BY <1>3, <2>1 DEF RelayChunk
<1>4. CASE CommitErr \/ RelayCtxDone \/ RelayEnd \/ CancelAll \/ WaitAndReturn
  BY <1>4 DEF CommitErr, RelayCtxDone, RelayEnd, CancelAll, WaitAndReturn
<1>5. CASE Dialing \/ (Racing /\ ~RaceDiscard)
  BY <1>1, <1>5
  DEF Decided, Dialing, StartPrimary, DialOk, DialErr, Racing, RaceNoPath,
      RaceCtxDone, RaceTimeout, RaceFire, RaceClose, RaceWin, Select
<1>6. CASE RaceDiscard \/ RelayDiscard
  BY <1>6, DiscardFrame
<1>7. CASE Environment \/ Terminated
  BY <1>7, EnvironmentFrame DEF Terminated, vars
<1>8. CASE \E i \in Backends : Forwarder(i) \/ Producer(i)
  BY <1>8, BackgroundFrame
<1> QED
  BY <1>2, <1>3, <1>4, <1>5, <1>6, <1>7, <1>8
  DEF Next, Racing, Relaying, Unwinding

\* A winner appears by RaceWin alone, which cancels the others.
LEMMA CancelStep ==
    ASSUME TypeOK, PhaseInv, CancelInv, Next
    PROVE  CancelInv'
<1> USE DEF bookVars, sinkVars, ctxVars, winner
<1>1. CASE winner # 0
  BY <1>1, DecidedFrame DEF CancelInv, Lost, Started
<1>2. CASE winner = 0 /\ RaceWin
  BY <1>2 DEF RaceWin, CancelInv, Lost, Losers, Started
<1>3. CASE winner = 0 /\ ~RaceWin
  <2>1. first' = first
    <3>1. CASE Dialing \/ Relaying \/ Unwinding
      BY <3>1, DiscardFrame
      DEF Dialing, StartPrimary, DialOk, DialErr, Relaying, CommitOk, CommitErr,
          RelayCtxDone, RelayEnd, RelayChunk, Unwinding, CancelAll, WaitAndReturn
    <3>2. CASE Racing
      BY <1>3, <3>2, DiscardFrame
      DEF Racing, RaceNoPath, RaceCtxDone, RaceTimeout, RaceFire, RaceClose
    <3>3. CASE Environment \/ Terminated
      BY <3>3, EnvironmentFrame DEF Terminated, vars
    <3>4. CASE \E i \in Backends : Forwarder(i) \/ Producer(i)
      BY <3>4, BackgroundFrame
    <3> QED
      BY <3>1, <3>2, <3>3, <3>4 DEF Next
  <2> QED
    BY <1>3, <2>1 DEF CancelInv
<1> QED
  BY <1>1, <1>2, <1>3

-----------------------------------------------------------------------------
(* The fire-after timer.                                                   *)

\* A timer that was just armed is not forgotten.
LEMMA ArmFireKeepsPending ==
    ASSUME UNCHANGED <<pol, started>>, fireTimer' = ArmFire(RunningCount', started)
    PROVE  HedgePending'
BY DEF HedgePending, ShouldStartAfterLoss, ArmFire, HasHeadroom, HasMore,
       EffectiveMaxInFlight

\* A step that leaves loop, book and timer alone forgets no hedge.
LEMMA PendingFrame ==
    ASSUME HedgePending, UNCHANGED <<pol, pc, started, failed>>,
           fireTimer # "stopped" => fireTimer' # "stopped"
    PROVE  HedgePending'
BY DEF HedgePending, ShouldStartAfterLoss, HasHeadroom, HasMore, RunningCount,
       Held, Started, EffectiveMaxInFlight

\* Every step keeps a possible hedge pending.
LEMMA PendingStep ==
    ASSUME TypeOK, PhaseInv, BookInv, HedgePending, Next
    PROVE  HedgePending'
<1> USE DEF bookVars, timerVars
<1>1. CASE DialOk
  <2>1. RunningCount' = RunningCount
    BY <1>1 DEF DialOk, RunningCount, Held, Started
  <2> QED
    BY <1>1, <2>1, ArmFireKeepsPending DEF DialOk, EnterLoop
<1>2. CASE DialErr
  BY <1>2, RollbackBook, ArmFireKeepsPending DEF DialErr, EnterLoop
<1>3. CASE RaceFire \/ RaceClose
  <2>1. CASE Reserve
    BY <2>1 DEF Reserve, HedgePending
  <2>2. CASE /\ UNCHANGED <<pol, pc, started, failed>>
             /\ \/ fireTimer' = ArmFire(RunningCount, started)
                \/ fireTimer' = fireTimer /\ fireTimer # "stopped"
    <3>1. RunningCount' = RunningCount
      BY <2>2 DEF RunningCount, Held, Started
    <3> QED
      BY <2>2, <3>1, ArmFireKeepsPending, PendingFrame
  <2> QED
    BY <1>3, <2>1, <2>2 DEF RaceFire, RaceClose
<1>4. CASE pc' # "racing"
  BY <1>4 DEF HedgePending
<1>5. CASE Relaying \/ Unwinding \/ StartPrimary
  BY <1>4, <1>5, DiscardFrame, PendingFrame
  DEF Relaying, CommitOk, CommitErr, RelayCtxDone, RelayEnd, RelayChunk, Leave,
      Unwinding, CancelAll, WaitAndReturn, StartPrimary, Reserve
<1>6. CASE RaceNoPath \/ RaceCtxDone \/ RaceTimeout \/ RaceWin
  BY <1>4, <1>6 DEF RaceNoPath, RaceCtxDone, RaceTimeout, RaceWin, Leave
<1>7. CASE RaceDiscard
  BY <1>7, DiscardFrame, PendingFrame
<1>8. CASE Environment \/ Terminated
  <2>1. UNCHANGED <<pol, pc, started, failed>>
    BY <1>8, EnvironmentFrame DEF Terminated, vars
  <2>2. fireTimer # "stopped" => fireTimer' # "stopped"
    BY <1>8 DEF Environment, FireTick, TimeoutTick, ClientCancel, Terminated, vars
  <2> QED
    BY <2>1, <2>2, PendingFrame
<1>9. CASE \E i \in Backends : Forwarder(i) \/ Producer(i)
  BY <1>9, BackgroundFrame, PendingFrame
<1> QED
  BY <1>1, <1>2, <1>3, <1>5, <1>6, <1>7, <1>8, <1>9
  DEF Next, Dialing, Racing

-----------------------------------------------------------------------------
(* The results.                                                            *)

\* What is inductive: the invariants proved below, and what relates the program
\* counter, the winner and the cancelled backends, without which they are not.
IndInv == TypeOK /\ PhaseInv /\ BookInv /\ CostInv /\ TearInv /\ CancelInv
          /\ HedgePending

\* The inductive invariant holds initially.
LEMMA IndInvInit == Init => IndInv
<1> SUFFICES ASSUME Init PROVE IndInv
  OBVIOUS
<1>1. TypeOK
  BY InitType
<1>2. RunningCount = 0
  <2>1. Held = {}
    BY DEF Init, Held, Started
  <2> QED
    BY <2>1, FS_EmptySet DEF RunningCount
<1>3. BookInv
  BY <1>1, <1>2, EffectivePositive
  DEF Init, BookInv, InFlightConserved, InFlightCapped
<1>4. PhaseInv /\ TearInv /\ CancelInv /\ HedgePending
  BY DEF Init, PhaseInv, Decided, TearInv, CancelInv, HedgePending, winner, NoEvent
<1>5. CostInv
  <2>1. Held = {} /\ CommittedCostDelta = 0
    BY CostIsSum, SumEmpty DEF Init, Held, Started
  <2> QED
    BY <2>1 DEF Init, CostInv, CostConserved, CostCapped
<1> QED
  BY <1>1, <1>3, <1>4, <1>5 DEF IndInv

\* Every step keeps the inductive invariant.
LEMMA IndInvStep == IndInv /\ [Next]_vars => IndInv'
<1> SUFFICES ASSUME IndInv, [Next]_vars PROVE IndInv'
  OBVIOUS
<1>1. CASE Next
  BY <1>1, TypeStep, PhaseStep, BookStep, CostStep, TearStep, CancelStep,
     PendingStep
  DEF IndInv
<1>2. CASE UNCHANGED vars
  <2> USE <1>2 DEF IndInv, vars, bookVars, sinkVars, timerVars, ctxVars, fwdVars,
                   streamVars
  <2>1. TypeOK' /\ PhaseInv'
    BY DEF TypeOK, LoopType, BookType, ContextType, PipeType, Started, PhaseInv,
           winner
  <2>2. BookInv' /\ CostInv' /\ HedgePending'
    BY BookFrame, CostFrame, PendingFrame
  <2>3. TearInv' /\ CancelInv'
    BY DEF TearInv, AllTornDown, CancelInv, Lost, Started, winner
  <2> QED
    BY <2>1, <2>2, <2>3
<1> QED
  BY <1>1, <1>2

\* Every reachable state is well typed, and the parts of the inductive
\* invariant hold in it.
THEOREM Invariance == Spec => []IndInv
BY IndInvInit, IndInvStep, PTL DEF Spec

\* Every variable keeps its type, for any number of backends and chunks.
THEOREM TypeCorrect == Spec => []TypeOK
BY Invariance, PTL DEF IndInv

\* The in-flight gauge is what the run's live backends account for until Run
\* returns, and is given back whole then.
THEOREM InFlightIsConserved == Spec => []InFlightConserved
BY Invariance, PTL DEF IndInv, BookInv

\* No request ever holds more backends than its policy's max_in_flight.
THEOREM InFlightIsCapped == Spec => []InFlightCapped
BY Invariance, PTL DEF IndInv, BookInv

\* The committed cost is what the run's live backends account for until Run
\* returns; a failed dial's share is given back once.
THEOREM CostIsConserved == Spec => []CostConserved
BY Invariance, PTL DEF IndInv, CostInv

\* No request ever commits more than its policy's cost ceiling, unless it is
\* the primary's cost alone.
THEOREM CostIsCapped == Spec => []CostCapped
BY Invariance, PTL DEF IndInv, CostInv

\* Run returns only when every forwarder and every producer it started is gone.
THEOREM NoLeak == Spec => []NoLeakAtReturn
<1>1. IndInv => NoLeakAtReturn
  BY DEF IndInv, TearInv, AllTornDown, NoLeakAtReturn, TypeOK, BookType, Started,
         Backends
<1> QED
  BY <1>1, Invariance, PTL

\* While the race waits and a backup could be started, the timer that will
\* start it is armed.
THEOREM HedgeIsPending == Spec => []HedgePending
BY Invariance, PTL DEF IndInv

\* Nothing is dialed, wins or is un-cancelled after the first winner, and what
\* was relayed stays relayed.
THEOREM WinnerStaysFinal == Spec => WinnerIsFinal
<1> DEFINE Final == winner # 0 =>
             /\ UNCHANGED <<first, started>>
             /\ Lost \subseteq cancelled'
             /\ log' = log \/ \E ev \in Event : log' = Append(log, ev)
<1>1. IndInv /\ [Next]_vars => [Final]_vars
  <2> SUFFICES ASSUME IndInv, Next PROVE Final
    OBVIOUS
  <2> QED
    BY DecidedFrame DEF IndInv, CancelInv
<1> QED
  BY <1>1, Invariance, PTL DEF Spec, WinnerIsFinal
=============================================================================
