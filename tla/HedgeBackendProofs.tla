------------------------- MODULE HedgeBackendProofs -------------------------
(***************************************************************************)
(* Machine-checked proofs about HedgeBackend and its clock, for any number *)
(* of streams, any upstream responses, any scripts of fakes and either     *)
(* clock: both backends keep the send contract, both clocks the timer      *)
(* contract, and no fake sends a token before its time.                    *)
(***************************************************************************)
EXTENDS HedgeBackend, HedgeSums, SequenceTheorems

USE ClockAssumption, BackendAssumption

-----------------------------------------------------------------------------
(* What an upstream says.                                                  *)

Kinds == {"skip", "malformed", "chunk", "done"}

NotDone(lines, n) == \A m \in 1 .. n : lines[m] # "done"

\* How many chunks were said up to a line is a number.
LEMMA SaidIsFinite ==
    ASSUME NEW lines \in Seq(Kinds)
    PROVE  /\ IsFiniteSet(Said(lines)) /\ Cardinality(Said(lines)) \in Nat
           /\ \A n \in Nat : /\ IsFiniteSet(SaidBy(lines, n))
                             /\ Cardinality(SaidBy(lines, n)) \in Nat
                             /\ Cardinality(SaidBy(lines, n)) <= Cardinality(Said(lines))
<1>1. Len(lines) \in Nat
  OBVIOUS
<1>2. IsFiniteSet(1 .. Len(lines)) /\ Said(lines) \subseteq 1 .. Len(lines)
  BY <1>1, FS_Interval DEF Said
<1>3. IsFiniteSet(Said(lines)) /\ Cardinality(Said(lines)) \in Nat
  BY <1>2, FS_Subset, FS_CardinalityType
<1>4. \A n \in Nat : SaidBy(lines, n) \subseteq Said(lines)
  BY DEF SaidBy
<1> QED
  BY <1>3, <1>4, FS_Subset, FS_CardinalityType

\* Nothing is said by line 0, and everything by the last line.
LEMMA SaidEnds ==
    ASSUME NEW lines \in Seq(Kinds)
    PROVE  /\ Cardinality(SaidBy(lines, 0)) = 0
           /\ SaidBy(lines, Len(lines)) = Said(lines)
<1>1. SaidBy(lines, 0) = {}
  BY DEF SaidBy
<1>2. SaidBy(lines, Len(lines)) = Said(lines)
  BY DEF SaidBy, Said
<1> QED
  BY <1>1, <1>2, FS_EmptySet

\* What one more line adds: itself, if it is a chunk and [DONE] did not come before.
LEMMA SaidOneMore ==
    ASSUME NEW lines \in Seq(Kinds), NEW n \in 1 .. Len(lines)
    PROVE  /\ n \notin Said(lines) => SaidBy(lines, n) = SaidBy(lines, n - 1)
           /\ n \in Said(lines) =>
                Cardinality(SaidBy(lines, n)) = Cardinality(SaidBy(lines, n - 1)) + 1
<1>1. n \notin Said(lines) => SaidBy(lines, n) = SaidBy(lines, n - 1)
  <2> SUFFICES ASSUME n \notin Said(lines)
               PROVE  Said(lines) \cap 1 .. n = Said(lines) \cap 1 .. (n - 1)
    BY DEF SaidBy
  <2>1. ASSUME NEW k \in Said(lines) PROVE k \in 1 .. n <=> k \in 1 .. (n - 1)
    <3>1. k # n /\ k \in Int
      BY DEF Said
    <3> QED
      BY <3>1
  <2> QED
    BY <2>1
<1>2. ASSUME n \in Said(lines)
      PROVE  Cardinality(SaidBy(lines, n)) = Cardinality(SaidBy(lines, n - 1)) + 1
  <2>1. SaidBy(lines, n) = SaidBy(lines, n - 1) \cup {n}
    <3>1. ASSUME NEW k \in Said(lines) PROVE k \in 1 .. n <=> k \in 1 .. (n - 1) \/ k = n
      BY DEF Said
    <3> QED
      BY <1>2, <3>1 DEF SaidBy
  <2>2. n \notin SaidBy(lines, n - 1)
    BY DEF SaidBy
  <2>3. IsFiniteSet(SaidBy(lines, n - 1)) /\ n - 1 \in Nat
    BY SaidIsFinite
  <2> QED
    BY <2>1, <2>2, <2>3, FS_AddElement
<1> QED
  BY <1>1, <1>2

\* The later the line, the more is said.
LEMMA SaidGrows ==
    ASSUME NEW lines \in Seq(Kinds), NEW n \in Nat, NEW m \in Nat, n <= m
    PROVE  Cardinality(SaidBy(lines, n)) <= Cardinality(SaidBy(lines, m))
<1>1. SaidBy(lines, n) \subseteq SaidBy(lines, m)
  BY DEF SaidBy
<1> QED
  BY <1>1, SaidIsFinite, FS_Subset

\* Once [DONE] was read all is said.
LEMMA SaidIsOver ==
    ASSUME NEW lines \in Seq(Kinds), NEW n \in 1 .. Len(lines), lines[n] = "done"
    PROVE  SaidBy(lines, n - 1) = Said(lines)
<1>1. ASSUME NEW k \in Said(lines) PROVE k \in 1 .. (n - 1)
  <2>1. k \in 1 .. Len(lines) /\ \A m \in 1 .. k : lines[m] # "done"
    BY DEF Said
  <2>2. ~(n <= k)
    BY <2>1
  <2> QED
    BY <2>1, <2>2
<1> QED
  BY <1>1 DEF SaidBy

\* The chunk on a line is the next one to be said after those before it.
LEMMA SaysNext ==
    ASSUME NEW lines \in Seq(Kinds), NEW n \in Said(lines),
           NEW k, k = Cardinality(SaidBy(lines, n))
    PROVE  k \in 1 .. Len(Says(lines)) /\ Says(lines)[k] = n
<1>1. n \in 1 .. Len(lines) /\ n \in Nat /\ n - 1 \in Nat
  BY DEF Said
<1>2. /\ k \in Nat /\ Cardinality(SaidBy(lines, n - 1)) \in Nat
      /\ Cardinality(Said(lines)) \in Nat /\ k <= Cardinality(Said(lines))
      /\ k = Cardinality(SaidBy(lines, n - 1)) + 1
  BY <1>1, SaidIsFinite, SaidOneMore
<1>3. k \in 1 .. Cardinality(Said(lines))
  BY <1>2
<1>4. ASSUME NEW m \in Said(lines), Cardinality(SaidBy(lines, m)) = k PROVE m = n
  <2>1. m \in 1 .. Len(lines) /\ m \in Nat /\ m - 1 \in Nat
    BY DEF Said
  <2>2. /\ Cardinality(SaidBy(lines, m - 1)) \in Nat
        /\ k = Cardinality(SaidBy(lines, m - 1)) + 1
    BY <1>4, <2>1, SaidIsFinite, SaidOneMore
  <2>3. CASE m < n
    <3>1. Cardinality(SaidBy(lines, m)) <= Cardinality(SaidBy(lines, n - 1))
      BY <1>1, <2>1, <2>3, SaidGrows
    <3> QED
      BY <1>2, <1>4, <3>1
  <2>4. CASE n < m
    <3>1. Cardinality(SaidBy(lines, n)) <= Cardinality(SaidBy(lines, m - 1))
      BY <1>1, <2>1, <2>4, SaidGrows
    <3> QED
      BY <1>2, <2>2, <3>1
  <2> QED
    BY <1>1, <2>1, <2>3, <2>4
<1>5. (CHOOSE m \in Said(lines) : Cardinality(SaidBy(lines, m)) = k) = n
  BY <1>4
<1>6. /\ Len(Says(lines)) = Cardinality(Said(lines))
      /\ Says(lines)[k] = CHOOSE m \in Said(lines) : Cardinality(SaidBy(lines, m)) = k
  BY <1>2, <1>3 DEF Says
<1> QED
  BY <1>3, <1>5, <1>6

\* What an upstream says is a sequence of lines: each place in it has its line.
LEMMA SaysType ==
    ASSUME NEW lines \in Seq(Kinds)
    PROVE  Says(lines) \in Seq(Nat) /\ Len(Says(lines)) = Cardinality(Said(lines))
<1>1. Cardinality(Said(lines)) \in Nat
  BY SaidIsFinite
<1>2. ASSUME NEW k \in 1 .. Cardinality(Said(lines))
      PROVE  \E m \in Said(lines) : Cardinality(SaidBy(lines, m)) = k
  <2> DEFINE T == {n \in Nat : n <= Len(lines) /\ Cardinality(SaidBy(lines, n)) >= k}
  <2>1. k \in Nat /\ k > 0 /\ Len(lines) \in Nat
    BY <1>1
  <2>2. Len(lines) \in T
    BY <1>1, <1>2, <2>1, SaidEnds
  <2>3. PICK n \in T : \A m \in T : n <= m
    <3> HIDE DEF T
    <3>1. T \in SUBSET Nat /\ T # {}
      BY <2>2 DEF T
    <3> QED
      BY <3>1, SmallestNumber
  <2>4. n \in Nat /\ n <= Len(lines) /\ Cardinality(SaidBy(lines, n)) >= k
    BY <2>3
  <2>5. n # 0
    BY <2>1, <2>4, SaidEnds
  <2>6. n \in 1 .. Len(lines) /\ n - 1 \in Nat
    BY <2>1, <2>4, <2>5
  <2>7. ~(Cardinality(SaidBy(lines, n - 1)) >= k)
    <3>1. n - 1 \notin T
      BY <2>3, <2>4
    <3> QED
      BY <2>1, <2>4, <2>6, <3>1
  <2>8. n \in Said(lines)
    BY <2>4, <2>6, <2>7, SaidOneMore
  <2>9. /\ Cardinality(SaidBy(lines, n)) = Cardinality(SaidBy(lines, n - 1)) + 1
        /\ Cardinality(SaidBy(lines, n - 1)) \in Nat
    BY <2>6, <2>8, SaidOneMore, SaidIsFinite
  <2>10. Cardinality(SaidBy(lines, n)) = k
    BY <2>1, <2>4, <2>7, <2>9
  <2> QED
    BY <2>8, <2>10
<1>3. \A k \in 1 .. Cardinality(Said(lines)) :
        (CHOOSE m \in Said(lines) : Cardinality(SaidBy(lines, m)) = k) \in Nat
  <2>1. Said(lines) \subseteq Nat
    BY DEF Said
  <2> QED
    BY <1>2, <2>1
<1> QED
  BY <1>1, <1>3 DEF Says

-----------------------------------------------------------------------------
(* What a fake is told to say.                                             *)

Fakes == [startErr : BOOLEAN, first : Durations, inter : Durations, tokens : Nat,
          failAfter : Nat, emitFinish : BOOLEAN]

\* Its tokens up to the limit, then the finish chunk if it was not cut short.
LEMMA ToldIs ==
    ASSUME NEW s \in Fakes
    PROVE  /\ Told(s) \in Seq(Nat) /\ Limit(s) \in Nat
           /\ Len(Told(s)) = IF ~Truncated(s) /\ s.emitFinish THEN Limit(s) + 1 ELSE Limit(s)
           /\ \A n \in 1 .. Len(Told(s)) : Told(s)[n] = IF n <= Limit(s) THEN n ELSE 0
<1>1. s.failAfter \in Nat /\ s.tokens \in Nat /\ s.emitFinish \in BOOLEAN
  BY DEF Fakes
<1>2. CASE Truncated(s)
  <2>1. s.failAfter \in 1 .. s.tokens - 1 /\ Limit(s) = s.failAfter
    BY <1>1, <1>2 DEF Truncated, Limit
  <2>2. Told(s) = [n \in 1 .. s.failAfter |-> n]
    BY <2>1 DEF Told
  <2> QED
    BY <1>1, <1>2, <2>1, <2>2
<1>3. CASE ~Truncated(s)
  <2>1. s.failAfter \notin 1 .. s.tokens - 1 /\ Limit(s) = s.tokens
    BY <1>1, <1>3 DEF Truncated, Limit
  <2> DEFINE all == [n \in 1 .. s.tokens |-> n]
             end == IF s.emitFinish THEN <<0>> ELSE <<>>
  <2>2. Told(s) = all \o end
    BY <2>1 DEF Told
  <2>3. all \in Seq(Nat) /\ Len(all) = s.tokens /\ \A n \in 1 .. s.tokens : all[n] = n
    BY <1>1
  <2>4. /\ end \in Seq(Nat) /\ Len(end) = IF s.emitFinish THEN 1 ELSE 0
        /\ s.emitFinish => end[1] = 0
    OBVIOUS
  <2> HIDE DEF all, end
  <2>5. /\ all \o end \in Seq(Nat) /\ Len(all \o end) = Len(all) + Len(end)
        /\ \A n \in 1 .. Len(all) + Len(end) :
             (all \o end)[n] = IF n <= Len(all) THEN all[n] ELSE end[n - Len(all)]
    BY <2>3, <2>4, ConcatProperties, ZenonT(30)
  <2>6. ASSUME NEW n \in 1 .. Len(Told(s))
        PROVE  Told(s)[n] = IF n <= Limit(s) THEN n ELSE 0
    BY <1>1, <2>1, <2>2, <2>3, <2>4, <2>5, SMTT(30)
  <2> QED
    BY <1>1, <1>3, <2>1, <2>2, <2>3, <2>4, <2>5, <2>6
<1> QED
  BY <1>2, <1>3

-----------------------------------------------------------------------------
(* The inductive invariant.                                                *)

HTTPPhases == {"unasked", "posting", "badStatus", "refused", "scanning", "sending",
               "returning", "closing", "closed"}
FakePhases == {"unasked", "refused", "begin", "waiting", "between", "ready", "closing",
               "closed"}

\* What was given is of the constants' sets.
GivenInv ==
    /\ http \in [Producers -> BOOLEAN]
    /\ \A p \in Producers : IF http[p] THEN script[p] \in HTTPScripts
                                       ELSE script[p] \in FakeScripts

\* Where an HTTPBackend is in its response, and what it has sent so far.
HTTPInv(p) ==
    LET lines == script[p]
        n == at[p]
    IN  /\ phase[p] \in HTTPPhases
        /\ body[p] => phase[p] \in {"badStatus", "scanning", "sending", "returning"}
        /\ n \in 0 .. Len(lines)
        /\ phase[p] \in {"unasked", "posting", "badStatus", "refused"} => n = 0 /\ sent[p] = 0
        /\ phase[p] \in {"scanning", "sending"} => \A m \in 1 .. n : lines[m] # "done"
        /\ phase[p] = "scanning" => sent[p] = Cardinality(SaidBy(lines, n))
        /\ phase[p] = "sending" =>
             n > 0 /\ lines[n] = "chunk" /\ sent[p] = Cardinality(SaidBy(lines, n - 1))
        /\ phase[p] \in {"returning", "closing"} =>
             ctx[p] \/ sent[p] = Cardinality(Said(lines))

\* Where a FakeBackend is in its script.
FakeInv(p) ==
    LET n == at[p]
        whole == Len(Told(script[p]))
    IN  /\ phase[p] \in FakePhases
        /\ ~body[p]
        /\ sent[p] = n /\ n \in 0 .. whole
        /\ phase[p] \in {"unasked", "begin"} => n = 0
        /\ phase[p] = "between" => n > 0
        /\ phase[p] = "closing" => ctx[p] \/ n = whole

ProducerInv == \A p \in Producers : IF http[p] THEN HTTPInv(p) ELSE FakeInv(p)

\* A timer is registered once, or its tick is unread, or neither.
Single(t) ==
    /\ \A r1, r2 \in Registered(t) : r1 = r2
    /\ Registered(t) # {} => tick[t] = 0

TimerInv ==
    /\ \A t \in Timers : Single(t)
    /\ fake => \A r \in timers : r.deadline > now
    /\ \A p \in Producers :
         http[p] \/ phase[p] \in {"unasked", "begin", "between", "ready"} =>
           Registered(p) = {} /\ tick[p] = 0

\* When the next token of a fake is due at the earliest.
Due(p) == began[p] + script[p].first + at[p] * script[p].inter

FakeTimeInv(p) ==
    LET s == script[p] IN
    /\ began[p] <= now
    /\ phase[p] = "waiting" =>
         /\ \A r \in Registered(p) : r.deadline >= Due(p)
         /\ tick[p] > 0 => now >= Due(p)
    /\ phase[p] = "ready" /\ at[p] < Limit(s) => now >= Due(p)
    /\ \A n \in 1 .. at[p] : n <= Limit(s) => now >= began[p] + s.first + (n - 1) * s.inter

TimeInv == \A p \in Producers : ~http[p] => FakeTimeInv(p)

BackendInv == TypeOK /\ GivenInv /\ ProducerInv /\ TimerInv /\ TimeInv

-----------------------------------------------------------------------------
(* Who changes what.                                                       *)

prodVars == <<given, phase, at, chan, body, ctx, notice, sent, began>>

\* A step of one stream leaves the others as they are.
Touches(p) ==
    /\ UNCHANGED given
    /\ \A q \in Producers \ {p} :
         /\ phase'[q] = phase[q] /\ at'[q] = at[q] /\ chan'[q] = chan[q]
         /\ body'[q] = body[q] /\ ctx'[q] = ctx[q] /\ sent'[q] = sent[q]
         /\ began'[q] = began[q]

\* The steps of a stream that leave the clock alone.
Quiet(p) ==
    \/ Post(p) \/ PostErr(p) \/ Answer(p) \/ BadStatus(p) \/ Scan(p)
    \/ Play(p) \/ NoWait(p) \/ GiveUpWait(p) \/ AllSent(p) \/ OnCancel(p)
    \/ Send(p) \/ GiveUpSend(p) \/ CloseBody(p) \/ CloseChan(p)
    \/ Take(p) \/ Cancel(p)

\* A quiet step touches one stream and no timer.
LEMMA QuietSteps ==
    ASSUME TypeOK, NEW p \in Producers, Quiet(p)
    PROVE  Touches(p) /\ UNCHANGED clockVars
<1>1. CASE Post(p) \/ PostErr(p) \/ Answer(p) \/ BadStatus(p)
  BY <1>1 DEF Post, PostErr, Answer, BadStatus, Move, TypeOK, Touches, given
<1>2. CASE Scan(p) \/ Play(p) \/ NoWait(p) \/ GiveUpWait(p)
  BY <1>2 DEF Scan, Play, NoWait, GiveUpWait, Move, TypeOK, Touches, given
<1>3. CASE AllSent(p) \/ OnCancel(p) \/ Take(p) \/ Cancel(p)
  BY <1>3 DEF AllSent, OnCancel, Take, Cancel, Move, TypeOK, Touches, given
<1>4. CASE Send(p)
  BY <1>4 DEF Send, TypeOK, Touches, given
<1>5. CASE GiveUpSend(p) \/ CloseBody(p) \/ CloseChan(p)
  BY <1>5 DEF GiveUpSend, CloseBody, CloseChan, Move, TypeOK, Touches, given
<1> QED
  BY <1>1, <1>2, <1>3, <1>4, <1>5 DEF Quiet

\* Every step is one stream's, quiet or about its delay, or one of the clock's.
LEMMA Steps ==
    ASSUME [Next]_vars
    PROVE  \/ \E p \in Producers : Quiet(p)
           \/ \E p \in Producers : Wait(p) \/ WaitOver(p)
           \/ \E t \in Owners : Rearm(t)
           \/ Clock
           \/ UNCHANGED vars
BY DEF Next, HTTP, Fake, Return, Quiet

\* A response's lines, or what a fake was told.
LEMMA GivenTypes ==
    ASSUME GivenInv, NEW p \in Producers
    PROVE  /\ http[p] \in BOOLEAN
           /\ http[p] => script[p] \in Seq(Kinds) /\ Len(script[p]) \in Nat
           /\ ~http[p] => script[p] \in Fakes
<1>1. HTTPScripts \subseteq Seq(Kinds) /\ FakeScripts \subseteq Fakes
  BY DEF Kinds, Fakes
<1>2. http[p] => script[p] \in Seq(Kinds)
  BY <1>1 DEF GivenInv
<1> QED
  BY <1>1, <1>2 DEF GivenInv

\* What was given stays given.
LEMMA GivenFrame ==
    ASSUME TypeOK, [Next]_vars
    PROVE  UNCHANGED given
<1>1. CASE \E p \in Producers : Quiet(p)
  BY <1>1, QuietSteps DEF Touches
<1>2. CASE \E p \in Producers : Wait(p) \/ WaitOver(p)
  BY <1>2 DEF Wait, WaitOver, given
<1>3. CASE (\E t \in Owners : Rearm(t)) \/ Clock \/ UNCHANGED vars
  BY <1>3 DEF Rearm, Clock, given, vars
<1> QED
  BY <1>1, <1>2, <1>3, Steps

-----------------------------------------------------------------------------
(* The clock.                                                              *)

TimersOnce == \A t \in Timers : Single(t)
NothingDue == fake => \A r \in timers : r.deadline > now
ClockInv == ClockTypeOK /\ TimersOnce /\ NothingDue

Idles(t) == Registered(t) = {} /\ tick[t] = 0

\* All timers but t are as they were.
OthersKeep(t) ==
    \A u \in Timers \ {t} : Registered(u)' = Registered(u) /\ tick'[u] = tick[u]

\* A timer armed anew is registered once, or has ticked at once.
LEMMA Arming ==
    ASSUME ClockInv, NEW t \in Timers, NEW d \in Int, Reset(t, d)
    PROVE  /\ ClockInv' /\ OthersKeep(t) /\ UNCHANGED <<fake, now>>
           /\ Registered(t)' = IF Immediate(d) THEN {} ELSE {Registration(t, d)}
           /\ tick'[t] = IF Immediate(d) THEN 1 ELSE 0
<1>1. fake \in BOOLEAN /\ now \in Int /\ timers \subseteq [ch : Timers, deadline : Int]
      /\ tick \in [Timers -> {0, 1}]
  BY DEF ClockInv, ClockTypeOK
<1>2. UNCHANGED <<fake, now>>
  BY DEF Reset
<1>3. /\ Registration(t, d) \in [ch : Timers, deadline : Int]
      /\ Registration(t, d).ch = t /\ Registration(t, d).deadline = now + d
  BY <1>1 DEF Registration
<1>4. timers' = (timers \ Registered(t)) \cup
                  IF Immediate(d) THEN {} ELSE {Registration(t, d)}
  BY DEF Reset
<1>5. /\ tick' \in [Timers -> {0, 1}]
      /\ tick'[t] = IF Immediate(d) THEN 1 ELSE 0
      /\ \A u \in Timers \ {t} : tick'[u] = tick[u]
  BY <1>1 DEF Reset, Drained
<1>6. timers' \subseteq [ch : Timers, deadline : Int]
  BY <1>1, <1>3, <1>4
<1>7. Registered(t)' = IF Immediate(d) THEN {} ELSE {Registration(t, d)}
  BY <1>3, <1>4 DEF Registered
<1>8. \A u \in Timers \ {t} : Registered(u)' = Registered(u)
  BY <1>3, <1>4 DEF Registered
<1>9. OthersKeep(t)
  BY <1>5, <1>8 DEF OthersKeep
<1>10. TimersOnce'
  <2> SUFFICES ASSUME NEW u \in Timers PROVE Single(u)'
    BY DEF TimersOnce
  <2>1. CASE u = t
    BY <1>5, <1>7, <2>1 DEF Single
  <2>2. CASE u # t
    BY <1>9, <2>2 DEF OthersKeep, ClockInv, TimersOnce, Single
  <2> QED
    BY <2>1, <2>2
<1>11. NothingDue'
  <2> SUFFICES ASSUME fake, NEW r \in timers' PROVE r.deadline > now
    BY <1>2 DEF NothingDue
  <2>1. r \in timers => r.deadline > now
    BY DEF ClockInv, NothingDue
  <2>2. r = Registration(t, d) /\ ~Immediate(d) => r.deadline > now
    BY <1>1, <1>3 DEF Immediate
  <2> QED
    BY <1>4, <2>1, <2>2
<1>12. ClockTypeOK'
  BY <1>2, <1>5, <1>6 DEF ClockInv, ClockTypeOK
<1> QED
  BY <1>2, <1>5, <1>7, <1>9, <1>10, <1>11, <1>12 DEF ClockInv

\* After on an idle timer is Reset: there is nothing to drop or drain.
LEMMA AfterIsReset ==
    ASSUME ClockInv, NEW t \in Timers, NEW d \in Int, Idles(t), After(t, d)
    PROVE  Reset(t, d)
<1>1. tick \in [Timers -> {0, 1}] /\ Drained(t) = tick
  BY DEF ClockInv, ClockTypeOK, Drained, Idles
<1>2. timers \ Registered(t) = timers
  BY DEF Idles
<1>3. tick[t] + 1 = 1
  BY DEF Idles
<1>4. tick' = IF Immediate(d) THEN [Drained(t) EXCEPT ![t] = @ + 1] ELSE Drained(t)
  BY <1>1, <1>3 DEF After
<1> QED
  BY <1>2, <1>4 DEF After, Reset

\* A timer stopped, or read, is idle.
LEMMA Disarming ==
    ASSUME ClockInv, NEW t \in Timers, Stop(t) \/ Receive(t)
    PROVE  /\ ClockInv' /\ OthersKeep(t) /\ UNCHANGED <<fake, now>> /\ Idles(t)'
           /\ Receive(t) => Registered(t) = {} /\ tick[t] = 1
<1>1. fake \in BOOLEAN /\ now \in Int /\ timers \subseteq [ch : Timers, deadline : Int]
      /\ tick \in [Timers -> {0, 1}]
  BY DEF ClockInv, ClockTypeOK
<1>2. UNCHANGED <<fake, now>>
  BY DEF Stop, Receive
<1>3. Receive(t) => Registered(t) = {} /\ tick[t] = 1
  BY <1>1 DEF Receive, ClockInv, TimersOnce, Single
<1>4. timers' = timers \ Registered(t)
  <2>1. Receive(t) => timers' = timers \ Registered(t)
    BY <1>3 DEF Receive
  <2> QED
    BY <2>1 DEF Stop
<1>5. /\ tick' \in [Timers -> {0, 1}] /\ tick'[t] = 0
      /\ \A u \in Timers \ {t} : tick'[u] = tick[u]
  <2>1. CASE Stop(t)
    BY <1>1, <2>1 DEF Stop, Drained
  <2>2. CASE Receive(t)
    BY <1>1, <1>3, <2>2 DEF Receive
  <2> QED
    BY <2>1, <2>2
<1>6. /\ Registered(t)' = {} /\ \A u \in Timers \ {t} : Registered(u)' = Registered(u)
  BY <1>4 DEF Registered
<1>7. OthersKeep(t) /\ Idles(t)'
  BY <1>5, <1>6 DEF OthersKeep, Idles
<1>8. TimersOnce'
  <2> SUFFICES ASSUME NEW u \in Timers PROVE Single(u)'
    BY DEF TimersOnce
  <2>1. CASE u = t
    BY <1>6, <2>1 DEF Single
  <2>2. CASE u # t
    BY <1>7, <2>2 DEF OthersKeep, ClockInv, TimersOnce, Single
  <2> QED
    BY <2>1, <2>2
<1>9. NothingDue'
  BY <1>2, <1>4 DEF ClockInv, NothingDue
<1>10. ClockTypeOK'
  BY <1>1, <1>2, <1>4, <1>5 DEF ClockInv, ClockTypeOK
<1> QED
  BY <1>2, <1>3, <1>7, <1>8, <1>9, <1>10 DEF ClockInv

\* As the clock moves a timer stays as it was, or its one registration was due
\* and it ticks.
Fires(t) ==
    /\ \E r \in Registered(t) : r.deadline <= now'
    /\ tick[t] = 0 /\ Registered(t)' = {} /\ tick'[t] = 1
Stays(t) ==
    /\ Registered(t)' = Registered(t) /\ tick'[t] = tick[t]
    /\ fake => \A r \in Registered(t) : r.deadline > now'

\* Advance delivers what is due, once each, and leaves nothing due.
LEMMA Advancing ==
    ASSUME ClockInv, Advance
    PROVE  /\ ClockTypeOK' /\ NothingDue' /\ now < now' /\ UNCHANGED fake
           /\ \A t \in Timers : Fires(t) \/ Stays(t)
<1>1. fake \in BOOLEAN /\ now \in 0 .. MaxNow /\ timers \subseteq [ch : Timers, deadline : Int]
      /\ tick \in [Timers -> {0, 1}]
  BY DEF ClockInv, ClockTypeOK
<1>2. PICK time \in now + 1 .. MaxNow :
        /\ \A t \in Timers : tick[t] + Cardinality(DueAt(time) \cap Registered(t)) <= 1
        /\ now' = time
        /\ timers' = timers \ DueAt(time)
        /\ tick' = [t \in Timers |-> tick[t] + Cardinality(DueAt(time) \cap Registered(t))]
  BY DEF Advance
<1>3. fake /\ UNCHANGED fake
  BY DEF Advance
<1>4. now' = time /\ time \in Int /\ now < time /\ time <= MaxNow
  BY <1>1, <1>2
<1>5. \A r \in timers : r.deadline \in Int
  BY <1>1
<1>6. ASSUME NEW t \in Timers PROVE (Fires(t) \/ Stays(t)) /\ tick'[t] \in {0, 1}
  <2>s. Single(t) /\ tick[t] \in {0, 1}
    BY <1>1 DEF ClockInv, TimersOnce
  <2>r. /\ Registered(t)' = Registered(t) \ DueAt(time)
        /\ tick'[t] = tick[t] + Cardinality(DueAt(time) \cap Registered(t))
    BY <1>2 DEF Registered
  <2>1. CASE \E r \in Registered(t) : r.deadline <= time
    <3>1. PICK r \in Registered(t) : r.deadline <= time
      BY <2>1
    <3>2. Registered(t) = {r} /\ tick[t] = 0 /\ r \in DueAt(time)
      BY <2>s, <3>1 DEF Single, DueAt, Registered
    <3>3. DueAt(time) \cap Registered(t) = {r}
      BY <3>2
    <3>4. Cardinality({r}) = 1
      BY FS_Singleton
    <3>5. tick'[t] = 1
      <4>1. Cardinality(DueAt(time) \cap Registered(t)) = 1
        BY <3>3, <3>4
      <4>2. tick[t] = 0 /\ 0 + 1 = 1
        BY <3>2
      <4> QED
        BY <2>r, <4>1, <4>2
    <3>6. Registered(t)' = {}
      BY <2>r, <3>2
    <3> QED
      BY <1>4, <3>1, <3>2, <3>5, <3>6 DEF Fires
  <2>2. CASE ~\E r \in Registered(t) : r.deadline <= time
    <3>1. DueAt(time) \cap Registered(t) = {}
      BY <2>2 DEF DueAt
    <3>2. Cardinality({}) = 0
      BY FS_EmptySet
    <3>5. Registered(t)' = Registered(t)
      BY <2>r, <3>1
    <3>3. tick'[t] = tick[t]
      <4>1. Cardinality(DueAt(time) \cap Registered(t)) = 0
        BY <3>1, <3>2
      <4>2. tick[t] + 0 = tick[t]
        BY <2>s
      <4> QED
        BY <2>r, <4>1, <4>2
    <3>4. \A r \in Registered(t) : r.deadline > time
      BY <1>4, <1>5, <2>2 DEF Registered
    <3> QED
      <4>1. \A r \in Registered(t) : r.deadline > now'
        BY <1>4, <3>4
      <4> QED
        BY <2>s, <3>3, <3>5, <4>1 DEF Stays
  <2> QED
    BY <2>1, <2>2
<1>7. NothingDue'
  BY <1>2, <1>4, <1>5 DEF NothingDue, DueAt
<1>8. ClockTypeOK'
  <2>1. tick' \in [Timers -> {0, 1}]
    BY <1>2, <1>6
  <2> QED
    BY <1>1, <1>2, <1>3, <1>4, <2>1 DEF ClockTypeOK
<1> QED
  BY <1>3, <1>4, <1>6, <1>7, <1>8

\* So does either clock, a RealClock one timer at a time.
LEMMA ClockMoves ==
    ASSUME ClockInv, ClockNext
    PROVE  /\ ClockInv' /\ now <= now' /\ UNCHANGED fake
           /\ \A t \in Timers : Fires(t) \/ Stays(t)
<1>1. fake \in BOOLEAN /\ now \in 0 .. MaxNow /\ timers \subseteq [ch : Timers, deadline : Int]
      /\ tick \in [Timers -> {0, 1}]
  BY DEF ClockInv, ClockTypeOK
<1>2. /\ ClockTypeOK' /\ NothingDue' /\ now <= now' /\ UNCHANGED fake
      /\ \A t \in Timers : Fires(t) \/ Stays(t)
  <2>1. CASE Advance
    <3>1. now' \in 0 .. MaxNow
      BY <2>1, Advancing DEF ClockTypeOK
    <3>2. now <= now'
      BY <1>1, <2>1, <3>1, Advancing
    <3> QED
      BY <2>1, <3>2, Advancing
  <2>2. CASE TimePasses
    <3>1. ~fake /\ UNCHANGED <<fake, timers, tick>> /\ now' = now + 1 /\ now < MaxNow
      BY <2>2 DEF TimePasses
    <3>2. \A t \in Timers : Registered(t)' = Registered(t)
      BY <3>1 DEF Registered
    <3>3. now' \in 0 .. MaxNow /\ now <= now'
      BY <1>1, <3>1
    <3>4. \A t \in Timers : Stays(t)
      BY <3>1, <3>2 DEF Stays
    <3> QED
      BY <1>1, <3>1, <3>3, <3>4 DEF ClockTypeOK, NothingDue
  <2>3. CASE \E t \in Timers : RuntimeFires(t)
    <3>1. PICK t \in Timers : RuntimeFires(t)
      BY <2>3
    <3>2. PICK r \in DueAt(now) \cap Registered(t) : timers' = timers \ {r}
      BY <3>1 DEF RuntimeFires
    <3>3. /\ ~fake /\ tick[t] = 0 /\ UNCHANGED <<fake, now>>
          /\ tick' = [tick EXCEPT ![t] = 1]
      BY <3>1 DEF RuntimeFires
    <3>4. Registered(t) = {r} /\ r.ch = t /\ r.deadline <= now
      BY <3>2 DEF ClockInv, TimersOnce, Single, DueAt, Registered
    <3>5. Fires(t)
      <4>1. Registered(t)' = {}
        BY <3>2, <3>4 DEF Registered
      <4>2. tick'[t] = 1
        BY <1>1, <3>3
      <4> QED
        BY <3>3, <3>4, <4>1, <4>2 DEF Fires
    <3>6. ASSUME NEW u \in Timers, u # t PROVE Stays(u)
      <4>1. Registered(u)' = Registered(u)
        BY <3>2, <3>4, <3>6 DEF Registered
      <4>2. tick'[u] = tick[u]
        BY <1>1, <3>3, <3>6
      <4> QED
        BY <3>3, <4>1, <4>2 DEF Stays
    <3>7. ClockTypeOK'
      BY <1>1, <3>2, <3>3 DEF ClockTypeOK
    <3>8. NothingDue' /\ now <= now'
      BY <1>1, <3>3 DEF NothingDue
    <3> QED
      BY <3>3, <3>5, <3>6, <3>7, <3>8
  <2> QED
    BY <2>1, <2>2, <2>3 DEF ClockNext
<1>3. TimersOnce'
  <2> SUFFICES ASSUME NEW t \in Timers PROVE Single(t)'
    BY DEF TimersOnce
  <2>1. Single(t)
    BY DEF ClockInv, TimersOnce
  <2>2. CASE Fires(t)
    BY <2>2 DEF Fires, Single
  <2>3. CASE Stays(t)
    BY <2>1, <2>3 DEF Stays, Single
  <2> QED
    BY <1>2, <2>2, <2>3
<1> QED
  BY <1>2, <1>3 DEF ClockInv

-----------------------------------------------------------------------------
(* A stream's own steps.                                                   *)

ProducerTypes ==
    /\ http \in [Producers -> BOOLEAN]
    /\ phase \in [Producers -> HTTPPhases \cup FakePhases]
    /\ at \in [Producers -> Nat] /\ sent \in [Producers -> Nat]
    /\ chan \in [Producers -> Seq(Nat)] /\ \A p \in Producers : Len(chan[p]) <= 1
    /\ body \in [Producers -> BOOLEAN] /\ ctx \in [Producers -> BOOLEAN]
    /\ notice \in [Producers -> BOOLEAN] /\ began \in [Producers -> 0 .. MaxNow]

\* The types are the clock's and the streams'.
LEMMA TypesApart == TypeOK <=> ClockTypeOK /\ ProducerTypes
<1>1. HTTPPhases \cup FakePhases =
        {"unasked", "posting", "badStatus", "refused", "scanning", "sending",
         "begin", "waiting", "between", "ready", "returning", "closing", "closed"}
  BY DEF HTTPPhases, FakePhases
<1> QED
  BY <1>1 DEF TypeOK, ProducerTypes

Promised(p) == IF http[p] THEN HTTPInv(p) ELSE FakeInv(p)

\* Whoever is not touched keeps his place.
LEMMA PromisedFrame ==
    ASSUME NEW q \in Producers, Promised(q), UNCHANGED given,
           phase'[q] = phase[q], at'[q] = at[q], body'[q] = body[q],
           ctx'[q] = ctx[q], sent'[q] = sent[q]
    PROVE  Promised(q)'
BY DEF Promised, HTTPInv, FakeInv, given

\* A step that only takes from a channel, cancels or gives notice.
LEMMA OutsideSteps ==
    ASSUME TypeOK, GivenInv, NEW p \in Producers, Promised(p),
           Take(p) \/ Cancel(p) \/ OnCancel(p)
    PROVE  Promised(p)'
<1>1. UNCHANGED given /\ UNCHANGED <<phase, at, body, sent>>
  BY DEF Take, Cancel, OnCancel
<1>2. ctx[p] => ctx'[p]
  BY DEF Take, Cancel, OnCancel, TypeOK
<1> QED
  BY <1>1, <1>2 DEF Promised, HTTPInv, FakeInv, given

\* The steps of an HTTPBackend.
LEMMA HTTPSteps ==
    ASSUME TypeOK, GivenInv, NEW p \in Producers, http[p], HTTPInv(p), Quiet(p)
    PROVE  HTTPInv(p)'
<1> DEFINE lines == script[p]
           n == at[p]
<1>t. /\ lines \in Seq(Kinds) /\ Len(lines) \in Nat /\ n \in 0 .. Len(lines) /\ n \in Nat
      /\ sent[p] \in Nat /\ phase[p] \in HTTPPhases
      /\ body[p] \in BOOLEAN /\ ctx[p] \in BOOLEAN
      /\ phase \in [Producers -> HTTPPhases \cup FakePhases]
      /\ at \in [Producers -> Nat] /\ sent \in [Producers -> Nat]
      /\ body \in [Producers -> BOOLEAN] /\ ctx \in [Producers -> BOOLEAN]
  BY GivenTypes, TypesApart DEF HTTPInv, ProducerTypes
<1>g. UNCHANGED given /\ lines' = lines
  BY QuietSteps DEF Touches, given
<1>f. ~(phase[p] \in {"begin", "between", "waiting", "ready"})
  BY <1>t DEF HTTPPhases
<1>1. CASE Post(p)
  <2>1. phase[p] = "unasked" /\ phase'[p] = "posting" /\ UNCHANGED <<at, body, ctx, sent>>
    BY <1>1, <1>t DEF Post, Move
  <2> QED
    BY <1>g, <2>1 DEF HTTPInv, HTTPPhases
<1>2. CASE PostErr(p)
  <2>1. phase[p] = "posting" /\ phase'[p] = "refused" /\ UNCHANGED <<at, body, ctx, sent>>
    BY <1>2, <1>t DEF PostErr, Move
  <2> QED
    BY <1>g, <2>1 DEF HTTPInv, HTTPPhases
<1>3. CASE Answer(p)
  <2>1. /\ phase[p] = "posting" /\ phase'[p] \in {"scanning", "badStatus"} /\ body'[p]
        /\ UNCHANGED <<at, ctx, sent>>
    BY <1>3, <1>t DEF Answer
  <2>2. n = 0 /\ sent[p] = 0
    BY <2>1 DEF HTTPInv
  <2>3. NotDone(lines, 0) /\ Cardinality(SaidBy(lines, 0)) = 0
    BY <1>t, SaidEnds DEF NotDone
  <2> QED
    BY <1>g, <1>t, <2>1, <2>2, <2>3 DEF HTTPInv, HTTPPhases, NotDone
<1>4. CASE BadStatus(p)
  <2>1. phase[p] = "badStatus" /\ phase'[p] = "refused" /\ ~body'[p] /\ UNCHANGED <<at, ctx, sent>>
    BY <1>4, <1>t DEF BadStatus, Move
  <2> QED
    BY <1>g, <2>1 DEF HTTPInv, HTTPPhases
<1>5. CASE Scan(p)
  <2>1. /\ phase[p] = "scanning" /\ UNCHANGED <<body, ctx, sent>>
        /\ NotDone(lines, n) /\ sent[p] = Cardinality(SaidBy(lines, n))
    BY <1>5 DEF Scan, HTTPInv, NotDone
  <2>2. CASE (ctx[p] \/ n = Len(lines)) /\ phase'[p] = "returning" /\ UNCHANGED at
    <3>1. ctx[p] \/ sent[p] = Cardinality(Said(lines))
      BY <1>t, <2>1, <2>2, SaidEnds
    <3>2. ctx'[p] = ctx[p] /\ sent'[p] = sent[p] /\ at'[p] = n
      BY <2>1, <2>2
    <3> QED
      BY <1>g, <1>t, <2>1, <2>2, <3>1, <3>2 DEF HTTPInv, HTTPPhases
  <2>3. CASE ~ctx[p] /\ n < Len(lines) /\ phase'[p] = AfterLine(lines[n + 1]) /\ at'[p] = n + 1
    <3>1. n + 1 \in 1 .. Len(lines) /\ n + 1 \in 0 .. Len(lines) /\ n + 1 - 1 = n /\ n + 1 > 0
      BY <1>t, <2>3
    <3>2. lines[n + 1] \in Kinds
      BY <1>t, <3>1
    <3>3. CASE lines[n + 1] = "chunk"
      <4>1. phase'[p] = "sending"
        BY <2>3, <3>3 DEF AfterLine
      <4>2. NotDone(lines, n + 1)
        <5>1. ASSUME NEW m \in 1 .. n + 1 PROVE lines[m] # "done"
          <6>1. m \in 1 .. n \/ m = n + 1
            BY <1>t
          <6> QED
            BY <2>1, <3>3, <6>1 DEF NotDone
        <5> QED
          BY <5>1 DEF NotDone
      <4> QED
        BY <1>g, <2>1, <2>3, <3>1, <3>3, <4>1, <4>2 DEF HTTPInv, HTTPPhases, NotDone
    <3>4. CASE lines[n + 1] = "done"
      <4>1. phase'[p] = "returning"
        BY <2>3, <3>4 DEF AfterLine
      <4>2. sent[p] = Cardinality(Said(lines))
        <5>k. PICK k : k = n + 1
          OBVIOUS
        <5>1. k \in 1 .. Len(lines) /\ k = n + 1 /\ k - 1 = n
          BY <1>t, <3>1, <5>k
        <5>2. SaidBy(lines, k - 1) = Said(lines)
          BY <1>t, <3>4, <5>1, SaidIsOver
        <5> QED
          BY <2>1, <5>1, <5>2
      <4> QED
        BY <1>g, <2>1, <2>3, <3>1, <4>1, <4>2 DEF HTTPInv, HTTPPhases
    <3>5. CASE lines[n + 1] \in {"skip", "malformed"}
      <4>1. phase'[p] = "scanning"
        BY <2>3, <3>5 DEF AfterLine
      <4>2. NotDone(lines, n + 1)
        <5>1. ASSUME NEW m \in 1 .. n + 1 PROVE lines[m] # "done"
          <6>1. m \in 1 .. n \/ m = n + 1
            BY <1>t
          <6> QED
            BY <2>1, <3>5, <6>1 DEF NotDone
        <5> QED
          BY <5>1 DEF NotDone
      <4>3. n + 1 \notin Said(lines)
        BY <3>5 DEF Said
      <4>4. sent[p] = Cardinality(SaidBy(lines, n + 1))
        BY <1>t, <2>1, <3>1, <4>3, SaidOneMore
      <4> QED
        BY <1>g, <2>1, <2>3, <3>1, <4>1, <4>2, <4>4 DEF HTTPInv, HTTPPhases, NotDone
    <3> QED
      BY <3>2, <3>3, <3>4, <3>5 DEF Kinds
  <2> QED
    BY <1>5, <1>t, <2>2, <2>3 DEF Scan
<1>6. CASE Send(p)
  <2>1. /\ phase[p] = "sending" /\ phase'[p] = "scanning" /\ sent'[p] = sent[p] + 1
        /\ UNCHANGED <<at, body, ctx>>
    BY <1>6, <1>t DEF Send, Sending
  <2>2. /\ n > 0 /\ lines[n] = "chunk" /\ NotDone(lines, n)
        /\ sent[p] = Cardinality(SaidBy(lines, n - 1))
    BY <2>1 DEF HTTPInv, NotDone
  <2>3. n \in 1 .. Len(lines) /\ n \in Said(lines)
    BY <1>t, <2>2 DEF Said, NotDone
  <2>4. sent'[p] = Cardinality(SaidBy(lines, n))
    BY <1>t, <2>1, <2>2, <2>3, SaidOneMore
  <2> QED
    BY <1>g, <1>t, <2>1, <2>2, <2>4 DEF HTTPInv, HTTPPhases, NotDone
<1>7. CASE GiveUpSend(p)
  <2>1. /\ ctx[p] /\ phase[p] = "sending" /\ phase'[p] = "returning"
        /\ UNCHANGED <<at, body, ctx, sent>>
    BY <1>7, <1>t DEF GiveUpSend, SendGivesUp, Sending, Leaving
  <2> QED
    BY <1>g, <1>t, <2>1 DEF HTTPInv, HTTPPhases
<1>8. CASE CloseBody(p)
  <2>1. /\ phase[p] = "returning" /\ phase'[p] = "closing" /\ ~body'[p]
        /\ UNCHANGED <<at, ctx, sent>>
    BY <1>8, <1>t DEF CloseBody, Move
  <2> QED
    BY <1>g, <1>t, <2>1 DEF HTTPInv, HTTPPhases
<1>9. CASE CloseChan(p)
  <2>1. /\ phase[p] = "closing" /\ phase'[p] = "closed"
        /\ UNCHANGED <<at, body, ctx, sent>>
    BY <1>9, <1>t DEF CloseChan, Move
  <2> QED
    BY <1>g, <1>t, <2>1 DEF HTTPInv, HTTPPhases
<1>10. CASE Take(p) \/ Cancel(p) \/ OnCancel(p)
  <2>1. Promised(p) /\ http'[p]
    BY <1>g DEF Promised, given
  <2> QED
    BY <1>10, <2>1, OutsideSteps DEF Promised
<1>11. CASE Play(p) \/ NoWait(p) \/ GiveUpWait(p) \/ AllSent(p)
  BY <1>11, <1>f DEF Play, NoWait, GiveUpWait, AllSent, Move
<1> QED
  BY <1>1, <1>2, <1>3, <1>4, <1>5, <1>6, <1>7, <1>8, <1>9, <1>10, <1>11 DEF Quiet

\* The steps of a FakeBackend, its waits among them.
LEMMA FakeSteps ==
    ASSUME TypeOK, GivenInv, NEW p \in Producers, ~http[p], FakeInv(p),
           Quiet(p) \/ Wait(p) \/ WaitOver(p)
    PROVE  FakeInv(p)'
<1> DEFINE s == script[p]
           n == at[p]
           whole == Len(Told(s))
<1>t. /\ s \in Fakes /\ n \in 0 .. whole /\ n \in Nat /\ whole \in Nat /\ sent[p] = n
      /\ phase[p] \in FakePhases /\ ~body[p] /\ ctx[p] \in BOOLEAN
      /\ phase \in [Producers -> HTTPPhases \cup FakePhases]
      /\ at \in [Producers -> Nat] /\ sent \in [Producers -> Nat]
      /\ body \in [Producers -> BOOLEAN] /\ ctx \in [Producers -> BOOLEAN]
  BY GivenTypes, TypesApart, ToldIs DEF FakeInv, ProducerTypes
<1>g. UNCHANGED given /\ s' = s /\ whole' = whole
  BY QuietSteps DEF Touches, given, Wait, WaitOver
<1>f. ~(phase[p] \in {"posting", "badStatus", "scanning", "sending", "returning"})
  BY <1>t DEF FakePhases
<1>h. HasNext(p) <=> n < whole
  <2>1. /\ Limit(s) \in Nat /\ s.emitFinish \in BOOLEAN
        /\ whole = IF ~Truncated(s) /\ s.emitFinish THEN Limit(s) + 1 ELSE Limit(s)
    BY <1>t, ToldIs DEF Fakes
  <2> QED
    BY <1>t, <2>1 DEF HasNext
<1>1. CASE Play(p)
  <2>1. /\ phase[p] = "unasked" /\ phase'[p] \in {"refused", "begin"}
        /\ UNCHANGED <<at, body, ctx, sent>>
    BY <1>1, <1>t DEF Play, Move
  <2> QED
    BY <1>g, <2>1 DEF FakeInv, FakePhases
<1>2. CASE Wait(p) \/ NoWait(p)
  <2>1. /\ phase[p] \in {"begin", "between"} /\ phase'[p] \in {"waiting", "ready"}
        /\ UNCHANGED <<at, body, ctx, sent>>
    BY <1>2, <1>t DEF Wait, NoWait
  <2> QED
    BY <1>g, <2>1 DEF FakeInv, FakePhases
<1>3. CASE WaitOver(p)
  <2>1. phase[p] = "waiting" /\ phase'[p] = "ready" /\ UNCHANGED <<at, body, ctx, sent>>
    BY <1>3, <1>t DEF WaitOver, Move
  <2> QED
    BY <1>g, <2>1 DEF FakeInv, FakePhases
<1>4. CASE GiveUpWait(p)
  <2>1. ctx[p] /\ phase'[p] = "closing" /\ UNCHANGED <<at, body, ctx, sent>>
    BY <1>4, <1>t DEF GiveUpWait, Move, Leaving
  <2> QED
    BY <1>g, <2>1 DEF FakeInv, FakePhases
<1>5. CASE AllSent(p)
  <2>1. ~HasNext(p) /\ phase'[p] = "closing" /\ UNCHANGED <<at, body, ctx, sent>>
    BY <1>5, <1>t DEF AllSent, Move, Leaving
  <2>2. n = whole
    BY <1>h, <1>t, <2>1
  <2> QED
    BY <1>g, <2>1, <2>2 DEF FakeInv, FakePhases
<1>6. CASE Send(p)
  <2>1. /\ phase[p] = "ready" /\ HasNext(p) /\ phase'[p] = "between"
        /\ sent'[p] = sent[p] + 1 /\ at'[p] = n + 1 /\ UNCHANGED <<body, ctx>>
    BY <1>6, <1>t DEF Send, Sending
  <2>2. n + 1 \in 0 .. whole /\ n + 1 > 0
    BY <1>h, <1>t, <2>1
  <2> QED
    BY <1>g, <1>t, <2>1, <2>2 DEF FakeInv, FakePhases
<1>7. CASE GiveUpSend(p)
  <2>1. ctx[p] /\ phase'[p] = "closing" /\ UNCHANGED <<at, body, ctx, sent>>
    BY <1>7, <1>t DEF GiveUpSend, SendGivesUp, Leaving
  <2> QED
    BY <1>g, <2>1 DEF FakeInv, FakePhases
<1>8. CASE CloseChan(p)
  <2>1. phase'[p] = "closed" /\ UNCHANGED <<at, body, ctx, sent>>
    BY <1>8, <1>t DEF CloseChan, Move
  <2> QED
    BY <1>g, <2>1 DEF FakeInv, FakePhases
<1>9. CASE Take(p) \/ Cancel(p) \/ OnCancel(p)
  <2>1. Promised(p) /\ ~http'[p]
    BY <1>g DEF Promised, given
  <2> QED
    BY <1>9, <2>1, OutsideSteps DEF Promised
<1>10. CASE Post(p) \/ PostErr(p) \/ Answer(p) \/ BadStatus(p) \/ Scan(p) \/ CloseBody(p)
  BY <1>10, <1>f DEF Post, PostErr, Answer, BadStatus, Scan, CloseBody, Move
<1> QED
  BY <1>1, <1>2, <1>3, <1>4, <1>5, <1>6, <1>7, <1>8, <1>9, <1>10 DEF Quiet

\* A wait is a fake's; it touches its own stream and its own timer only.
LEMMA WaitSteps ==
    ASSUME TypeOK, GivenInv, ProducerInv, NEW p \in Producers, Wait(p) \/ WaitOver(p)
    PROVE  /\ ~http[p] /\ FakeInv(p) /\ Touches(p)
           /\ UNCHANGED <<at, chan, body, ctx, notice, sent, began>>
           /\ phase' \in [Producers -> HTTPPhases \cup FakePhases]
           /\ Wait(p) => phase[p] \in {"begin", "between"} /\ phase'[p] = "waiting"
           /\ WaitOver(p) => phase[p] = "waiting" /\ phase'[p] = "ready"
<1>1. phase \in [Producers -> HTTPPhases \cup FakePhases]
  BY TypesApart DEF ProducerTypes
<1>2. phase[p] \in {"begin", "between", "waiting"}
  BY DEF Wait, WaitOver, Move
<1>3. ~http[p]
  BY <1>2 DEF ProducerInv, HTTPInv, HTTPPhases
<1>4. {"waiting", "ready"} \subseteq FakePhases
  BY DEF FakePhases
<1> QED
  BY <1>1, <1>3, <1>4 DEF ProducerInv, Wait, WaitOver, Move, Touches, given

\* Every step keeps every stream in its place.
LEMMA ProducerStep ==
    ASSUME TypeOK, GivenInv, ProducerInv, [Next]_vars
    PROVE  ProducerInv'
<1> SUFFICES ASSUME NEW q \in Producers PROVE Promised(q)'
  BY DEF ProducerInv, Promised
<1>1. Promised(q) /\ UNCHANGED given
  BY GivenFrame DEF ProducerInv, Promised
<1>2. ASSUME NEW p \in Producers, Quiet(p) \/ Wait(p) \/ WaitOver(p)
      PROVE  Promised(q)'
  <2>1. Touches(p)
    BY <1>2, QuietSteps, WaitSteps
  <2>2. CASE q # p
    BY <1>1, <2>1, <2>2, PromisedFrame DEF Touches
  <2>3. CASE q = p /\ http[p]
    <3>1. Quiet(p)
      BY <1>2, <2>3, WaitSteps
    <3>2. HTTPInv(p)'
      BY <1>1, <2>3, <3>1, HTTPSteps DEF Promised
    <3> QED
      BY <1>1, <2>3, <3>2 DEF Promised, given
  <2>4. CASE q = p /\ ~http[p]
    <3>1. FakeInv(p)'
      BY <1>1, <1>2, <2>4, FakeSteps DEF Promised
    <3> QED
      BY <1>1, <2>4, <3>1 DEF Promised, given
  <2> QED
    BY <2>2, <2>3, <2>4
<1>3. CASE (\E t \in Owners : Rearm(t)) \/ Clock \/ UNCHANGED vars
  <2>1. UNCHANGED <<given, phase, at, body, ctx, sent>>
    BY <1>3 DEF Rearm, Clock, vars, given
  <2> QED
    BY <1>1, <2>1, PromisedFrame
<1> QED
  BY <1>2, <1>3, Steps

-----------------------------------------------------------------------------
(* Types, timers and times.                                                *)

\* What is waited for is one of the durations.
LEMMA DelayType ==
    ASSUME NEW p \in Producers, script[p] \in Fakes
    PROVE  /\ Delay(p) \in Int
           /\ Delay(p) > 0 => Delay(p) \in Durations
<1>1. script[p].first \in Durations /\ script[p].inter \in Durations
  BY DEF Fakes
<1> QED
  BY <1>1 DEF Delay

\* Where a fake's own timer is idle.
AtRest == {"unasked", "begin", "between", "ready"}

\* What a step makes of the clock, and of the timers of the streams.
LEMMA ClockStep ==
    ASSUME BackendInv, [Next]_vars
    PROVE  ClockInv' /\ now <= now'
<1>1. ClockInv /\ now \in Int
  BY DEF BackendInv, TypeOK, TimerInv, ClockInv, TimersOnce, NothingDue, ClockTypeOK
<1>2. ASSUME UNCHANGED clockVars PROVE ClockInv' /\ now <= now'
  BY <1>1, <1>2 DEF clockVars, ClockInv, ClockTypeOK, TimersOnce, NothingDue, Single, Registered
<1>3. ASSUME NEW p \in Producers, Wait(p) PROVE ClockInv' /\ now <= now'
  <2>1. ~http[p] /\ phase[p] \in AtRest
    BY <1>3, WaitSteps DEF BackendInv, AtRest
  <2>2. Idles(p) /\ p \in Timers
    BY <2>1 DEF BackendInv, TimerInv, Idles, AtRest
  <2>3. script[p] \in Fakes
    BY <2>1, GivenTypes DEF BackendInv
  <2>4. After(p, Delay(p)) /\ Delay(p) \in Int
    BY <1>3, <2>3, DelayType DEF Wait
  <2>5. PICK d \in Int : d = Delay(p)
    BY <2>4
  <2>6. Reset(p, d)
    BY <1>1, <2>2, <2>4, <2>5, AfterIsReset
  <2> QED
    BY <1>1, <2>2, <2>6, Arming
<1>4. ASSUME NEW p \in Producers, WaitOver(p) PROVE ClockInv' /\ now <= now'
  BY <1>1, <1>4, Disarming DEF WaitOver
<1>5. ASSUME NEW t \in Owners, Rearm(t) PROVE ClockInv' /\ now <= now'
  <2>1. t \in Timers /\ Rearms \subseteq Int
    BY DEF Owners
  <2>2. CASE \E d \in Rearms : Reset(t, d)
    BY <1>1, <2>1, <2>2, Arming
  <2>3. CASE Stop(t) \/ Receive(t)
    BY <1>1, <2>1, <2>3, Disarming
  <2> QED
    BY <1>5, <2>2, <2>3 DEF Rearm
<1>6. CASE Clock
  BY <1>1, <1>6, ClockMoves DEF Clock
<1>7. ASSUME NEW p \in Producers, Quiet(p) PROVE ClockInv' /\ now <= now'
  BY <1>2, <1>7, QuietSteps DEF BackendInv
<1>8. CASE UNCHANGED vars
  BY <1>2, <1>8 DEF vars
<1> QED
  BY <1>3, <1>4, <1>5, <1>6, <1>7, <1>8, Steps

\* A stream's timer while others step: it stays, or it fires.
Kept(p) == Registered(p)' = Registered(p) /\ tick'[p] = tick[p]

\* A fake's timer changes by its own waits and by the clock only.
LEMMA OthersTimer ==
    ASSUME BackendInv, [Next]_vars, NEW q \in Producers
    PROVE  \/ Kept(q)
           \/ Clock /\ Fires(q)
           \/ Wait(q) \/ WaitOver(q)
<1>1. ClockInv
  BY DEF BackendInv, TypeOK, TimerInv, ClockInv, TimersOnce, NothingDue
<1>q. q \in Timers /\ q \notin Owners
  BY DEF Owners
<1>2. ASSUME UNCHANGED clockVars PROVE Kept(q)
  BY <1>2 DEF clockVars, Kept, Registered
<1>3. ASSUME NEW p \in Producers, Wait(p), p # q PROVE Kept(q)
  <2>1. ~http[p] /\ phase[p] \in AtRest
    BY <1>3, WaitSteps DEF BackendInv, AtRest
  <2>2. Idles(p) /\ p \in Timers
    BY <2>1 DEF BackendInv, TimerInv, Idles, AtRest
  <2>3. script[p] \in Fakes
    BY <2>1, GivenTypes DEF BackendInv
  <2>4. After(p, Delay(p)) /\ Delay(p) \in Int
    BY <1>3, <2>3, DelayType DEF Wait
  <2>5. PICK d \in Int : d = Delay(p)
    BY <2>4
  <2>6. Reset(p, d)
    BY <1>1, <2>2, <2>4, <2>5, AfterIsReset
  <2>7. OthersKeep(p)
    BY <1>1, <2>2, <2>6, Arming
  <2> QED
    BY <1>3, <1>q, <2>7 DEF OthersKeep, Kept
<1>4. ASSUME NEW p \in Producers, WaitOver(p), p # q PROVE Kept(q)
  <2>1. Receive(p) /\ p \in Timers
    BY <1>4 DEF WaitOver
  <2>2. OthersKeep(p)
    BY <1>1, <2>1, Disarming
  <2> QED
    BY <1>4, <1>q, <2>2 DEF OthersKeep, Kept
<1>5. ASSUME NEW t \in Owners, Rearm(t) PROVE Kept(q)
  <2>1. t \in Timers /\ Rearms \subseteq Int /\ q # t
    BY <1>q DEF Owners
  <2>2. OthersKeep(t)
    <3>1. CASE \E d \in Rearms : Reset(t, d)
      BY <1>1, <2>1, <3>1, Arming
    <3>2. CASE Stop(t) \/ Receive(t)
      BY <1>1, <2>1, <3>2, Disarming
    <3> QED
      BY <1>5, <3>1, <3>2 DEF Rearm
  <2> QED
    BY <1>q, <2>1, <2>2 DEF OthersKeep, Kept
<1>6. CASE Clock
  <2>1. Fires(q) \/ Stays(q)
    BY <1>1, <1>6, <1>q, ClockMoves DEF Clock
  <2> QED
    BY <1>6, <2>1 DEF Stays, Kept
<1>7. ASSUME NEW p \in Producers, Quiet(p) PROVE Kept(q)
  BY <1>2, <1>7, QuietSteps DEF BackendInv
<1>8. CASE UNCHANGED vars
  BY <1>2, <1>8 DEF vars
<1> QED
  BY <1>3, <1>4, <1>5, <1>6, <1>7, <1>8, Steps

\* A quiet step brings no fake to rest that was not.
LEMMA QuietRests ==
    ASSUME TypeOK, ProducerInv, NEW p \in Producers, Quiet(p), ~http[p], phase'[p] \in AtRest
    PROVE  phase[p] \in AtRest
<1>1. phase[p] \in FakePhases /\ phase \in [Producers -> HTTPPhases \cup FakePhases]
  BY TypesApart DEF ProducerInv, FakeInv, ProducerTypes
<1>2. CASE Post(p) \/ PostErr(p) \/ Answer(p) \/ BadStatus(p) \/ Scan(p) \/ CloseBody(p)
  BY <1>1, <1>2 DEF Post, PostErr, Answer, BadStatus, Scan, CloseBody, Move, FakePhases
<1>3. CASE Play(p) \/ NoWait(p) \/ GiveUpWait(p) \/ AllSent(p) \/ CloseChan(p)
  BY <1>1, <1>3 DEF Play, NoWait, GiveUpWait, AllSent, CloseChan, Move, AtRest, Leaving
<1>4. CASE OnCancel(p) \/ Take(p) \/ Cancel(p)
  BY <1>4 DEF OnCancel, Take, Cancel
<1>5. CASE Send(p) \/ GiveUpSend(p)
  BY <1>1, <1>5 DEF Send, GiveUpSend, SendGivesUp, Sending, AtRest
<1> QED
  BY <1>2, <1>3, <1>4, <1>5 DEF Quiet

\* A stream at rest has no timer running, and none left unread.
LEMMA TimerStep ==
    ASSUME BackendInv, [Next]_vars
    PROVE  TimerInv'
<1>1. ClockInv'
  BY ClockStep
<1>2. ASSUME NEW q \in Producers, (http[q] \/ phase[q] \in AtRest)'
      PROVE  Idles(q)'
  <2>t. TypeOK /\ GivenInv /\ ProducerInv
    BY DEF BackendInv
  <2>g. http'[q] = http[q]
    BY <2>t, GivenFrame DEF given
  <2>1. CASE http[q] \/ phase[q] \in AtRest
    <3>1. Idles(q)
      BY <2>1 DEF BackendInv, TimerInv, Idles, AtRest
    <3>2. ~Fires(q)
      BY <3>1 DEF Fires, Idles
    <3>3. ~Wait(q)
      <4>1. Wait(q) => ~http[q] /\ phase'[q] = "waiting"
        BY <2>t, WaitSteps
      <4> QED
        BY <1>2, <2>g, <4>1 DEF AtRest
    <3>4. ~WaitOver(q)
      <4>1. WaitOver(q) => ~http[q] /\ phase[q] = "waiting"
        BY <2>t, WaitSteps
      <4> QED
        BY <2>1, <4>1 DEF AtRest
    <3>5. Kept(q)
      BY <3>2, <3>3, <3>4, OthersTimer
    <3> QED
      BY <3>1, <3>5 DEF Kept, Idles
  <2>2. CASE ~http[q] /\ phase[q] \notin AtRest
    <3>1. phase'[q] \in AtRest
      BY <1>2, <2>2, <2>g
    <3>2. WaitOver(q)
      <4>1. \A p \in Producers : (Quiet(p) \/ Wait(p) \/ WaitOver(p)) /\ p # q =>
              phase'[q] = phase[q]
        BY <2>t, QuietSteps, WaitSteps DEF Touches
      <4>2. ~Quiet(q)
        BY <2>t, <2>2, <3>1, QuietRests
      <4>3. ~Wait(q)
        BY <2>t, <3>1, WaitSteps DEF AtRest
      <4>4. ((\E t \in Owners : Rearm(t)) \/ Clock \/ UNCHANGED vars) => phase'[q] = phase[q]
        BY DEF Rearm, Clock, vars
      <4> QED
        BY <2>2, <3>1, <4>1, <4>2, <4>3, <4>4, Steps
    <3>3. ClockInv /\ Receive(q) /\ q \in Timers
      BY <3>2 DEF WaitOver, BackendInv, TypeOK, TimerInv, ClockInv, TimersOnce, NothingDue
    <3> QED
      BY <3>3, Disarming
  <2> QED
    BY <2>1, <2>2
<1> QED
  BY <1>1, <1>2 DEF ClockInv, TimersOnce, NothingDue, TimerInv, Idles, AtRest

\* Every step keeps the types.
LEMMA TypeStep ==
    ASSUME BackendInv, [Next]_vars
    PROVE  TypeOK'
<1>1. ClockTypeOK' /\ now \in 0 .. MaxNow
  BY ClockStep DEF ClockInv, BackendInv, TypeOK, ClockTypeOK
<1>t. TypeOK /\ GivenInv /\ ProducerInv /\ ProducerTypes
  BY TypesApart DEF BackendInv
<1>2. ASSUME NEW p \in Producers, Quiet(p) PROVE ProducerTypes'
  <2>t. /\ http \in [Producers -> BOOLEAN]
        /\ phase \in [Producers -> HTTPPhases \cup FakePhases]
        /\ at \in [Producers -> Nat] /\ sent \in [Producers -> Nat]
        /\ chan \in [Producers -> Seq(Nat)] /\ (\A q \in Producers : Len(chan[q]) <= 1)
        /\ body \in [Producers -> BOOLEAN] /\ ctx \in [Producers -> BOOLEAN]
        /\ notice \in [Producers -> BOOLEAN] /\ began \in [Producers -> 0 .. MaxNow]
    BY <1>t DEF ProducerTypes
  <2>p. {"posting", "refused", "scanning", "badStatus", "begin", "ready", "closing",
         "returning", "closed", "between", "sending"} \subseteq HTTPPhases \cup FakePhases
    BY DEF HTTPPhases, FakePhases
  <2>1. CASE Post(p) \/ Play(p)
    <3>1. phase' \in [Producers -> HTTPPhases \cup FakePhases]
      BY <2>t, <2>p, <2>1, ZenonT(30) DEF Post, Play, Move
    <3>2. began' \in [Producers -> 0 .. MaxNow]
      BY <1>1, <2>t, <2>1 DEF Post, Play
    <3>3. UNCHANGED <<http, at, chan, body, ctx, notice, sent>>
      BY <2>1 DEF Post, Play, given
    <3> QED
      BY <2>t, <3>1, <3>2, <3>3 DEF ProducerTypes
  <2>8. CASE PostErr(p)
    BY <2>t, <2>p, <2>8 DEF PostErr, Move, given, ProducerTypes
  <2>2. CASE Answer(p) \/ BadStatus(p) \/ CloseBody(p)
    <3>1. phase' \in [Producers -> HTTPPhases \cup FakePhases]
      <4>1. CASE Answer(p)
        BY <2>t, <2>p, <4>1 DEF Answer
      <4>2. CASE BadStatus(p) \/ CloseBody(p)
        BY <2>t, <2>p, <4>2 DEF BadStatus, CloseBody, Move
      <4> QED
        BY <2>2, <4>1, <4>2
    <3>2. body' \in [Producers -> BOOLEAN]
      BY <2>t, <2>2 DEF Answer, BadStatus, CloseBody
    <3>3. UNCHANGED <<http, at, chan, ctx, notice, sent, began>>
      BY <2>2 DEF Answer, BadStatus, CloseBody, given
    <3> QED
      BY <2>t, <3>1, <3>2, <3>3 DEF ProducerTypes
  <2>3. CASE NoWait(p) \/ GiveUpWait(p) \/ AllSent(p) \/ GiveUpSend(p) \/ CloseChan(p)
    <3>1. Leaving(p) \in {"returning", "closing"}
      BY DEF Leaving
    <3>2. /\ \E to \in {"ready", "returning", "closing", "closed"} :
               phase' = [phase EXCEPT ![p] = to]
          /\ UNCHANGED <<http, at, chan, body, ctx, notice, sent, began>>
      BY <2>3, <3>1 DEF NoWait, GiveUpWait, AllSent, GiveUpSend, CloseChan, Move, given
    <3>3. phase' \in [Producers -> HTTPPhases \cup FakePhases]
      BY <2>t, <2>p, <3>2
    <3> QED
      BY <2>t, <3>2, <3>3 DEF ProducerTypes
  <2>4. CASE OnCancel(p) \/ Cancel(p)
    BY <2>t, <2>4 DEF OnCancel, Cancel, given, ProducerTypes
  <2>5. CASE Scan(p)
    <3>1. \A kind : AfterLine(kind) \in HTTPPhases \cup FakePhases
      BY <2>p DEF AfterLine
    <3>2. /\ \/ phase' = [phase EXCEPT ![p] = "returning"]
             \/ phase' = [phase EXCEPT ![p] = AfterLine(script[p][at[p] + 1])]
          /\ at' = at \/ at' = [at EXCEPT ![p] = at[p] + 1]
      BY <2>5 DEF Scan
    <3>5. phase' \in [Producers -> HTTPPhases \cup FakePhases]
      <4>1. PICK to \in HTTPPhases \cup FakePhases : phase' = [phase EXCEPT ![p] = to]
        BY <2>p, <3>1, <3>2
      <4> QED
        BY <2>t, <4>1
    <3>3. at' \in [Producers -> Nat]
      <4>1. at[p] + 1 \in Nat
        BY <2>t
      <4> QED
        BY <2>t, <3>2, <4>1
    <3>4. UNCHANGED <<http, chan, body, ctx, notice, sent, began>>
      BY <2>5 DEF Scan, given
    <3> QED
      BY <2>t, <3>3, <3>4, <3>5 DEF ProducerTypes
  <2>6. CASE Take(p)
    <3>1. chan[p] \in Seq(Nat) /\ chan[p] # <<>> /\ Len(chan[p]) <= 1
      BY <2>t, <2>6 DEF Take
    <3>2. Tail(chan[p]) \in Seq(Nat) /\ Len(Tail(chan[p])) <= 1
      BY <3>1
    <3>3. chan' = [chan EXCEPT ![p] = Tail(chan[p])]
      BY <2>6 DEF Take
    <3>4. chan' \in [Producers -> Seq(Nat)] /\ \A q \in Producers : Len(chan'[q]) <= 1
      BY <2>t, <3>2, <3>3
    <3> QED
      BY <2>t, <2>6, <3>4 DEF Take, given, ProducerTypes
  <2>7. CASE Send(p)
    <3>1. Chunk(p) \in Nat
      BY <2>t DEF Chunk
    <3>2. chan' = [chan EXCEPT ![p] = <<Chunk(p)>>]
      BY <2>7 DEF Send, Room
    <3>3. <<Chunk(p)>> \in Seq(Nat) /\ Len(<<Chunk(p)>>) <= 1
      BY <3>1
    <3>4. chan' \in [Producers -> Seq(Nat)] /\ \A q \in Producers : Len(chan'[q]) <= 1
      BY <2>t, <3>2, <3>3
    <3> QED
      BY <2>t, <2>p, <2>7, <3>4 DEF Send, given, ProducerTypes
  <2> QED
    BY <1>2, <2>1, <2>2, <2>3, <2>4, <2>5, <2>6, <2>7, <2>8 DEF Quiet
<1>3. ASSUME NEW p \in Producers, Wait(p) \/ WaitOver(p) PROVE ProducerTypes'
  <2>1. /\ UNCHANGED <<at, chan, body, ctx, notice, sent, began>> /\ UNCHANGED http
        /\ phase' \in [Producers -> HTTPPhases \cup FakePhases]
    BY <1>t, <1>3, WaitSteps DEF Touches, given
  <2> QED
    BY <1>t, <2>1 DEF ProducerTypes
<1>4. ASSUME (\E t \in Owners : Rearm(t)) \/ Clock \/ UNCHANGED vars PROVE ProducerTypes'
  <2>1. UNCHANGED <<http, phase, at, chan, body, ctx, notice, sent, began>>
    BY <1>4 DEF Rearm, Clock, vars, given
  <2> QED
    BY <1>t, <2>1 DEF ProducerTypes
<1>5. ProducerTypes'
  <2>1. CASE \E p \in Producers : Quiet(p)
    BY <1>2, <2>1
  <2>2. CASE \E p \in Producers : Wait(p) \/ WaitOver(p)
    BY <1>3, <2>2
  <2> QED
    BY <1>4, <2>1, <2>2, Steps
<1>6. HTTPPhases \cup FakePhases =
        {"unasked", "posting", "badStatus", "refused", "scanning", "sending",
         "begin", "waiting", "between", "ready", "returning", "closing", "closed"}
  BY DEF HTTPPhases, FakePhases
<1> QED
  BY <1>1, <1>5, <1>6 DEF TypeOK, ProducerTypes

\* One delay more.
LEMMA OneMoreDelay ==
    ASSUME NEW n \in Int, NEW i \in Int
    PROVE  n * i = (n - 1) * i + i /\ 0 * i = 0
OBVIOUS

\* A stream that is not touched, on a clock that only moves forward.
LEMMA TimeFrame ==
    ASSUME BackendInv, NEW q \in Producers, FakeTimeInv(q), ~http[q], UNCHANGED given,
           phase'[q] = phase[q], at'[q] = at[q], began'[q] = began[q],
           now' \in Int, now <= now', Kept(q) \/ Fires(q)
    PROVE  FakeTimeInv(q)'
<1>t. /\ now \in Int /\ began[q] \in Int /\ at[q] \in Nat
      /\ script[q] \in Fakes
      /\ script[q].first \in Int /\ script[q].inter \in Int /\ Limit(script[q]) \in Nat
      /\ \A r \in Registered(q) : r.deadline \in Int
  <2>1. script[q] \in Fakes
    BY GivenTypes DEF BackendInv
  <2>2. script[q].first \in Int /\ script[q].inter \in Int
    BY <2>1 DEF Fakes
  <2>3. now \in Int /\ \A r \in Registered(q) : r.deadline \in Int
    BY DEF BackendInv, TypeOK, ClockTypeOK, Registered
  <2>4. began[q] \in Int /\ at[q] \in Nat
    BY DEF BackendInv, TypeOK
  <2> QED
    BY <2>1, <2>2, <2>3, <2>4, ToldIs
<1>g. script'[q] = script[q]
  BY DEF given
<1>1. Due(q)' = Due(q) /\ Due(q) \in Int
  BY <1>g, <1>t DEF Due
<1>2. ASSUME phase[q] = "waiting"
      PROVE  /\ \A r \in Registered(q)' : r.deadline >= Due(q)
             /\ tick'[q] > 0 => now' >= Due(q)
  <2>1. /\ \A r \in Registered(q) : r.deadline >= Due(q)
        /\ tick[q] > 0 => now >= Due(q)
    BY <1>2 DEF FakeTimeInv
  <2>2. CASE Kept(q)
    BY <1>t, <1>1, <2>1, <2>2 DEF Kept
  <2>3. CASE Fires(q)
    <3>1. PICK r \in Registered(q) : r.deadline <= now'
      BY <2>3 DEF Fires
    <3>2. now' >= Due(q)
      BY <1>t, <1>1, <2>1, <3>1
    <3> QED
      BY <2>3, <3>2 DEF Fires
  <2> QED
    BY <2>2, <2>3
<1>3. phase[q] = "ready" /\ at[q] < Limit(script[q]) => now' >= Due(q)
  BY <1>t, <1>1 DEF FakeTimeInv
<1>4. ASSUME NEW n \in 1 .. at[q], n <= Limit(script[q])
      PROVE  now' >= began[q] + script[q].first + (n - 1) * script[q].inter
  <2> DEFINE soon == began[q] + script[q].first + (n - 1) * script[q].inter
  <2>1. now >= soon
    BY <1>4 DEF FakeTimeInv
  <2>2. soon \in Int
    BY <1>t
  <2> HIDE DEF soon
  <2>3. now' >= soon
    BY <1>t, <2>1, <2>2
  <2> QED
    BY <2>3 DEF soon
<1>5. began[q] <= now'
  BY <1>t DEF FakeTimeInv
<1> QED
  BY <1>g, <1>1, <1>2, <1>3, <1>4, <1>5 DEF FakeTimeInv

\* Every step keeps the times: a token is due after its delay, and no token was
\* sent that was not due.
LEMMA TimeStep ==
    ASSUME BackendInv, [Next]_vars
    PROVE  TimeInv'
<1>t. TypeOK /\ GivenInv /\ ProducerInv /\ ProducerTypes
  BY TypesApart DEF BackendInv
<1>g. UNCHANGED given
  BY <1>t, GivenFrame
<1>n. now \in Int /\ now' \in Int /\ now <= now'
  BY ClockStep, <1>t DEF ClockInv, TypeOK, ClockTypeOK
<1> SUFFICES ASSUME NEW q \in Producers, ~http[q] PROVE FakeTimeInv(q)'
  BY <1>g DEF TimeInv, given
<1>1. FakeTimeInv(q) /\ FakeInv(q)
  BY <1>t DEF BackendInv, TimeInv, ProducerInv
<1> DEFINE s == script[q]
           n == at[q]
<1>s. /\ began[q] \in Int /\ n \in Nat /\ s \in Fakes
      /\ s.first \in Int /\ s.inter \in Int /\ Limit(s) \in Nat
      /\ phase \in [Producers -> HTTPPhases \cup FakePhases] /\ phase[q] \in FakePhases
      /\ at \in [Producers -> Nat] /\ began \in [Producers -> 0 .. MaxNow]
  <2>1. s \in Fakes
    BY <1>t, GivenTypes
  <2>2. s.first \in Int /\ s.inter \in Int
    BY <2>1 DEF Fakes
  <2>3. began[q] \in Int /\ n \in Nat
    BY <1>t DEF TypeOK
  <2> QED
    BY <1>t, <1>1, <2>1, <2>2, <2>3, ToldIs DEF ProducerTypes, FakeInv
<1>h. s' = s
  BY <1>g DEF given
\* The step is another's, or the clock's.
<1>2. CASE /\ phase'[q] = phase[q] /\ at'[q] = at[q] /\ began'[q] = began[q]
           /\ ~Wait(q) /\ ~WaitOver(q)
  <2>1. Kept(q) \/ Fires(q)
    BY <1>2, OthersTimer
  <2> QED
    BY <1>1, <1>2, <1>g, <1>n, <2>1, TimeFrame
\* What was sent so far was sent in time.
<1>3. ASSUME began'[q] = began[q], at'[q] = at[q]
      PROVE  /\ (began[q] <= now)'
             /\ (\A k \in 1 .. at[q] : k <= Limit(script[q]) =>
                   now >= began[q] + script[q].first + (k - 1) * script[q].inter)'
  <2>1. began[q] <= now'
    BY <1>1, <1>n, <1>s DEF FakeTimeInv
  <2>2. ASSUME NEW k \in 1 .. n, k <= Limit(s)
        PROVE  now' >= began[q] + s.first + (k - 1) * s.inter
    <3> DEFINE soon == began[q] + s.first + (k - 1) * s.inter
    <3>1. now >= soon
      BY <1>1, <2>2 DEF FakeTimeInv
    <3>2. soon \in Int
      BY <1>s
    <3> HIDE DEF soon
    <3>3. now' >= soon
      BY <1>n, <3>1, <3>2
    <3> QED
      BY <3>3 DEF soon
  <2> QED
    BY <1>3, <1>h, <2>1, <2>2
\* A stream that is neither waiting nor ready has nothing to be late for.
<1>4. ASSUME began'[q] = began[q], at'[q] = at[q], phase'[q] \notin {"waiting", "ready"}
      PROVE  FakeTimeInv(q)'
  BY <1>3, <1>4 DEF FakeTimeInv
<1>5. CASE Play(q)
  <2>1. /\ phase[q] = "unasked" /\ phase'[q] \in {"refused", "begin"}
        /\ began'[q] = now /\ now' = now /\ at'[q] = n
    BY <1>5, <1>s DEF Play, Move, clockVars
  <2>2. n = 0
    BY <1>1, <2>1 DEF FakeInv
  <2>3. ~(\E k \in 1 .. at'[q] : TRUE)
    BY <2>1, <2>2
  <2>4. began'[q] <= now'
    BY <1>n, <2>1
  <2> QED
    BY <2>1, <2>3, <2>4 DEF FakeTimeInv
<1>6. ASSUME phase[q] \in {"begin", "between"}
      PROVE  /\ Delay(q) \in Int
             /\ phase[q] = "begin" \/ n < Limit(s) => Due(q) <= now + Delay(q)
             /\ ~(phase[q] = "begin" \/ n < Limit(s)) => Delay(q) = 0
  <2>1. CASE phase[q] = "begin"
    <3>1. n = 0 /\ Delay(q) = s.first
      BY <1>1, <2>1 DEF FakeInv, Delay
    <3>2. Due(q) = began[q] + s.first
      BY <1>s, <3>1 DEF Due
    <3>3. began[q] <= now
      BY <1>1 DEF FakeTimeInv
    <3> QED
      BY <1>n, <1>s, <2>1, <3>1, <3>2, <3>3
  <2>2. CASE phase[q] = "between" /\ n < Limit(s)
    <3>1. n > 0 /\ Delay(q) = s.inter
      BY <1>1, <2>2 DEF FakeInv, Delay
    <3>2. n \in 1 .. at[q] /\ n <= Limit(s)
      BY <1>s, <2>2, <3>1
    <3>3. now >= began[q] + s.first + (n - 1) * s.inter
      BY <1>1, <3>2 DEF FakeTimeInv
    <3>4. n * s.inter = (n - 1) * s.inter + s.inter
      <4>1. PICK k \in Int, i \in Int : k = n /\ i = s.inter
        BY <1>s
      <4>2. k * i = (k - 1) * i + i
        BY OneMoreDelay
      <4> QED
        BY <4>1, <4>2
    <3>5. (n - 1) * s.inter \in Int
      BY <1>s
    <3>6. Due(q) = began[q] + s.first + n * s.inter
      BY DEF Due
    <3>7. Due(q) <= now + s.inter
      <4> DEFINE a == (n - 1) * s.inter
      <4>1. Due(q) = began[q] + s.first + (a + s.inter) /\ now >= began[q] + s.first + a
        BY <3>3, <3>4, <3>6
      <4>2. a \in Int
        BY <3>5
      <4> HIDE DEF a
      <4>3. now \in Int /\ began[q] \in Int /\ s.first \in Int /\ s.inter \in Int
        BY <1>n, <1>s
      <4> QED
        BY <4>1, <4>2, <4>3
    <3> QED
      BY <1>s, <2>2, <3>1, <3>7
  <2>3. CASE phase[q] = "between" /\ ~(n < Limit(s))
    BY <2>3 DEF Delay
  <2> QED
    BY <1>6, <2>1, <2>2, <2>3
<1>d. Due(q) \in Int
  BY <1>s DEF Due
<1>7. CASE NoWait(q)
  <2>1. /\ phase[q] \in {"begin", "between"} /\ Delay(q) <= 0 /\ phase'[q] = "ready"
        /\ began'[q] = began[q] /\ at'[q] = n /\ now' = now
    BY <1>7, <1>s DEF NoWait, clockVars
  <2>2. n < Limit(s) => Due(q) <= now
    BY <1>6, <1>d, <1>n, <2>1
  <2>3. Due(q)' = Due(q)
    BY <1>h, <2>1 DEF Due
  <2>4. (phase[q] = "ready" /\ at[q] < Limit(script[q]) => now >= Due(q))'
    BY <1>d, <1>h, <1>n, <2>1, <2>2, <2>3
  <2> QED
    BY <1>3, <2>1, <2>4 DEF FakeTimeInv
<1>8. CASE Wait(q)
  <2>1. /\ phase[q] \in {"begin", "between"} /\ Delay(q) > 0 /\ phase'[q] = "waiting"
        /\ began'[q] = began[q] /\ at'[q] = n
    BY <1>8, <1>s DEF Wait
  <2>2. Idles(q) /\ q \in Timers /\ ClockInv
    BY <2>1 DEF BackendInv, TypeOK, TimerInv, Idles, ClockInv, TimersOnce, NothingDue
  <2>3. PICK d \in Int : d = Delay(q)
    BY <1>6, <2>1
  <2>4. Reset(q, d)
    BY <1>8, <2>2, <2>3, AfterIsReset DEF Wait
  <2>5. ~Immediate(d)
    BY <2>1, <2>3 DEF Immediate
  <2>6. Registered(q)' = {Registration(q, d)} /\ tick'[q] = 0
    BY <2>2, <2>4, <2>5, Arming
  <2>7. Due(q) <= now + d
    BY <1>6, <2>1, <2>3
  <2>8. Due(q)' = Due(q)
    BY <1>h, <2>1 DEF Due
  <2>9. (\A r \in Registered(q) : r.deadline >= Due(q))' /\ ~(tick[q] > 0)'
    <3>1. Registration(q, d).deadline = now + d
      BY DEF Registration
    <3> QED
      BY <1>d, <1>n, <2>6, <2>7, <2>8, <3>1
  <2> QED
    BY <1>3, <2>1, <2>9 DEF FakeTimeInv
<1>9. CASE WaitOver(q)
  <2>1. /\ phase[q] = "waiting" /\ phase'[q] = "ready" /\ tick[q] > 0
        /\ began'[q] = began[q] /\ at'[q] = n /\ now' = now
    BY <1>9, <1>s DEF WaitOver, Move, Receive
  <2>2. Due(q) <= now
    BY <1>1, <1>d, <1>n, <2>1 DEF FakeTimeInv
  <2>3. Due(q)' = Due(q)
    BY <1>h, <2>1 DEF Due
  <2>4. (phase[q] = "ready" /\ at[q] < Limit(script[q]) => now >= Due(q))'
    BY <1>d, <1>h, <1>n, <2>1, <2>2, <2>3
  <2> QED
    BY <1>3, <2>1, <2>4 DEF FakeTimeInv
<1>10. CASE Send(q)
  <2>1. /\ phase[q] = "ready" /\ phase'[q] = "between"
        /\ began'[q] = began[q] /\ at'[q] = n + 1 /\ now' = now
    BY <1>10, <1>s DEF Send, Sending, clockVars
  <2>2. ASSUME NEW k \in 1 .. n + 1, k <= Limit(s)
        PROVE  now >= began[q] + s.first + (k - 1) * s.inter
    <3>1. CASE k \in 1 .. n
      BY <1>1, <2>2, <3>1 DEF FakeTimeInv
    <3>2. CASE k = n + 1
      <4>1. n < Limit(s)
        BY <1>s, <2>2, <3>2
      <4>2. now >= Due(q)
        BY <1>1, <2>1, <4>1 DEF FakeTimeInv
      <4>3. k - 1 = n
        BY <1>s, <3>2
      <4> QED
        BY <4>2, <4>3 DEF Due
    <3> QED
      BY <1>s, <3>1, <3>2
  <2>3. began'[q] <= now'
    BY <1>1, <2>1 DEF FakeTimeInv
  <2>4. (\A k \in 1 .. at[q] : k <= Limit(script[q]) =>
           now >= began[q] + script[q].first + (k - 1) * script[q].inter)'
    BY <1>h, <2>1, <2>2
  <2> QED
    BY <2>1, <2>3, <2>4 DEF FakeTimeInv
<1>11. CASE \/ GiveUpWait(q) \/ AllSent(q) \/ GiveUpSend(q) \/ CloseChan(q)
  <2>1. began'[q] = began[q] /\ at'[q] = at[q] /\ phase'[q] \in {"closing", "closed"}
    BY <1>11, <1>s
    DEF GiveUpWait, AllSent, GiveUpSend, SendGivesUp, CloseChan, Move, Leaving
  <2> QED
    BY <1>4, <2>1
<1>12. CASE OnCancel(q) \/ Take(q) \/ Cancel(q)
  <2>1. UNCHANGED clockVars /\ UNCHANGED <<phase, at, began>>
    BY <1>12 DEF OnCancel, Take, Cancel
  <2>2. Kept(q)
    BY <2>1 DEF clockVars, Kept, Registered
  <2> QED
    BY <1>1, <1>g, <1>n, <2>1, <2>2, TimeFrame
<1>13. CASE Post(q) \/ PostErr(q) \/ Answer(q) \/ BadStatus(q) \/ Scan(q) \/ CloseBody(q)
  BY <1>13, <1>s DEF Post, PostErr, Answer, BadStatus, Scan, CloseBody, Move, FakePhases
<1>14. CASE ~Quiet(q) /\ ~Wait(q) /\ ~WaitOver(q)
  <2>1. \A p \in Producers : (Quiet(p) \/ Wait(p) \/ WaitOver(p)) /\ p # q =>
          phase'[q] = phase[q] /\ at'[q] = at[q] /\ began'[q] = began[q]
    BY <1>t, QuietSteps, WaitSteps DEF Touches
  <2>2. ((\E t \in Owners : Rearm(t)) \/ Clock \/ UNCHANGED vars) =>
          phase'[q] = phase[q] /\ at'[q] = at[q] /\ began'[q] = began[q]
    BY DEF Rearm, Clock, vars
  <2> QED
    BY <1>2, <1>14, <2>1, <2>2, Steps
<1> QED
  BY <1>5, <1>7, <1>8, <1>9, <1>10, <1>11, <1>12, <1>13, <1>14 DEF Quiet

\* At the start nothing is sent, open, registered or due.
LEMMA BackendInit == Init => BackendInv
<1> SUFFICES ASSUME Init PROVE BackendInv
  OBVIOUS
<1>1. ClockTypeOK /\ timers = {} /\ now = 0 /\ tick = [t \in Timers |-> 0]
  BY DEF Init, ClockInit, ClockTypeOK
<1>2. /\ http \in [Producers -> BOOLEAN]
      /\ phase = [p \in Producers |-> "unasked"] /\ at = [p \in Producers |-> 0]
      /\ chan = [p \in Producers |-> <<>>] /\ body = [p \in Producers |-> FALSE]
      /\ ctx = [p \in Producers |-> FALSE] /\ notice = [p \in Producers |-> FALSE]
      /\ sent = [p \in Producers |-> 0] /\ began = [p \in Producers |-> 0]
  BY DEF Init
<1>3. GivenInv
  <2>1. PICK h \in [Producers -> HTTPScripts], f \in [Producers -> FakeScripts] :
          script = [p \in Producers |-> IF http[p] THEN h[p] ELSE f[p]]
    BY DEF Init
  <2> QED
    BY <1>2, <2>1 DEF GivenInv
<1>4. TypeOK
  <2>1. <<>> \in Seq(Nat) /\ Len(<<>>) <= 1 /\ 0 \in 0 .. MaxNow
    OBVIOUS
  <2>2. ProducerTypes
    BY <1>2, <2>1 DEF ProducerTypes, HTTPPhases
  <2> QED
    BY <1>1, <2>2, TypesApart
<1>5. ProducerInv
  <2> SUFFICES ASSUME NEW p \in Producers PROVE Promised(p)
    BY DEF ProducerInv, Promised
  <2>1. /\ phase[p] = "unasked" /\ at[p] = 0 /\ sent[p] = 0 /\ ~body[p]
    BY <1>2
  <2>2. CASE http[p]
    <3>1. Len(script[p]) \in Nat
      BY <1>3, <2>2, GivenTypes
    <3> QED
      BY <2>1, <2>2, <3>1 DEF Promised, HTTPInv, HTTPPhases
  <2>3. CASE ~http[p]
    <3>1. Len(Told(script[p])) \in Nat
      BY <1>3, <2>3, GivenTypes, ToldIs
    <3> QED
      BY <2>1, <2>3, <3>1 DEF Promised, FakeInv, FakePhases
  <2> QED
    BY <2>2, <2>3
<1>6. TimerInv
  BY <1>1 DEF TimerInv, Single, Registered
<1>7. TimeInv
  BY <1>1, <1>2 DEF TimeInv, FakeTimeInv
<1> QED
  BY <1>3, <1>4, <1>5, <1>6, <1>7 DEF BackendInv

\* No step breaks it.
LEMMA BackendStep == BackendInv /\ [Next]_vars => BackendInv'
<1> SUFFICES ASSUME BackendInv, [Next]_vars PROVE BackendInv'
  OBVIOUS
<1>1. TypeOK /\ GivenInv /\ ProducerInv
  BY DEF BackendInv
<1>2. GivenInv'
  BY <1>1, GivenFrame DEF GivenInv, given
<1>3. TypeOK' /\ ProducerInv' /\ TimerInv' /\ TimeInv'
  BY <1>1, TypeStep, ProducerStep, TimerStep, TimeStep
<1> QED
  BY <1>2, <1>3 DEF BackendInv

\* Scripts, streams, timers and times agree in every reachable state, for any
\* number of streams and timers (http.go, fake.go, clock.go).
THEOREM BackendInvariance == Spec => []BackendInv
BY BackendInit, BackendStep, PTL DEF Spec

\* Every variable of streams and clock keeps its type.
THEOREM BackendTypeCorrect == Spec => []TypeOK
<1>1. BackendInv => TypeOK
  BY DEF BackendInv
<1> QED
  BY <1>1, BackendInvariance, PTL

\* No token of a fake is sent before its delays have passed (fake.go), on either
\* clock and however many timers share it.
THEOREM TokensComeOnTime == Spec => []TokensOnTime
<1>1. ASSUME BackendInv, NEW p \in Producers, ~http[p],
             NEW n, n = (IF sent[p] > Limit(script[p]) THEN Limit(script[p]) ELSE sent[p]),
             n > 0
      PROVE  now >= began[p] + script[p].first + (n - 1) * script[p].inter
  <2>1. script[p] \in Fakes /\ FakeTimeInv(p) /\ sent[p] = at[p] /\ at[p] \in Nat
    BY <1>1, GivenTypes DEF BackendInv, TimeInv, ProducerInv, FakeInv, TypeOK
  <2>2. Limit(script[p]) \in Nat
    BY <2>1, ToldIs
  <2>3. n \in 1 .. at[p] /\ n <= Limit(script[p])
    BY <1>1, <2>1, <2>2
  <2> QED
    BY <2>1, <2>3 DEF FakeTimeInv
<1>2. BackendInv => TokensOnTime
  BY <1>1 DEF TokensOnTime
<1> QED
  BY <1>2, BackendInvariance, PTL

-----------------------------------------------------------------------------
(* Both clocks keep the timer contract.                                    *)

\* What a timer is to its owner, from its registrations and its channel.
TimerOf(S, k) ==
    CASE Cardinality(S) = 0 /\ k = 0 -> [is |-> "idle", at |-> 0]
      [] Cardinality(S) = 0 /\ k = 1 -> [is |-> "ticked", at |-> 0]
      [] Cardinality(S) = 1 /\ k = 0 ->
           [is |-> "armed", at |-> (CHOOSE r \in S : TRUE).deadline]
      [] OTHER -> [is |-> "jammed", at |-> 0]

\* Idle, ticked and armed timers, by what is registered and unread.
LEMMA TimerOfIs ==
    /\ TimerOf({}, 0) = Contract!Idle
    /\ TimerOf({}, 1) = Contract!Ticked
    /\ \A r : TimerOf({r}, 0) = Contract!ArmedFor(r.deadline)
<1>1. Cardinality({}) = 0
  BY FS_EmptySet
<1>2. \A r : Cardinality({r}) = 1
  BY FS_Singleton
<1>3. \A r : (CHOOSE x \in {r} : TRUE) = r
  OBVIOUS
<1>4. /\ TimerOf({}, 0) = Contract!Idle
      /\ TimerOf({}, 1) = Contract!Ticked
  BY <1>1 DEF TimerOf, Contract!Idle, Contract!Ticked
<1>5. ASSUME NEW r
      PROVE  TimerOf({r}, 0) = Contract!ArmedFor(r.deadline)
  <2>1. Cardinality({r}) = 1 /\ (CHOOSE x \in {r} : TRUE) = r
    BY <1>2, <1>3
  <2> QED
    BY <2>1 DEF TimerOf, Contract!ArmedFor
<1> QED
  BY <1>4, <1>5

\* It is what the clock's TimerIs says, before and after a step.
LEMMA TimerIsOf ==
    ASSUME NEW t \in Timers
    PROVE  /\ TimerIs(t) = TimerOf(Registered(t), tick[t])
           /\ TimerIs(t)' = TimerOf(Registered(t)', tick'[t])
BY DEF TimerIs, TimerOf

Seen == [t \in Timers |-> TimerIs(t)]

\* One timer becomes something else, all others stay.
LEMMA OneChanges ==
    ASSUME NEW t \in Timers, OthersKeep(t),
           NEW v, TimerOf(Registered(t)', tick'[t]) = v
    PROVE  Seen' = [Seen EXCEPT ![t] = v]
<1>1. TimerIs(t)' = v
  BY TimerIsOf
<1>2. \A u \in Timers \ {t} : TimerIs(u)' = TimerIs(u)
  BY TimerIsOf DEF OthersKeep
<1> QED
  BY <1>1, <1>2 DEF Seen

\* Armed anew, it is armed for its deadline or ticks at once.
LEMMA ArmKept ==
    ASSUME ClockInv, NEW t \in Timers, NEW d \in Durations, Reset(t, d)
    PROVE  Contract!Next
<1>1. d \in Int
  OBVIOUS
<1>2. /\ OthersKeep(t) /\ UNCHANGED <<fake, now>>
      /\ Registered(t)' = IF Immediate(d) THEN {} ELSE {Registration(t, d)}
      /\ tick'[t] = IF Immediate(d) THEN 1 ELSE 0
  BY <1>1, Arming
<1>3. Registration(t, d).deadline = now + d
  BY DEF Registration
<1>4. Seen' = [Seen EXCEPT ![t] = IF fake /\ d <= 0 THEN Contract!Ticked
                                  ELSE Contract!ArmedFor(now + d)]
  <2>1. TimerOf(Registered(t)', tick'[t]) =
          IF fake /\ d <= 0 THEN Contract!Ticked ELSE Contract!ArmedFor(now + d)
    BY <1>2, <1>3, TimerOfIs DEF Immediate
  <2> QED
    BY <1>2, <2>1, OneChanges
<1>5. Contract!Arm(t)
  BY <1>2, <1>4 DEF Contract!Arm, Seen
<1> QED
  BY <1>5 DEF Contract!Next

\* Stopped or read it is idle, and what is read is a tick.
LEMMA DisarmKept ==
    ASSUME ClockInv, NEW t \in Timers, Stop(t) \/ Receive(t)
    PROVE  Contract!Next
<1>1. OthersKeep(t) /\ UNCHANGED <<fake, now>> /\ Idles(t)'
  BY Disarming
<1>2. TimerOf(Registered(t)', tick'[t]) = Contract!Idle
  BY <1>1, TimerOfIs DEF Idles
<1>3. Seen' = [Seen EXCEPT ![t] = Contract!Idle]
  BY <1>1, <1>2, OneChanges
<1>4. Contract!Disarm(t)
  BY <1>1, <1>3 DEF Contract!Disarm, Seen
<1> QED
  BY <1>4 DEF Contract!Next

\* As the clock moves, the due timers tick: all of them if it is a FakeClock.
LEMMA PassKept ==
    ASSUME ClockInv, ClockNext
    PROVE  Contract!Next
<1>1. /\ now <= now' /\ UNCHANGED fake /\ now' \in 0 .. MaxNow
      /\ \A t \in Timers : Fires(t) \/ Stays(t)
  BY ClockMoves DEF ClockInv, ClockTypeOK
<1> DEFINE S == {t \in Timers : Fires(t)}
<1>2. ASSUME NEW t \in Timers, Fires(t)
      PROVE  /\ TimerIs(t)' = Contract!Ticked
             /\ \E r \in Registered(t) : TimerIs(t) = Contract!ArmedFor(r.deadline) /\ r.deadline <= now'
  <2>1. PICK r \in Registered(t) : r.deadline <= now'
    BY <1>2 DEF Fires
  <2>2. Registered(t) = {r} /\ tick[t] = 0
    BY <1>2, <2>1 DEF Fires, ClockInv, TimersOnce, Single
  <2>3. Registered(t)' = {} /\ tick'[t] = 1
    BY <1>2 DEF Fires
  <2> QED
    BY <2>1, <2>2, <2>3, TimerIsOf, TimerOfIs
<1>3. ASSUME NEW t \in Timers, ~Fires(t)
      PROVE  /\ TimerIs(t)' = TimerIs(t)
             /\ fake /\ TimerIs(t).is = "armed" => TimerIs(t).at > now'
  <2>1. Stays(t) /\ Single(t) /\ tick[t] \in {0, 1}
    BY <1>1, <1>3 DEF ClockInv, TimersOnce, ClockTypeOK
  <2>2. TimerIs(t)' = TimerIs(t)
    BY <2>1, TimerIsOf DEF Stays
  <2>3. CASE Registered(t) = {}
    <3>1. TimerIs(t) = Contract!Idle \/ TimerIs(t) = Contract!Ticked
      BY <2>1, <2>3, TimerIsOf, TimerOfIs
    <3> QED
      BY <2>2, <3>1 DEF Contract!Idle, Contract!Ticked
  <2>4. CASE Registered(t) # {}
    <3>1. PICK r : r \in Registered(t)
      BY <2>4
    <3>2. Registered(t) = {r} /\ tick[t] = 0
      BY <2>1, <3>1 DEF Single
    <3>3. TimerIs(t) = Contract!ArmedFor(r.deadline)
      BY <3>2, TimerIsOf, TimerOfIs
    <3>4. fake => r.deadline > now'
      BY <2>1, <3>1 DEF Stays
    <3> QED
      BY <2>2, <3>3, <3>4 DEF Contract!ArmedFor
  <2> QED
    BY <2>3, <2>4
<1>4. Seen' = [t \in Timers |-> IF t \in S THEN Contract!Ticked ELSE Seen[t]]
  BY <1>2, <1>3 DEF Seen
<1> DEFINE D == {t \in Timers : Seen[t].is = "armed" /\ Seen[t].at <= now'}
<1>5. S \subseteq D
  BY <1>2 DEF Seen, Contract!ArmedFor
<1>6. fake => S = D
  <2>1. ASSUME fake, NEW t \in D PROVE Fires(t)
    <3>1. t \in Timers /\ TimerIs(t).is = "armed" /\ TimerIs(t).at <= now'
      BY DEF Seen
    <3>2. now' \in Int
      BY <1>1
    <3>3. CASE ~Fires(t)
      <4>1. TimerIs(t).at > now'
        BY <1>3, <2>1, <3>1, <3>3
      <4>2. Stays(t) /\ Single(t) /\ tick[t] \in {0, 1}
        BY <1>1, <3>1, <3>3 DEF ClockInv, TimersOnce, ClockTypeOK
      <4>3. TimerIs(t).at \in Int
        <5>1. CASE Registered(t) = {}
          <6>1. TimerIs(t) = Contract!Idle \/ TimerIs(t) = Contract!Ticked
            BY <3>1, <4>2, <5>1, TimerIsOf, TimerOfIs
          <6> QED
            BY <6>1 DEF Contract!Idle, Contract!Ticked
        <5>2. CASE Registered(t) # {}
          <6>1. PICK r : r \in Registered(t)
            BY <5>2
          <6>2. Registered(t) = {r} /\ tick[t] = 0 /\ r.deadline \in Int
            BY <4>2, <6>1 DEF Single, Registered, ClockInv, ClockTypeOK
          <6>3. TimerIs(t) = Contract!ArmedFor(r.deadline)
            BY <3>1, <6>2, TimerIsOf, TimerOfIs
          <6> QED
            BY <6>2, <6>3 DEF Contract!ArmedFor
        <5> QED
          BY <5>1, <5>2
      <4> QED
        BY <3>1, <3>2, <4>1, <4>3
    <3> QED
      BY <3>3
  <2> QED
    BY <1>5, <2>1
<1>7. D = Contract!DueAt(now')
  BY DEF Contract!DueAt, Seen
<1>8. now' \in Nat /\ now' >= now
  BY <1>1 DEF ClockInv, ClockTypeOK
<1> HIDE DEF S, D
<1>9. Contract!Pass
  <2>1. S \in SUBSET Contract!DueAt(now') /\ (fake => S = Contract!DueAt(now'))
    BY <1>5, <1>6, <1>7
  <2> QED
    BY <1>1, <1>4, <1>8, <2>1 DEF Contract!Pass, Seen
<1> QED
  BY <1>9 DEF Contract!Next

\* A step that leaves the clock alone is no step of the contract.
LEMMA ClockStutters ==
    ASSUME UNCHANGED clockVars
    PROVE  UNCHANGED Contract!vars
<1>1. \A t \in Timers : TimerIs(t)' = TimerIs(t)
  BY DEF clockVars, TimerIs, Registered
<1> QED
  BY <1>1 DEF clockVars, Contract!vars

\* Every step is a step of the contract or a stutter.
LEMMA TimerContractStep ==
    ASSUME BackendInv, [Next]_vars
    PROVE  Contract!Next \/ UNCHANGED Contract!vars
<1>t. TypeOK /\ GivenInv /\ ProducerInv /\ ClockInv
  BY DEF BackendInv, TypeOK, TimerInv, ClockInv, TimersOnce, NothingDue
<1>1. ASSUME NEW p \in Producers, Wait(p) PROVE Contract!Next
  <2>1. ~http[p] /\ phase[p] \in AtRest
    BY <1>t, <1>1, WaitSteps DEF AtRest
  <2>2. Idles(p) /\ p \in Timers
    BY <2>1 DEF BackendInv, TimerInv, Idles, AtRest
  <2>3. script[p] \in Fakes
    BY <1>t, <2>1, GivenTypes
  <2>4. After(p, Delay(p)) /\ Delay(p) \in Durations
    BY <1>1, <2>3, DelayType DEF Wait
  <2>5. PICK d \in Durations : d = Delay(p)
    BY <2>4
  <2>6. d \in Int /\ After(p, d)
    BY <2>4, <2>5
  <2>7. Reset(p, d)
    BY <1>t, <2>2, <2>6, AfterIsReset
  <2> QED
    BY <1>t, <2>2, <2>7, ArmKept
<1>2. ASSUME NEW p \in Producers, WaitOver(p) PROVE Contract!Next
  BY <1>t, <1>2, DisarmKept DEF WaitOver
<1>3. ASSUME NEW t \in Owners, Rearm(t) PROVE Contract!Next
  <2>1. t \in Timers
    BY DEF Owners
  <2>2. CASE \E d \in Rearms : Reset(t, d)
    BY <1>t, <2>1, <2>2, ArmKept
  <2>3. CASE Stop(t) \/ Receive(t)
    BY <1>t, <2>1, <2>3, DisarmKept
  <2> QED
    BY <1>3, <2>2, <2>3 DEF Rearm
<1>4. CASE Clock
  BY <1>t, <1>4, PassKept DEF Clock
<1>5. ASSUME NEW p \in Producers, Quiet(p) PROVE UNCHANGED Contract!vars
  BY <1>t, <1>5, QuietSteps, ClockStutters
<1>6. CASE UNCHANGED vars
  BY <1>6, ClockStutters DEF vars
<1> QED
  BY <1>1, <1>2, <1>3, <1>4, <1>5, <1>6, Steps

\* At the start every timer is idle.
LEMMA TimerContractInit == Init => Contract!Init
<1> SUFFICES ASSUME Init PROVE Contract!Init
  OBVIOUS
<1>1. /\ now = 0 /\ fake \in BOOLEAN /\ timers = {} /\ tick = [t \in Timers |-> 0]
  BY DEF Init, ClockInit
<1>2. \A t \in Timers : TimerIs(t) = Contract!Idle
  BY <1>1, TimerIsOf, TimerOfIs DEF Registered
<1> QED
  BY <1>1, <1>2 DEF Contract!Init

\* FakeClock and RealClock keep the promise of clock.Timer, for any number of
\* timers: no tick is early, doubled or left over, and a FakeClock's are prompt.
THEOREM ClocksKeepContract == Spec => KeepsTimerContract
<1>1. BackendInv /\ [Next]_vars => [Contract!Next]_(Contract!vars)
  BY TimerContractStep
<1> QED
  BY <1>1, TimerContractInit, BackendInvariance, PTL DEF Spec, KeepsTimerContract, Contract!Spec


-----------------------------------------------------------------------------
(* Both backends keep the send contract.                                   *)

\* A stream's state in the contract, from where its code is.
Where(place) ==
    CASE place \in {"unasked", "refused", "closed"} -> place
      [] place \in {"posting", "badStatus"} -> "starting"
      [] OTHER -> "open"

Wanted == [p \in Producers |-> IF http[p] THEN Says(script[p]) ELSE Told(script[p])]
Stated == [p \in Producers |-> StreamIs(p)]

\* What the contract sees of one stream.
LEMMA StreamIsWhere ==
    ASSUME NEW p \in Producers
    PROVE  Stated[p] = Where(phase[p]) /\ Stated'[p] = Where(phase'[p])
BY DEF Stated, StreamIs, Where

\* Nothing a stream does changes what was to be said, or another stream's state.
LEMMA OneStreamMoves ==
    ASSUME NEW p \in Producers, Touches(p)
    PROVE  /\ Wanted' = Wanted
           /\ Stated' = [Stated EXCEPT ![p] = Where(phase'[p])]
           /\ Where(phase'[p]) = Where(phase[p]) => Stated' = Stated
<1>1. http' = http /\ script' = script
  BY DEF Touches, given
<1>2. Wanted' = Wanted
  BY <1>1 DEF Wanted
<1>3. \A q \in Producers \ {p} : Stated'[q] = Stated[q]
  BY StreamIsWhere DEF Touches
<1>4. Stated'[p] = Where(phase'[p]) /\ Stated[p] = Where(phase[p])
  BY StreamIsWhere
<1>5. /\ Stated = [q \in Producers |-> Stated[q]]
      /\ Stated' = [q \in Producers |-> Stated'[q]]
  BY DEF Stated
<1> HIDE DEF Stated
<1>6. Stated' = [Stated EXCEPT ![p] = Where(phase'[p])]
  BY <1>3, <1>4, <1>5
<1>7. Where(phase'[p]) = Where(phase[p]) => Stated' = Stated
  BY <1>3, <1>4, <1>5
<1> QED
  BY <1>2, <1>6, <1>7

\* What is to be said, and how much of it there is.
LEMMA WantedIs ==
    ASSUME GivenInv, NEW p \in Producers
    PROVE  /\ Wanted[p] = IF http[p] THEN Says(script[p]) ELSE Told(script[p])
           /\ Wanted[p] \in Seq(Nat)
           /\ http[p] => Len(Wanted[p]) = Cardinality(Said(script[p]))
<1>1. Wanted[p] = IF http[p] THEN Says(script[p]) ELSE Told(script[p])
  BY DEF Wanted
<1>2. CASE http[p]
  BY <1>1, <1>2, GivenTypes, SaysType
<1>3. CASE ~http[p]
  BY <1>1, <1>3, GivenTypes, ToldIs
<1> QED
  BY <1>1, <1>2, <1>3

\* The first call, and the request until it is answered or fails.
LEMMA StartKept ==
    ASSUME TypeOK, GivenInv, NEW p \in Producers, Promised(p),
           Post(p) \/ PostErr(p) \/ Answer(p) \/ BadStatus(p) \/ Play(p)
    PROVE  Stream!Next
<1>1. Touches(p)
  BY QuietSteps DEF Quiet
<1>2. /\ Wanted' = Wanted /\ Stated' = [Stated EXCEPT ![p] = Where(phase'[p])]
      /\ Stated[p] = Where(phase[p])
  BY <1>1, OneStreamMoves, StreamIsWhere
<1>3. /\ phase \in [Producers -> HTTPPhases \cup FakePhases]
      /\ body \in [Producers -> BOOLEAN]
  BY DEF TypeOK, HTTPPhases, FakePhases
<1>4. phase[p] \in {"unasked", "posting", "begin"} => ~body[p]
  BY <1>3 DEF Promised, HTTPInv, FakeInv
<1>5. CASE Post(p)
  <2>1. /\ phase[p] = "unasked" /\ phase'[p] = "posting"
        /\ UNCHANGED <<sent, chan, body, ctx>>
    BY <1>3, <1>5 DEF Post, Move
  <2>2. Stated[p] = "unasked" /\ Stated' = [Stated EXCEPT ![p] = "starting"]
    BY <1>2, <2>1 DEF Where
  <2>3. Stream!Ask(p)
    BY <1>2, <2>1, <2>2 DEF Stream!Ask, Stated, Wanted
  <2> QED
    BY <2>3 DEF Stream!Next
<1>6. CASE PostErr(p)
  <2>1. /\ phase[p] = "posting" /\ phase'[p] = "refused"
        /\ UNCHANGED <<sent, chan, body, ctx>>
    BY <1>3, <1>6 DEF PostErr, Move
  <2>2. Stated[p] = "starting" /\ Stated' = [Stated EXCEPT ![p] = "refused"]
    BY <1>2, <2>1 DEF Where
  <2>3. body' = [body EXCEPT ![p] = FALSE]
    BY <1>3, <1>4, <2>1
  <2>4. Stream!Refuse(p)
    BY <1>2, <2>1, <2>2, <2>3 DEF Stream!Refuse, Stated, Wanted
  <2> QED
    BY <2>4 DEF Stream!Next
<1>7. CASE Answer(p)
  <2>1. /\ phase[p] = "posting" /\ phase'[p] \in {"scanning", "badStatus"}
        /\ body' = [body EXCEPT ![p] = TRUE]
        /\ UNCHANGED <<sent, chan, ctx>>
    BY <1>3, <1>7 DEF Answer
  <2>2. Stated[p] = "starting"
    BY <1>2, <2>1 DEF Where
  <2>3. CASE phase'[p] = "scanning"
    <3>1. Stated' = [Stated EXCEPT ![p] = "open"]
      BY <1>2, <2>3 DEF Where
    <3>2. Stream!Open(p)
      BY <1>2, <2>1, <2>2, <3>1 DEF Stream!Open, Stated, Wanted
    <3> QED
      BY <3>2 DEF Stream!Next
  <2>4. CASE phase'[p] = "badStatus"
    <3>1. Stated' = Stated
      BY <1>1, <2>1, <2>4, OneStreamMoves DEF Where
    <3>2. Stream!Connect(p)
      BY <1>2, <2>1, <2>2, <3>1 DEF Stream!Connect, Stated, Wanted
    <3> QED
      BY <3>2 DEF Stream!Next
  <2> QED
    BY <2>1, <2>3, <2>4
<1>8. CASE BadStatus(p)
  <2>1. /\ phase[p] = "badStatus" /\ phase'[p] = "refused"
        /\ body' = [body EXCEPT ![p] = FALSE]
        /\ UNCHANGED <<sent, chan, ctx>>
    BY <1>3, <1>8 DEF BadStatus, Move
  <2>2. Stated[p] = "starting" /\ Stated' = [Stated EXCEPT ![p] = "refused"]
    BY <1>2, <2>1 DEF Where
  <2>3. Stream!Refuse(p)
    BY <1>2, <2>1, <2>2 DEF Stream!Refuse, Stated, Wanted
  <2> QED
    BY <2>3 DEF Stream!Next
<1>9. CASE Play(p)
  <2>1. /\ phase[p] = "unasked" /\ phase'[p] \in {"refused", "begin"}
        /\ UNCHANGED <<sent, chan, body, ctx>>
    BY <1>3, <1>9 DEF Play, Move
  <2>2. Stated[p] = "unasked"
    BY <1>2, <2>1 DEF Where
  <2>3. body' = [body EXCEPT ![p] = FALSE]
    BY <1>3, <1>4, <2>1
  <2>4. CASE phase'[p] = "refused"
    <3>1. Stated' = [Stated EXCEPT ![p] = "refused"]
      BY <1>2, <2>4 DEF Where
    <3>2. Stream!Refuse(p)
      BY <1>2, <2>1, <2>2, <2>3, <3>1 DEF Stream!Refuse, Stated, Wanted
    <3> QED
      BY <3>2 DEF Stream!Next
  <2>5. CASE phase'[p] = "begin"
    <3>1. Stated' = [Stated EXCEPT ![p] = "open"]
      BY <1>2, <2>5 DEF Where
    <3>2. Stream!Open(p)
      BY <1>2, <2>1, <2>2, <3>1 DEF Stream!Open, Stated, Wanted
    <3> QED
      BY <3>2 DEF Stream!Next
  <2> QED
    BY <2>1, <2>4, <2>5
<1> QED
  BY <1>5, <1>6, <1>7, <1>8, <1>9

\* The chunk that is sent is the next of what was to be said.
LEMMA ChunkIsNext ==
    ASSUME TypeOK, GivenInv, NEW p \in Producers, Promised(p), Sending(p)
    PROVE  /\ sent[p] < Len(Wanted[p])
           /\ Chunk(p) = Wanted[p][sent[p] + 1]
<1>1. at[p] \in Nat /\ sent[p] \in Nat
  BY DEF TypeOK
<1>2. CASE http[p]
  <2>1. /\ HTTPInv(p) /\ phase[p] = "sending" /\ script[p] \in Seq(Kinds)
        /\ Len(script[p]) \in Nat
    BY <1>2, GivenTypes DEF Promised, Sending
  <2> DEFINE lines == script[p]
             n == at[p]
  <2>2. /\ n \in 1 .. Len(lines) /\ lines[n] = "chunk" /\ \A m \in 1 .. n : lines[m] # "done"
        /\ sent[p] = Cardinality(SaidBy(lines, n - 1))
    BY <1>1, <2>1 DEF HTTPInv
  <2>3. n \in Said(lines) /\ lines \in Seq(Kinds)
    BY <2>1, <2>2 DEF Said
  <2> HIDE DEF lines, n
  <2>4. Cardinality(SaidBy(lines, n)) = sent[p] + 1
    BY <2>2, <2>3, SaidOneMore
  <2>5. sent[p] + 1 \in 1 .. Len(Says(lines)) /\ Says(lines)[sent[p] + 1] = n
    BY <2>3, <2>4, SaysNext
  <2>6. Wanted[p] = Says(lines) /\ Len(Wanted[p]) \in Nat
    BY <1>2, WantedIs DEF lines
  <2>7. Chunk(p) = n
    BY <1>2 DEF Chunk, n
  <2> QED
    BY <1>1, <2>5, <2>6, <2>7
<1>3. CASE ~http[p]
  <2>1. FakeInv(p) /\ HasNext(p) /\ script[p] \in Fakes
    BY <1>3, GivenTypes DEF Promised, Sending
  <2>2. PICK s \in Fakes : s = script[p]
    BY <2>1
  <2>3. /\ Told(s) \in Seq(Nat) /\ Limit(s) \in Nat
        /\ Len(Told(s)) = IF ~Truncated(s) /\ s.emitFinish THEN Limit(s) + 1 ELSE Limit(s)
        /\ \A n \in 1 .. Len(Told(s)) : Told(s)[n] = IF n <= Limit(s) THEN n ELSE 0
    BY ToldIs
  <2>4. sent[p] = at[p]
    BY <2>1 DEF FakeInv
  <2>5. at[p] < Limit(s) \/ (at[p] = Limit(s) /\ ~Truncated(s) /\ s.emitFinish)
    <3>1. \/ at[p] < Limit(script[p])
          \/ at[p] = Limit(script[p]) /\ ~Truncated(script[p]) /\ script[p].emitFinish
      BY <2>1, Zenon DEF HasNext
    <3> QED
      BY <2>2, <3>1
  <2>6. at[p] < Len(Told(s)) /\ at[p] + 1 \in 1 .. Len(Told(s))
    BY <1>1, <2>3, <2>5
  <2>7. Chunk(p) = IF at[p] < Limit(s) THEN at[p] + 1 ELSE 0
    BY <1>3, <2>2 DEF Chunk
  <2>8. Told(s)[at[p] + 1] = Chunk(p)
    BY <1>1, <2>3, <2>6, <2>7
  <2>9. Wanted[p] = Told(s)
    BY <1>3, <2>2, WantedIs
  <2> QED
    BY <2>4, <2>6, <2>8, <2>9
<1> QED
  BY <1>2, <1>3

\* The sends and the channel's reader.
LEMMA ChannelKept ==
    ASSUME TypeOK, GivenInv, NEW p \in Producers, Promised(p), Send(p) \/ Take(p)
    PROVE  Stream!Next
<1>1. Touches(p)
  BY QuietSteps DEF Quiet
<1>2. /\ Wanted' = Wanted /\ Stated[p] = Where(phase[p])
      /\ Where(phase'[p]) = Where(phase[p]) => Stated' = Stated
  BY <1>1, OneStreamMoves, StreamIsWhere
<1>3. /\ phase \in [Producers -> HTTPPhases \cup FakePhases]
      /\ chan \in [Producers -> Seq(Nat)] /\ Len(chan[p]) <= 1
  BY DEF TypeOK, HTTPPhases, FakePhases
<1>4. CASE Send(p)
  <2>1. /\ Sending(p) /\ chan[p] = <<>> /\ UNCHANGED <<body, ctx>>
        /\ chan' = [chan EXCEPT ![p] = Append(@, Chunk(p))]
        /\ sent' = [sent EXCEPT ![p] = @ + 1]
        /\ phase[p] \in {"sending", "ready"} /\ phase'[p] \in {"scanning", "between"}
    BY <1>3, <1>4 DEF Send, Room, Sending
  <2>2. chan' = [chan EXCEPT ![p] = << Wanted[p][sent[p] + 1] >>]
    <3>1. Append(chan[p], Chunk(p)) = << Chunk(p) >>
      BY <2>1
    <3>2. Chunk(p) = Wanted[p][sent[p] + 1]
      BY <2>1, ChunkIsNext
    <3> QED
      BY <2>1, <3>1, <3>2
  <2>3. Stated[p] = "open" /\ Stated' = Stated
    BY <1>2, <2>1 DEF Where
  <2>4. sent[p] < Len(Wanted[p])
    BY <2>1, ChunkIsNext
  <2>5. Stream!Send(p)
    BY <1>2, <2>1, <2>2, <2>3, <2>4 DEF Stream!Send, Stated, Wanted
  <2> QED
    BY <2>5 DEF Stream!Next
<1>5. CASE Take(p)
  <2>1. /\ chan[p] # <<>> /\ chan' = [chan EXCEPT ![p] = Tail(@)]
        /\ UNCHANGED <<phase, body, ctx, sent>>
    BY <1>5 DEF Take
  <2>2. chan[p] \in Seq(Nat) /\ Len(chan[p]) \in Nat
    BY <1>3
  <2>3. Tail(chan[p]) = <<>>
    BY <1>3, <2>1, <2>2
  <2>4. chan' = [chan EXCEPT ![p] = <<>>]
    BY <2>1, <2>3
  <2>5. Stated' = Stated
    BY <1>2, <2>1
  <2>6. Stream!Take(p)
    BY <1>2, <2>1, <2>4, <2>5 DEF Stream!Take, Stated, Wanted
  <2> QED
    BY <2>6 DEF Stream!Next
<1> QED
  BY <1>4, <1>5

\* The way out: the body first, then the channel; and the context's end.
LEMMA EndKept ==
    ASSUME TypeOK, GivenInv, NEW p \in Producers, Promised(p),
           CloseBody(p) \/ CloseChan(p) \/ Cancel(p)
    PROVE  Stream!Next
<1>1. Touches(p)
  BY QuietSteps DEF Quiet
<1>2. /\ Wanted' = Wanted /\ Stated[p] = Where(phase[p])
      /\ Stated' = [Stated EXCEPT ![p] = Where(phase'[p])]
      /\ Where(phase'[p]) = Where(phase[p]) => Stated' = Stated
  BY <1>1, OneStreamMoves, StreamIsWhere
<1>3. phase \in [Producers -> HTTPPhases \cup FakePhases]
  BY DEF TypeOK, HTTPPhases, FakePhases
<1>4. CASE CloseBody(p)
  <2>1. /\ phase[p] = "returning" /\ phase'[p] = "closing"
        /\ body' = [body EXCEPT ![p] = FALSE] /\ UNCHANGED <<sent, chan, ctx>>
    BY <1>3, <1>4 DEF CloseBody, Move
  <2>2. Stated[p] = "open" /\ Stated' = Stated
    BY <1>2, <2>1 DEF Where
  <2>3. Stream!Release(p)
    BY <1>2, <2>1, <2>2 DEF Stream!Release, Stated, Wanted
  <2> QED
    BY <2>3 DEF Stream!Next
<1>5. CASE CloseChan(p)
  <2>1. /\ phase[p] = "closing" /\ phase'[p] = "closed"
        /\ UNCHANGED <<sent, chan, body, ctx>>
    BY <1>3, <1>5 DEF CloseChan, Move
  <2>2. Stated[p] = "open" /\ Stated' = [Stated EXCEPT ![p] = "closed"]
    BY <1>2, <2>1 DEF Where
  <2>3. ~body[p] /\ (ctx[p] \/ sent[p] = Len(Wanted[p]))
    <3>1. CASE http[p]
      BY <2>1, <3>1, WantedIs DEF Promised, HTTPInv
    <3>2. CASE ~http[p]
      BY <2>1, <3>2, WantedIs DEF Promised, FakeInv
    <3> QED
      BY <3>1, <3>2
  <2>4. Stream!Close(p)
    BY <1>2, <2>1, <2>2, <2>3 DEF Stream!Close, Stated, Wanted
  <2> QED
    BY <2>4 DEF Stream!Next
<1>6. CASE Cancel(p)
  <2>1. /\ ctx' = [ctx EXCEPT ![p] = TRUE] /\ UNCHANGED <<phase, sent, chan, body>>
    BY <1>6 DEF Cancel
  <2>2. Stated' = Stated
    BY <1>2, <2>1
  <2>3. Stream!Cancel(p)
    BY <1>2, <2>1, <2>2 DEF Stream!Cancel, Stated, Wanted
  <2> QED
    BY <2>3 DEF Stream!Next
<1> QED
  BY <1>4, <1>5, <1>6

\* No other step shows in the contract.
LEMMA StreamStutters ==
    ASSUME TypeOK, GivenInv, NEW p \in Producers, Promised(p),
           \/ Scan(p) \/ NoWait(p) \/ GiveUpWait(p) \/ AllSent(p) \/ OnCancel(p)
           \/ GiveUpSend(p)
    PROVE  UNCHANGED Stream!vars
<1>1. Touches(p)
  BY QuietSteps DEF Quiet
<1>2. phase \in [Producers -> HTTPPhases \cup FakePhases]
  BY DEF TypeOK, HTTPPhases, FakePhases
<1>3. UNCHANGED <<sent, chan, body, ctx>>
  BY DEF Scan, NoWait, GiveUpWait, AllSent, OnCancel, GiveUpSend
<1>4. Leaving(p) \in {"returning", "closing"}
  BY DEF Leaving
<1>5. Where(phase'[p]) = Where(phase[p])
  <2>1. CASE Scan(p)
    <3>1. phase[p] = "scanning" /\ phase'[p] \in {"scanning", "sending", "returning"}
      BY <1>2, <2>1 DEF Scan, AfterLine
    <3> QED
      BY <3>1 DEF Where
  <2>2. CASE NoWait(p)
    <3>1. phase[p] \in {"begin", "between"} /\ phase'[p] = "ready"
      BY <1>2, <2>2 DEF NoWait
    <3> QED
      BY <3>1 DEF Where
  <2>3. CASE GiveUpWait(p) \/ AllSent(p)
    <3>1. phase[p] \in {"waiting", "ready"} /\ phase'[p] \in {"returning", "closing"}
      BY <1>2, <1>4, <2>3 DEF GiveUpWait, AllSent, Move
    <3> QED
      BY <3>1 DEF Where
  <2>4. CASE OnCancel(p)
    BY <2>4 DEF OnCancel
  <2>5. CASE GiveUpSend(p)
    <3>1. phase[p] \in {"sending", "ready"} /\ phase'[p] \in {"returning", "closing"}
      BY <1>2, <1>4, <2>5 DEF GiveUpSend, SendGivesUp, Sending
    <3> QED
      BY <3>1 DEF Where
  <2> QED
    BY <2>1, <2>2, <2>3, <2>4, <2>5
<1>6. Wanted' = Wanted /\ Stated' = Stated
  BY <1>1, <1>5, OneStreamMoves
<1> QED
  BY <1>3, <1>6 DEF Stream!vars, Wanted, Stated

\* Every step is one the contract allows, or does not show in it.
LEMMA StreamContractStep ==
    ASSUME BackendInv, [Next]_vars
    PROVE  Stream!Next \/ UNCHANGED Stream!vars
<1>t. TypeOK /\ GivenInv /\ ProducerInv
  BY DEF BackendInv
<1>1. ASSUME NEW p \in Producers, Quiet(p)
      PROVE  Stream!Next \/ UNCHANGED Stream!vars
  <2>1. Promised(p)
    BY <1>t DEF ProducerInv, Promised
  <2>2. CASE Post(p) \/ PostErr(p) \/ Answer(p) \/ BadStatus(p) \/ Play(p)
    BY <1>t, <2>1, <2>2, StartKept
  <2>3. CASE Send(p) \/ Take(p)
    BY <1>t, <2>1, <2>3, ChannelKept
  <2>4. CASE CloseBody(p) \/ CloseChan(p) \/ Cancel(p)
    BY <1>t, <2>1, <2>4, EndKept
  <2>5. CASE \/ Scan(p) \/ NoWait(p) \/ GiveUpWait(p) \/ AllSent(p) \/ OnCancel(p)
             \/ GiveUpSend(p)
    BY <1>t, <2>1, <2>5, StreamStutters
  <2> QED
    BY <1>1, <2>2, <2>3, <2>4, <2>5 DEF Quiet
<1>2. ASSUME NEW p \in Producers, Wait(p) \/ WaitOver(p)
      PROVE  UNCHANGED Stream!vars
  <2>1. /\ Touches(p) /\ UNCHANGED <<sent, chan, body, ctx>>
        /\ phase[p] \in {"begin", "between", "waiting"} /\ phase'[p] \in {"waiting", "ready"}
    BY <1>t, <1>2, WaitSteps
  <2>2. Where(phase'[p]) = Where(phase[p])
    BY <2>1 DEF Where
  <2>3. Wanted' = Wanted /\ Stated' = Stated
    BY <2>1, <2>2, OneStreamMoves
  <2> QED
    BY <2>1, <2>3 DEF Stream!vars, Wanted, Stated
<1>3. ASSUME (\E t \in Owners : Rearm(t)) \/ Clock \/ UNCHANGED vars
      PROVE  UNCHANGED Stream!vars
  <2>1. /\ http' = http /\ script' = script /\ phase' = phase
        /\ UNCHANGED <<sent, chan, body, ctx>>
    BY <1>3 DEF Rearm, Clock, given, vars
  <2>2. Wanted' = Wanted
    BY <2>1 DEF Wanted
  <2>3. Stated' = Stated
    BY <2>1 DEF Stated, StreamIs
  <2> QED
    BY <2>1, <2>2, <2>3 DEF Stream!vars, Wanted, Stated
<1> QED
  BY <1>1, <1>2, <1>3, Steps

\* At the start nothing is asked, sent or connected.
LEMMA StreamContractInit == Init => Stream!Init
<1> SUFFICES ASSUME Init PROVE Stream!Init
  OBVIOUS
<1>1. GivenInv
  BY BackendInit DEF BackendInv
<1>2. Wanted \in [Producers -> Seq(Nat)]
  <2>1. \A p \in Producers : Wanted[p] \in Seq(Nat)
    BY <1>1, WantedIs
  <2>2. Wanted = [p \in Producers |-> Wanted[p]]
    BY DEF Wanted
  <2> HIDE DEF Wanted
  <2> QED
    BY <2>1, <2>2
<1>3. Stated = [p \in Producers |-> "unasked"]
  BY DEF Init, Stated, StreamIs
<1> QED
  BY <1>2, <1>3 DEF Init, Stream!Init, Wanted, Stated

\* HTTPBackend and FakeBackend keep the promise of backend.go, for any number of
\* streams and whatever the upstreams say: it arrives in order and whole unless
\* cancelled, nothing follows the close, and no connection outlives it.
THEOREM BackendsKeepContract == Spec => KeepsSendContract
<1>1. BackendInv /\ [Next]_vars => [Stream!Next]_(Stream!vars)
  BY StreamContractStep
<1> QED
  BY <1>1, StreamContractInit, BackendInvariance, PTL DEF Spec, KeepsSendContract, Stream!Spec
=============================================================================
