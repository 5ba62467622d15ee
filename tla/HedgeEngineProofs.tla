------------------------- MODULE HedgeEngineProofs -------------------------
(***************************************************************************)
(* Machine-checked proofs about HedgeEngine: the cooldown book and the two *)
(* gauges, for every set of concurrent requests and number of backends,    *)
(* every cost, every streak length and every cooldown.                     *)
(***************************************************************************)
EXTENDS HedgeEngine, HedgeSums, SequenceTheorems

USE EngineAssumption

-----------------------------------------------------------------------------
\* Every clock read is of the past, and a run that records has made one.
ClockInv ==
    /\ now \in Nat \ {0}
    /\ phase \in [Runs -> {"new", "picking", "racing", "dialing", "released",
                           "recording", "returned"}]
    /\ stamp \in [Runs -> Nat]
    /\ \A r \in Runs : /\ stamp[r] <= now
                       /\ phase[r] = "recording" => stamp[r] # 0

BookType == cool \in [Backends -> Streak]

CoolInv == ClockInv /\ BookType /\ StreakMatchesWindow /\ CooldownIsBounded

\* What is true of one backend's entry at time n.
EntryOK(c, n) ==
    /\ c \in Streak
    /\ c.coolUntil # 0 <=> c.consecutive >= LossCooldownN
    /\ c.coolUntil <= n + LossCooldown

\* The book is right when each of its entries is.
LEMMA BookByEntries ==
    ASSUME cool \in [Backends -> Streak]
    PROVE  StreakMatchesWindow /\ CooldownIsBounded
             <=> \A b \in Backends : EntryOK(cool[b], now)
BY DEF StreakMatchesWindow, CooldownIsBounded, EntryOK

\* An entry that was reset is right at any time.
LEMMA FreshOK == ASSUME NEW n \in Nat PROVE EntryOK(Fresh, n)
BY DEF EntryOK, Fresh, Streak

\* A loss leaves an entry right if the time it is recorded with is not of the
\* future.
LEMMA RaiseOK ==
    ASSUME NEW c, NEW n \in Nat, NEW t \in Nat \ {0}, t <= n, EntryOK(c, n)
    PROVE  EntryOK(RaiseOnLoss(c, t), n)
BY DEF EntryOK, RaiseOnLoss, Streak

-----------------------------------------------------------------------------
\* The initial book is empty, and no clock was read.
LEMMA CoolInit == Init => CoolInv
<1> SUFFICES ASSUME Init PROVE CoolInv
  OBVIOUS
<1>1. ClockInv
  BY DEF Init, ClockInv
<1>2. BookType /\ \A b \in Backends : EntryOK(cool[b], now)
  BY FreshOK DEF Init, BookType, Fresh, Streak
<1> QED
  BY <1>1, <1>2, BookByEntries DEF CoolInv, BookType

\* Every step keeps the clock reads in the past.
LEMMA ClockStep == ClockInv /\ [Next]_vars => ClockInv'
<1> SUFFICES ASSUME ClockInv, [Next]_vars PROVE ClockInv'
  OBVIOUS
<1> USE DEF ClockInv
<1>1. ASSUME NEW r \in Runs, ReadClock(r) PROVE ClockInv'
  BY <1>1 DEF ReadClock
<1>2. ASSUME NEW r \in Runs, Pick(r) PROVE ClockInv'
  BY <1>2 DEF Pick
<1>3. ASSUME NEW r \in Runs, Start(r) \/ DialOk(r) \/ DialErr(r) \/ Release(r)
      PROVE  ClockInv'
  BY <1>3 DEF Start, DialOk, DialErr, Release, gauges
<1>4. ASSUME NEW r \in Runs, Record(r) PROVE ClockInv'
  BY <1>4 DEF Record
<1>5. CASE Tick
  BY <1>5 DEF Tick
<1>6. CASE UNCHANGED vars
  BY <1>6 DEF vars
<1> QED
  BY <1>1, <1>2, <1>3, <1>4, <1>5, <1>6 DEF Next, Terminated

\* What a step does to the entry of one backend: nothing, a reset, or a loss
\* recorded with the time the recording run has read.
LEMMA EntryStep ==
    ASSUME BookType, Next, NEW b \in Backends
    PROVE  \/ cool'[b] = cool[b]
           \/ cool'[b] = Fresh
           \/ \E r \in Runs : /\ phase[r] = "recording"
                             /\ cool'[b] = RaiseOnLoss(cool[b], stamp[r])
<1>1. ASSUME NEW r \in Runs, Pick(r)
      PROVE  cool'[b] = cool[b] \/ cool'[b] = Fresh
  BY <1>1 DEF Pick
<1>2. ASSUME NEW r \in Runs, Record(r)
      PROVE  \/ cool'[b] = cool[b]
             \/ cool'[b] = Fresh
             \/ /\ phase[r] = "recording"
                /\ cool'[b] = RaiseOnLoss(cool[b], stamp[r])
  BY <1>2 DEF Record, ResetOnWin
<1>3. ASSUME NEW r \in Runs,
             ReadClock(r) \/ Start(r) \/ DialOk(r) \/ DialErr(r) \/ Release(r)
      PROVE  cool' = cool
  BY <1>3 DEF ReadClock, Start, DialOk, DialErr, Release
<1>4. CASE Tick \/ Terminated
  BY <1>4 DEF Tick, Terminated, vars
<1> QED
  BY <1>1, <1>2, <1>3, <1>4 DEF Next

\* A step replaces the book by a book, over the same backends.
LEMMA BookDomain ==
    ASSUME BookType, Next
    PROVE  cool' = [b \in Backends |-> cool'[b]]
<1>1. ASSUME NEW r \in Runs, Pick(r) \/ Record(r)
      PROVE  cool' = [b \in Backends |-> cool'[b]]
  BY <1>1 DEF Pick, Record
<1>2. ASSUME NEW r \in Runs,
             ReadClock(r) \/ Start(r) \/ DialOk(r) \/ DialErr(r) \/ Release(r)
      PROVE  cool' = cool
  BY <1>2 DEF ReadClock, Start, DialOk, DialErr, Release
<1>3. CASE Tick \/ Terminated
  BY <1>3 DEF Tick, Terminated, vars, BookType
<1> QED
  BY <1>1, <1>2, <1>3 DEF Next, BookType

\* Time does not run backwards.
LEMMA NowStep == ClockInv /\ Next => now <= now'
<1> SUFFICES ASSUME ClockInv, Next PROVE now <= now'
  OBVIOUS
<1>1. ASSUME NEW r \in Runs,
             \/ ReadClock(r) \/ Pick(r) \/ Start(r) \/ DialOk(r)
             \/ DialErr(r) \/ Release(r) \/ Record(r)
      PROVE  now' = now
  <2>1. CASE ReadClock(r) \/ Pick(r) \/ Start(r) \/ DialOk(r)
    BY <2>1 DEF ReadClock, Pick, Start, DialOk
  <2>2. CASE DialErr(r) \/ Release(r)
    BY <2>2 DEF DialErr, Release
  <2>3. CASE Record(r)
    BY <2>3 DEF Record
  <2> QED
    BY <1>1, <2>1, <2>2, <2>3
<1>2. CASE Tick
  BY <1>2 DEF ClockInv, Tick
<1>3. CASE Terminated
  BY <1>3 DEF ClockInv, Terminated, vars
<1> QED
  BY <1>1, <1>2, <1>3 DEF ClockInv, Next

\* Every step keeps the cooldown book right, whichever runs it interleaves.
LEMMA CoolStep == CoolInv /\ [Next]_vars => CoolInv'
<1> SUFFICES ASSUME CoolInv, [Next]_vars PROVE CoolInv'
  OBVIOUS
<1>1. ClockInv'
  BY ClockStep DEF CoolInv
<1>2. CASE UNCHANGED vars
  BY <1>1, <1>2
  DEF vars, CoolInv, BookType, StreakMatchesWindow, CooldownIsBounded
<1>3. CASE Next
  <2>1. \A b \in Backends : EntryOK(cool[b], now)
    BY BookByEntries DEF CoolInv, BookType
  <2>2. now \in Nat \ {0} /\ now' \in Nat \ {0} /\ now <= now'
    BY <1>1, <1>3, NowStep DEF CoolInv, ClockInv
  <2>3. ASSUME NEW b \in Backends PROVE EntryOK(cool'[b], now')
    <3>1. EntryOK(cool[b], now')
      BY <2>1, <2>2 DEF EntryOK, Streak
    <3>2. ASSUME NEW r \in Runs, phase[r] = "recording"
          PROVE  EntryOK(RaiseOnLoss(cool[b], stamp[r]), now')
      <4>1. stamp[r] \in Nat \ {0} /\ stamp[r] <= now'
        BY <3>2, <2>2 DEF CoolInv, ClockInv
      <4> QED
        BY <3>1, <4>1, <2>2, RaiseOK
    <3> QED
      BY <3>1, <3>2, <2>2, <1>3, EntryStep, FreshOK DEF CoolInv
  <2>4. BookType'
    BY <2>3, <1>3, BookDomain DEF CoolInv, BookType, EntryOK
  <2> QED
    BY <1>1, <2>3, <2>4 
    DEF CoolInv, BookType, StreakMatchesWindow, CooldownIsBounded, EntryOK
<1> QED
  BY <1>2, <1>3

\* The clock reads, the types of the book and the two invariants together.
THEOREM CooldownBook == Spec => []CoolInv
BY CoolInit, CoolStep, PTL DEF Spec

\* A backend has a cooldown window exactly if it lost LossCooldownN times in a
\* row, however many requests record wins and losses at once.
THEOREM StreaksMatchWindows == Spec => []StreakMatchesWindow
BY CooldownBook, PTL DEF CoolInv

\* No backend is ever shut out for longer than the configured cooldown.
THEOREM CooldownsAreBounded == Spec => []CooldownIsBounded
BY CooldownBook, PTL DEF CoolInv

-----------------------------------------------------------------------------
(* What eligibleBackends returns.                                          *)

\* F lists, for each n up to m, the open ones of the first n backends.
ListsOpen(m, t, F) ==
    F = [n \in 0 .. m |-> IF n = 0 THEN <<>>
                          ELSE IF CoolingAt(n, t) THEN F[n - 1]
                          ELSE Append(F[n - 1], n)]

\* The loop's list exists, whatever the number of backends.
LEMMA OpenListed ==
    ASSUME NEW t
    PROVE  \E F : ListsOpen(NB, t, F)
<1> DEFINE T == {m \in 0 .. NB : ~ \E F : ListsOpen(m, t, F)}
<1>1. SUFFICES ASSUME T # {} PROVE FALSE
  <2>1. NB \in 0 .. NB
    OBVIOUS
  <2> QED
    BY <1>1, <2>1
<1>2. PICK m \in T : \A n \in T : m <= n
  <2>1. T \in SUBSET Nat
    OBVIOUS
  <2> HIDE DEF T
  <2> QED
    BY <1>1, <2>1, SmallestNumber
<1>3. CASE m = 0
  <2> DEFINE F == [n \in 0 .. 0 |-> <<>>]
  <2>1. ListsOpen(0, t, F)
    BY DEF ListsOpen
  <2> QED
    BY <1>2, <1>3, <2>1
<1>4. CASE m # 0
  <2>1. m \in Nat /\ m - 1 \in 0 .. NB /\ m - 1 < m
    BY <1>2, <1>4
  <2>2. PICK G : ListsOpen(m - 1, t, G)
    BY <1>2, <2>1
  <2> DEFINE last == IF CoolingAt(m, t) THEN G[m - 1] ELSE Append(G[m - 1], m)
             F == [n \in 0 .. m |-> IF n < m THEN G[n] ELSE last]
  <2>3. ASSUME NEW n \in 0 .. m
        PROVE  F[n] = IF n = 0 THEN <<>>
                      ELSE IF CoolingAt(n, t) THEN F[n - 1]
                      ELSE Append(F[n - 1], n)
    <3>1. CASE n = m
      <4>1. F[n] = last /\ F[n - 1] = G[m - 1]
        BY <2>1, <3>1
      <4> QED
        BY <1>4, <3>1, <4>1
    <3>2. CASE n < m
      <4>1. n \in 0 .. m - 1 /\ F[n] = G[n]
        BY <2>1, <3>2
      <4>2. G[n] = IF n = 0 THEN <<>>
                   ELSE IF CoolingAt(n, t) THEN G[n - 1]
                   ELSE Append(G[n - 1], n)
        BY <2>2, <4>1 DEF ListsOpen
      <4>3. n # 0 => F[n - 1] = G[n - 1]
        BY <2>1, <3>2
      <4> QED
        BY <4>1, <4>2, <4>3
    <3> QED
      BY <2>1, <3>1, <3>2
  <2>4. ListsOpen(m, t, F)
    <3>1. F = [n \in 0 .. m |-> F[n]]
      OBVIOUS
    <3> HIDE DEF F
    <3> QED
      BY <2>3, <3>1 DEF ListsOpen
  <2> QED
    BY <1>2, <2>4
<1> QED
  BY <1>3, <1>4

\* It lists configured backends, each at most once.
LEMMA OpenType ==
    ASSUME NEW t
    PROVE  OpenAt(t) \in Seq(Backends) /\ Len(OpenAt(t)) <= NB
<1> DEFINE F == CHOOSE G : ListsOpen(NB, t, G)
<1>1. ListsOpen(NB, t, F)
  BY OpenListed
<1>2. OpenAt(t) = F[NB]
  BY DEF OpenAt, ListsOpen
<1> HIDE DEF F
<1> DEFINE Good(n) == F[n] \in Seq(Backends) /\ Len(F[n]) <= n
           T == {n \in 0 .. NB : ~Good(n)}
<1>3. ASSUME NEW n \in 0 .. NB
      PROVE  F[n] = IF n = 0 THEN <<>>
                    ELSE IF CoolingAt(n, t) THEN F[n - 1]
                    ELSE Append(F[n - 1], n)
  BY <1>1 DEF ListsOpen
<1>4. SUFFICES ASSUME T # {} PROVE FALSE
  <2>1. NB \in 0 .. NB
    OBVIOUS
  <2> QED
    BY <1>2, <1>4, <2>1
<1>5. PICK m \in T : \A n \in T : m <= n
  <2>1. T \in SUBSET Nat
    OBVIOUS
  <2> HIDE DEF T
  <2> QED
    BY <1>4, <2>1, SmallestNumber
<1>6. m # 0
  <2>1. F[0] = <<>>
    BY <1>3
  <2>2. Good(0)
    BY <2>1
  <2> QED
    BY <1>5, <2>2
<1>7. m \in Backends /\ m - 1 \in 0 .. NB /\ m - 1 \notin T
  BY <1>5, <1>6 DEF Backends
<1>8. Good(m - 1)
  BY <1>7
<1>9. Len(F[m - 1]) \in Nat /\ Append(F[m - 1], m) \in Seq(Backends)
      /\ Len(Append(F[m - 1], m)) = Len(F[m - 1]) + 1
  BY <1>7, <1>8, LenProperties, AppendProperties
<1>10. F[m] = F[m - 1] \/ F[m] = Append(F[m - 1], m)
  BY <1>3, <1>5, <1>6
<1>11. Good(m)
  <2>1. F[m - 1] \in Seq(Backends) /\ Len(F[m - 1]) <= m - 1 /\ m \in Int
    BY <1>7, <1>8 DEF Backends
  <2>2. CASE F[m] = F[m - 1]
    <3>1. Len(F[m - 1]) <= m
      BY <1>9, <2>1
    <3> QED
      BY <2>1, <2>2, <3>1
  <2>3. CASE F[m] = Append(F[m - 1], m)
    <3>1. Len(F[m - 1]) + 1 <= m
      BY <1>9, <2>1
    <3> QED
      BY <1>9, <2>3, <3>1
  <2> QED
    BY <1>10, <2>2, <2>3
<1> QED
  BY <1>5, <1>11

-----------------------------------------------------------------------------
(* What a run holds: a of the backends e were attempted, those in F failed. *)

CountOf(a, F) == Cardinality((1 .. a) \ F)
PriceAt(e, a) == [k \in 1 .. a |-> Cost[e[k]]]
PriceOf(e, a, F) == SumOf(PriceAt(e, a), (1 .. a) \ F)

\* The positions held are finitely many.
LEMMA PositionsFinite ==
    ASSUME NEW a \in Nat, NEW F
    PROVE  IsFiniteSet((1 .. a) \ F)
<1>1. IsFiniteSet(1 .. a)
  BY FS_Interval
<1> QED
  BY <1>1, FS_Subset

\* Each attempted position has a price.
LEMMA PriceEach ==
    ASSUME NEW e \in Seq(Backends), NEW a \in Nat, a <= Len(e)
    PROVE  \A k \in 1 .. a : PriceAt(e, a)[k] = Cost[e[k]] /\ Cost[e[k]] \in Nat
<1>1. Len(e) \in Nat
  BY LenProperties
<1>2. \A k \in 1 .. a : e[k] \in Backends
  BY <1>1, ElementOfSeq
<1> QED
  BY <1>2 DEF PriceAt

\* A run's count and price are natural numbers.
LEMMA HoldingType ==
    ASSUME NEW e \in Seq(Backends), NEW a \in Nat, a <= Len(e), NEW F
    PROVE  CountOf(a, F) \in Nat /\ PriceOf(e, a, F) \in Nat
<1>1. \A k \in (1 .. a) \ F : PriceAt(e, a)[k] \in Nat
  BY PriceEach
<1> QED
  BY <1>1, PositionsFinite, FS_CardinalityType, SumNat DEF CountOf, PriceOf

\* A run that attempted nothing holds nothing.
LEMMA HoldingNothing ==
    ASSUME NEW e, NEW F
    PROVE  CountOf(0, F) = 0 /\ PriceOf(e, 0, F) = 0
<1>1. (1 .. 0) \ F = {}
  OBVIOUS
<1> QED
  BY <1>1, FS_EmptySet, SumEmpty DEF CountOf, PriceOf

\* An attempt adds one backend, and its cost.
LEMMA HoldingMore ==
    ASSUME NEW e \in Seq(Backends), NEW a \in Nat, a + 1 <= Len(e),
           NEW F, F \subseteq 1 .. a
    PROVE  /\ CountOf(a + 1, F) = CountOf(a, F) + 1
           /\ PriceOf(e, a + 1, F) = PriceOf(e, a, F) + Cost[e[a + 1]]
<1> DEFINE H == (1 .. a) \ F
<1>1. (1 .. a + 1) \ F = H \cup {a + 1} /\ a + 1 \notin H
  OBVIOUS
<1>2. IsFiniteSet(H)
  BY PositionsFinite
<1>3. \A k \in H \cup {a + 1} : PriceAt(e, a + 1)[k] \in Nat
  BY PriceEach
<1>4. \A k \in H : PriceAt(e, a + 1)[k] = PriceAt(e, a)[k]
  BY DEF PriceAt
<1>5. PriceAt(e, a + 1)[a + 1] = Cost[e[a + 1]] /\ Cost[e[a + 1]] \in Nat
  BY PriceEach
<1>6. /\ CountOf(a + 1, F) = Cardinality(H \cup {a + 1})
      /\ CountOf(a, F) = Cardinality(H)
      /\ PriceOf(e, a + 1, F) = SumOf(PriceAt(e, a + 1), H \cup {a + 1})
      /\ PriceOf(e, a, F) = SumOf(PriceAt(e, a), H)
  BY <1>1 DEF CountOf, PriceOf
<1> HIDE DEF H
<1>7. SumOf(PriceAt(e, a + 1), H \cup {a + 1})
        = PriceAt(e, a + 1)[a + 1] + SumOf(PriceAt(e, a + 1), H)
  <2>1. \A k \in H \cup {a + 1} : PriceAt(e, a + 1)[k] \in Int
    BY <1>3
  <2> QED
    BY <1>1, <1>2, <2>1, SumAdd
<1>8. SumOf(PriceAt(e, a + 1), H) = SumOf(PriceAt(e, a), H)
  BY <1>2, <1>4, SumSame
<1>9. SumOf(PriceAt(e, a + 1), H) \in Nat
  BY <1>2, <1>3, SumNat
<1>10. PriceOf(e, a + 1, F) = PriceOf(e, a, F) + Cost[e[a + 1]]
  BY <1>5, <1>6, <1>7, <1>8, <1>9
<1>11. CountOf(a + 1, F) = CountOf(a, F) + 1
  BY <1>1, <1>2, <1>6, FS_AddElement
<1> QED
  BY <1>10, <1>11

\* A failed attempt takes one backend off, and its cost.
LEMMA HoldingLess ==
    ASSUME NEW e \in Seq(Backends), NEW a \in Nat \ {0}, a <= Len(e),
           NEW F, a \notin F
    PROVE  /\ CountOf(a, F) = CountOf(a, F \cup {a}) + 1
           /\ PriceOf(e, a, F) = PriceOf(e, a, F \cup {a}) + Cost[e[a]]
<1> DEFINE H == (1 .. a) \ F
<1>1. (1 .. a) \ (F \cup {a}) = H \ {a} /\ a \in H
  OBVIOUS
<1>2. IsFiniteSet(H) /\ IsFiniteSet(H \ {a})
  BY PositionsFinite, FS_Subset
<1>3. \A k \in H : PriceAt(e, a)[k] \in Nat
  BY PriceEach
<1>4. PriceAt(e, a)[a] = Cost[e[a]] /\ Cost[e[a]] \in Nat
  BY PriceEach
<1>5. /\ CountOf(a, F) = Cardinality(H)
      /\ CountOf(a, F \cup {a}) = Cardinality(H \ {a})
      /\ PriceOf(e, a, F) = SumOf(PriceAt(e, a), H)
      /\ PriceOf(e, a, F \cup {a}) = SumOf(PriceAt(e, a), H \ {a})
  BY <1>1 DEF CountOf, PriceOf
<1> HIDE DEF H
<1>6. SumOf(PriceAt(e, a), H) = PriceAt(e, a)[a] + SumOf(PriceAt(e, a), H \ {a})
  <2>1. \A k \in H : PriceAt(e, a)[k] \in Int
    BY <1>3
  <2> QED
    BY <1>1, <1>2, <2>1, SumSplit
<1>7. SumOf(PriceAt(e, a), H \ {a}) \in Nat
  BY <1>2, <1>3, SumNat
<1>8. PriceOf(e, a, F) = PriceOf(e, a, F \cup {a}) + Cost[e[a]]
  BY <1>4, <1>5, <1>6, <1>7
<1>9. CountOf(a, F) = CountOf(a, F \cup {a}) + 1
  <2>1. Cardinality(H \ {a}) = Cardinality(H) - 1
    BY <1>1, <1>2, FS_RemoveElement
  <2>2. Cardinality(H) \in Nat
    BY <1>2, FS_CardinalityType
  <2> QED
    BY <1>5, <2>1, <2>2
<1> QED
  BY <1>8, <1>9

-----------------------------------------------------------------------------
(* What the runs are at.                                                   *)

RaceTypes ==
    /\ pol \in [Runs -> Policies]
    /\ elig \in [Runs -> Seq(Backends)]
    /\ attempted \in [Runs -> 0 .. NB] /\ won \in [Runs -> 0 .. NB]
    /\ failed \in [Runs -> SUBSET Backends]

\* A run attempts backends of its snapshot, none before its snapshot and none
\* that stays behind it.
RaceInv ==
    /\ \A r \in Runs :
         /\ attempted[r] <= Len(elig[r]) /\ Len(elig[r]) <= NB
         /\ failed[r] \subseteq Attempted(r)
         /\ phase[r] \in {"new", "picking", "returned"} => attempted[r] = 0
         /\ phase[r] = "dialing" => attempted[r] # 0 /\ attempted[r] \notin failed[r]
    /\ IsFiniteSet(Holding)

\* The initial runs have attempted nothing.
LEMMA RaceInit == Init => RaceTypes /\ RaceInv
<1> SUFFICES ASSUME Init PROVE RaceTypes /\ RaceInv
  OBVIOUS
<1>1. RaceTypes
  BY DEF Init, RaceTypes, DefaultPolicy
<1>2. Holding = {}
  BY DEF Init, Holding
<1>3. RaceInv
  BY <1>2, FS_EmptySet DEF Init, RaceInv, Attempted
<1> QED
  BY <1>1, <1>3

\* One more run holds, or one less.
LEMMA HoldingFinite ==
    ASSUME IsFiniteSet(Holding), NEW r, Holding' \subseteq Holding \cup {r}
    PROVE  IsFiniteSet(Holding')
<1>1. IsFiniteSet(Holding \cup {r})
  BY FS_AddElement
<1> QED
  BY <1>1, FS_Subset

\* Every step keeps the runs' types and their snapshots.
LEMMA RaceStep ==
    ASSUME ClockInv, RaceTypes, RaceInv, Next
    PROVE  RaceTypes' /\ RaceInv'
<1> USE DEF RaceTypes, RaceInv, Attempted
<1>p. phase \in [Runs -> {"new", "picking", "racing", "dialing", "released",
                         "recording", "returned"}]
  BY DEF ClockInv
<1>h. ASSUME NEW r \in Runs, \A q \in Runs : q # r => phase'[q] = phase[q]
      PROVE  IsFiniteSet(Holding')
  <2>1. Holding' \subseteq Holding \cup {r}
    BY <1>h DEF Holding
  <2> QED
    BY <2>1, HoldingFinite
<1>l. \A r \in Runs : Len(elig[r]) \in Nat
  BY LenProperties
<1>1. ASSUME NEW r \in Runs, ReadClock(r) PROVE RaceTypes' /\ RaceInv'
  <2>1. IsFiniteSet(Holding')
    BY <1>1, <1>p, <1>h DEF ReadClock
  <2> QED
    BY <1>1, <1>p, <2>1 DEF ReadClock, race
<1>2. ASSUME NEW r \in Runs, Pick(r) PROVE RaceTypes' /\ RaceInv'
  <2>1. IsFiniteSet(Holding')
    BY <1>2, <1>p, <1>h DEF Pick
  <2>2. OpenAt(stamp[r]) \in Seq(Backends) /\ Len(OpenAt(stamp[r])) <= NB
    BY OpenType
  <2>3. Len(OpenAt(stamp[r])) \in Nat /\ attempted[r] = 0
    BY <1>2, <2>2, LenProperties DEF Pick
  <2>4. CASE UNCHANGED <<pol, elig>> /\ phase' = [phase EXCEPT ![r] = "returned"]
    BY <1>2, <1>p, <2>1, <2>3, <2>4 DEF Pick, race
  <2>5. CASE /\ phase' = [phase EXCEPT ![r] = "racing"]
             /\ elig' = [elig EXCEPT ![r] = OpenAt(stamp[r])]
             /\ \E p \in Policies : pol' = [pol EXCEPT ![r] = p]
    <3>1. RaceTypes'
      BY <1>2, <2>2, <2>5 DEF Pick, race
    <3>2. RaceInv'
      BY <1>2, <1>p, <2>1, <2>2, <2>3, <2>5, SMTT(30) DEF Pick, race
    <3> QED
      BY <3>1, <3>2
  <2> QED
    BY <1>2, <2>4, <2>5 DEF Pick
<1>3. ASSUME NEW r \in Runs, Start(r) PROVE RaceTypes' /\ RaceInv'
  <2>1. IsFiniteSet(Holding')
    BY <1>3, <1>p, <1>h DEF Start
  <2>2. attempted[r] \in 0 .. NB /\ attempted[r] + 1 <= Len(elig[r])
    BY <1>3, <1>l DEF Start, MayStart
  <2>3. attempted[r] + 1 \in 0 .. NB /\ attempted[r] + 1 \notin failed[r]
    BY <1>l, <2>2
  <2>4. /\ attempted' = [attempted EXCEPT ![r] = attempted[r] + 1]
        /\ phase' = [phase EXCEPT ![r] = "dialing"]
        /\ UNCHANGED <<pol, elig, failed, won>>
    BY <1>3 DEF Start
  <2>5. RaceTypes'
    BY <2>3, <2>4
  <2>6. ASSUME NEW q \in Runs
        PROVE  /\ attempted'[q] <= Len(elig'[q]) /\ Len(elig'[q]) <= NB
               /\ failed'[q] \subseteq 1 .. attempted'[q]
               /\ phase'[q] \in {"new", "picking", "returned"} => attempted'[q] = 0
               /\ phase'[q] = "dialing" =>
                    attempted'[q] # 0 /\ attempted'[q] \notin failed'[q]
    <3>1. CASE q = r
      <4>1. attempted'[q] = attempted[r] + 1 /\ phase'[q] = "dialing"
        BY <1>p, <2>4, <3>1
      <4> QED
        BY <1>l, <2>2, <2>3, <2>4, <3>1, <4>1
    <3>2. CASE q # r
      BY <1>p, <2>4, <3>2
    <3> QED
      BY <3>1, <3>2
  <2> QED
    BY <2>1, <2>5, <2>6
<1>4. ASSUME NEW r \in Runs, DialOk(r) PROVE RaceTypes' /\ RaceInv'
  <2>1. IsFiniteSet(Holding')
    BY <1>4, <1>p, <1>h DEF DialOk
  <2> QED
    BY <1>4, <1>p, <2>1 DEF DialOk, race
<1>5. ASSUME NEW r \in Runs, DialErr(r) PROVE RaceTypes' /\ RaceInv'
  <2>1. IsFiniteSet(Holding')
    BY <1>5, <1>p, <1>h DEF DialErr
  <2>2. attempted[r] \in Backends /\ attempted[r] \in 1 .. attempted[r]
    BY <1>5, SMTT(30) DEF DialErr, Backends
  <2> QED
    BY <1>5, <1>p, <2>1, <2>2 DEF DialErr
<1>6. ASSUME NEW r \in Runs, Release(r) PROVE RaceTypes' /\ RaceInv'
  <2>1. IsFiniteSet(Holding')
    BY <1>6, <1>p, <1>h DEF Release
  <2>2. PICK w \in Held(r) \cup {0} : won' = [won EXCEPT ![r] = w]
    BY <1>6 DEF Release
  <2>3. w \in 0 .. NB
    BY <2>2 DEF Held
  <2> QED
    BY <1>6, <1>p, <2>1, <2>2, <2>3 DEF Release
<1>7. ASSUME NEW r \in Runs, Record(r) PROVE RaceTypes' /\ RaceInv'
  <2>1. IsFiniteSet(Holding')
    BY <1>7, <1>p, <1>h DEF Record
  <2>2. <<>> \in Seq(Backends) /\ Len(<<>>) = 0 /\ DefaultPolicy \in Policies
    BY DEF DefaultPolicy
  <2> QED
    BY <1>7, <1>p, <2>1, <2>2 DEF Record
<1>8. CASE Tick \/ Terminated
  <2>1. UNCHANGED <<phase, pol, elig, attempted, failed, won>>
    BY <1>8 DEF Tick, Terminated, vars, race
  <2> QED
    BY <2>1 DEF Holding
<1> QED
  BY <1>1, <1>2, <1>3, <1>4, <1>5, <1>6, <1>7, <1>8 DEF Next

-----------------------------------------------------------------------------
(* The gauges.                                                             *)

HeldCount == [r \in Runs |-> CountOf(attempted[r], failed[r])]
HeldPrice == [r \in Runs |-> PriceOf(elig[r], attempted[r], failed[r])]

\* GaugesAreSums, with the summands as functions of the run.
GaugeInv ==
    /\ inFlight = SumOf(HeldCount, Holding)
    /\ committedCost = SumOf(HeldPrice, Holding)

\* What the model sums over the positions of a run is the run's price.
LEMMA HeldIsSummed ==
    ASSUME RaceTypes, NEW r \in Runs
    PROVE  Cardinality(Held(r)) = HeldCount[r] /\ CostOf(r, Held(r)) = HeldPrice[r]
<1> DEFINE f == PriceAt(elig[r], attempted[r])
           S == Held(r)
           Step(s, it) == IF s = {} THEN 0
                          ELSE Cost[elig[r][AnyOf(s)]] + it[s \ {AnyOf(s)}]
           Iterates(it) == it = [s \in SUBSET S |-> Step(s, it)]
           c == CHOOSE it : Iterates(it)
<1>1. CostOf(r, S) = c[S]
  BY DEF CostOf, MapThenSumSet, MapThenFoldSet, AnyOf
<1>2. S = (1 .. attempted[r]) \ failed[r] /\ IsFiniteSet(S)
  <2>1. attempted[r] \in Nat
    BY DEF RaceTypes
  <2> QED
    BY <2>1, PositionsFinite DEF Held, Attempted
<1>3. ASSUME NEW it PROVE Iterates(it) <=> IsFold(f, S, it)
  <2>1. ASSUME NEW s \in SUBSET S
        PROVE  Step(s, it) = IF s = {} THEN 0 ELSE f[AnyOf(s)] + it[s \ {AnyOf(s)}]
    <3>1. CASE s = {}
      BY <3>1
    <3>2. CASE s # {}
      <4>1. AnyOf(s) \in 1 .. attempted[r]
        BY <1>2, <3>2 DEF AnyOf
      <4>2. f[AnyOf(s)] = Cost[elig[r][AnyOf(s)]]
        BY <4>1 DEF PriceAt
      <4> QED
        BY <3>2, <4>2
    <3> QED
      BY <3>1, <3>2
  <2> HIDE DEF Step, S, f
  <2> QED
    BY <2>1 DEF IsFold
<1> HIDE DEF Iterates
<1>4. IsFold(f, S, c)
  <2>1. \E it : Iterates(it)
    BY <1>2, <1>3, FoldExists
  <2>2. Iterates(c)
    BY <2>1
  <2> QED
    BY <1>3, <2>2
<1> HIDE DEF c
<1>5. c[S] = SumOf(f, S)
  BY <1>2, <1>4, FoldIsSum
<1> QED
  BY <1>1, <1>2, <1>5 DEF HeldCount, HeldPrice, CountOf, PriceOf

\* What the runs hold, and the gauges, are natural numbers.
LEMMA GaugeTypes ==
    ASSUME RaceTypes, RaceInv
    PROVE  /\ \A r \in Runs : HeldCount[r] \in Nat /\ HeldPrice[r] \in Nat
           /\ \A r \in Holding : HeldCount[r] \in Nat /\ HeldPrice[r] \in Nat
           /\ SumOf(HeldCount, Holding) \in Nat
           /\ SumOf(HeldPrice, Holding) \in Nat
<1>1. ASSUME NEW r \in Runs PROVE HeldCount[r] \in Nat /\ HeldPrice[r] \in Nat
  BY HoldingType DEF RaceTypes, RaceInv, HeldCount, HeldPrice
<1>2. Holding \subseteq Runs /\ IsFiniteSet(Holding)
  BY DEF Holding, RaceInv
<1>3. \A r \in Holding : HeldCount[r] \in Nat /\ HeldPrice[r] \in Nat
  BY <1>1, <1>2
<1> QED
  BY <1>1, <1>2, <1>3, SumNat

\* A run that attempts and fails nothing holds what it held.
LEMMA HeldFrame ==
    ASSUME NEW r \in Runs, attempted'[r] = attempted[r], failed'[r] = failed[r],
           elig'[r] = elig[r]
    PROVE  HeldCount'[r] = HeldCount[r] /\ HeldPrice'[r] = HeldPrice[r]
BY DEF HeldCount, HeldPrice

\* The gauges stay right when no run that holds, before or after, is touched.
LEMMA GaugeFrame ==
    ASSUME RaceTypes, RaceInv, GaugeInv, UNCHANGED <<inFlight, committedCost>>,
           Holding' = Holding,
           \A r \in Holding : /\ attempted'[r] = attempted[r]
                              /\ failed'[r] = failed[r] /\ elig'[r] = elig[r]
    PROVE  GaugeInv'
<1>1. \A r \in Holding : HeldCount'[r] = HeldCount[r] /\ HeldPrice'[r] = HeldPrice[r]
  BY HeldFrame DEF Holding
<1>2. /\ SumOf(HeldCount', Holding) = SumOf(HeldCount, Holding)
      /\ SumOf(HeldPrice', Holding) = SumOf(HeldPrice, Holding)
  BY <1>1, SumSame DEF RaceInv
<1> QED
  BY <1>2 DEF GaugeInv

\* The gauges stay right when they move by what one holding run's share does.
LEMMA GaugeMove ==
    ASSUME RaceTypes, RaceInv, GaugeInv, Holding' = Holding, NEW r \in Holding,
           NEW n \in Nat, NEW c \in Nat, HeldCount'[r] = n, HeldPrice'[r] = c,
           \A q \in Runs : q # r => /\ attempted'[q] = attempted[q]
                                    /\ failed'[q] = failed[q] /\ elig'[q] = elig[q]
    PROVE  /\ SumOf(HeldCount, Holding)' = inFlight - HeldCount[r] + n
           /\ SumOf(HeldPrice, Holding)' = committedCost - HeldPrice[r] + c
<1>1. \A q \in Holding \ {r} :
        HeldCount'[q] = HeldCount[q] /\ HeldPrice'[q] = HeldPrice[q]
  BY HeldFrame DEF Holding
<1>2. \A q \in Holding : /\ HeldCount[q] \in Int /\ HeldCount'[q] \in Int
                         /\ HeldPrice[q] \in Int /\ HeldPrice'[q] \in Int
  BY <1>1, GaugeTypes
<1>f. IsFiniteSet(Holding)
  BY DEF RaceInv
<1>3. SumOf(HeldCount', Holding) = SumOf(HeldCount, Holding) - HeldCount[r] + n
  <2>1. \A q \in Holding : HeldCount[q] \in Int /\ HeldCount'[q] \in Int
    BY <1>2
  <2>2. \A q \in Holding \ {r} : HeldCount[q] = HeldCount'[q]
    BY <1>1
  <2> QED
    BY <1>f, <2>1, <2>2, SumChange
<1>4. SumOf(HeldPrice', Holding) = SumOf(HeldPrice, Holding) - HeldPrice[r] + c
  <2>1. \A q \in Holding : HeldPrice[q] \in Int /\ HeldPrice'[q] \in Int
    BY <1>2
  <2>2. \A q \in Holding \ {r} : HeldPrice[q] = HeldPrice'[q]
    BY <1>1
  <2> QED
    BY <1>f, <2>1, <2>2, SumChange
<1> QED
  BY <1>3, <1>4 DEF GaugeInv

\* Every step keeps each gauge the sum of what the runs hold.
LEMMA GaugeStep ==
    ASSUME ClockInv, RaceTypes, RaceInv, GaugeInv, Next
    PROVE  GaugeInv'
<1>p. phase \in [Runs -> {"new", "picking", "racing", "dialing", "released",
                         "recording", "returned"}]
  BY DEF ClockInv
<1>t. /\ elig \in [Runs -> Seq(Backends)]
      /\ attempted \in [Runs -> 0 .. NB]
      /\ failed \in [Runs -> SUBSET Backends]
  BY DEF RaceTypes
<1>1. ASSUME NEW r \in Runs, ReadClock(r) PROVE GaugeInv'
  <2>1. Holding' = Holding
    BY <1>1, <1>p DEF ReadClock, Holding
  <2> QED
    BY <1>1, <2>1, GaugeFrame DEF ReadClock, gauges, race
<1>2. ASSUME NEW r \in Runs, Pick(r) PROVE GaugeInv'
  <2>1. phase[r] = "picking" /\ r \notin Holding /\ UNCHANGED <<inFlight, committedCost>>
    BY <1>2 DEF Pick, Holding, gauges
  <2>2. \A q \in Holding : /\ attempted'[q] = attempted[q] /\ failed'[q] = failed[q]
                           /\ elig'[q] = elig[q]
    BY <1>2, <1>t, <2>1 DEF Pick, race, Holding
  <2>3. CASE Holding' = Holding
    BY <2>1, <2>2, <2>3, GaugeFrame
  <2>4. CASE Holding' = Holding \cup {r}
    <3>1. \A q \in Holding : HeldCount'[q] = HeldCount[q] /\ HeldPrice'[q] = HeldPrice[q]
      BY <2>2, HeldFrame DEF Holding
    <3>2. HeldCount'[r] = 0 /\ HeldPrice'[r] = 0
      <4>1. attempted'[r] = 0
        BY <1>2, <2>1 DEF Pick, race, RaceInv
      <4>2. HeldCount'[r] = CountOf(attempted'[r], failed'[r])
            /\ HeldPrice'[r] = PriceOf(elig'[r], attempted'[r], failed'[r])
        BY DEF HeldCount, HeldPrice
      <4> QED
        BY <4>1, <4>2, HoldingNothing
    <3>3. \A q \in Holding \cup {r} : HeldCount'[q] \in Int /\ HeldPrice'[q] \in Int
      BY <3>1, <3>2, GaugeTypes
    <3>4. IsFiniteSet(Holding)
      BY DEF RaceInv
    <3>5. /\ SumOf(HeldCount', Holding \cup {r}) = HeldCount'[r] + SumOf(HeldCount', Holding)
          /\ SumOf(HeldPrice', Holding \cup {r}) = HeldPrice'[r] + SumOf(HeldPrice', Holding)
      BY <2>1, <3>3, <3>4, SumAdd
    <3>6. /\ SumOf(HeldCount', Holding) = SumOf(HeldCount, Holding)
          /\ SumOf(HeldPrice', Holding) = SumOf(HeldPrice, Holding)
      BY <3>1, <3>4, SumSame
    <3> QED
      BY <2>1, <2>4, <3>2, <3>5, <3>6, GaugeTypes DEF GaugeInv
  <2>5. Holding' = Holding \/ Holding' = Holding \cup {r}
    BY <1>2, <1>p, <2>1 DEF Pick, Holding
  <2> QED
    BY <2>3, <2>4, <2>5
<1>3. ASSUME NEW r \in Runs, Start(r) PROVE GaugeInv'
  <2> DEFINE a == attempted[r]
  <2>1. /\ Holding' = Holding /\ r \in Holding
        /\ \A q \in Runs : q # r => /\ attempted'[q] = attempted[q]
                                    /\ failed'[q] = failed[q] /\ elig'[q] = elig[q]
    BY <1>3, <1>p, <1>t DEF Start, Holding
  <2>2. a \in Nat /\ a + 1 <= Len(elig[r]) /\ failed[r] \subseteq 1 .. a
        /\ elig[r] \in Seq(Backends)
    <3>1. Len(elig[r]) \in Nat
      BY <1>t, LenProperties
    <3> QED
      BY <1>3, <1>t, <3>1 DEF Start, MayStart, RaceInv, Attempted
  <2>3. /\ HeldCount'[r] = CountOf(a + 1, failed[r])
        /\ HeldPrice'[r] = PriceOf(elig[r], a + 1, failed[r])
        /\ HeldCount[r] = CountOf(a, failed[r])
        /\ HeldPrice[r] = PriceOf(elig[r], a, failed[r])
    BY <1>3, <1>t DEF Start, HeldCount, HeldPrice
  <2> HIDE DEF a
  <2>4. /\ HeldCount'[r] = HeldCount[r] + 1
        /\ HeldPrice'[r] = HeldPrice[r] + Cost[elig[r][a + 1]]
        /\ HeldCount'[r] \in Nat /\ HeldPrice'[r] \in Nat
    <3>1. a + 1 \in Nat
      BY <2>2
    <3> QED
      BY <2>2, <2>3, <3>1, HoldingMore, HoldingType
  <2>5. /\ SumOf(HeldCount, Holding)' = inFlight - HeldCount[r] + HeldCount'[r]
        /\ SumOf(HeldPrice, Holding)' = committedCost - HeldPrice[r] + HeldPrice'[r]
    BY <2>1, <2>4, GaugeMove
  <2>6. /\ inFlight \in Nat /\ committedCost \in Nat
        /\ HeldCount[r] \in Nat /\ HeldPrice[r] \in Nat
        /\ Cost[elig[r][a + 1]] \in Nat
    <3>1. Cost[elig[r][a + 1]] \in Nat
      <4>1. a + 1 \in 1 .. Len(elig[r])
        <5>1. Len(elig[r]) \in Nat
          BY <1>t, LenProperties
        <5> QED
          BY <2>2, <5>1
      <4> QED
        BY <2>2, <4>1, ElementOfSeq
    <3> QED
      BY <3>1, GaugeTypes DEF GaugeInv
  <2>7. inFlight' = inFlight + 1 /\ committedCost' = committedCost + Cost[elig[r][a + 1]]
    BY <1>3 DEF Start, a
  <2> QED
    BY <2>4, <2>5, <2>6, <2>7 DEF GaugeInv
<1>4. ASSUME NEW r \in Runs, DialOk(r) PROVE GaugeInv'
  <2>1. Holding' = Holding
    BY <1>4, <1>p DEF DialOk, Holding
  <2> QED
    BY <1>4, <2>1, GaugeFrame DEF DialOk, gauges, race
<1>5. ASSUME NEW r \in Runs, DialErr(r) PROVE GaugeInv'
  <2> DEFINE a == attempted[r]
  <2>1. /\ Holding' = Holding /\ r \in Holding
        /\ \A q \in Runs : q # r => /\ attempted'[q] = attempted[q]
                                    /\ failed'[q] = failed[q] /\ elig'[q] = elig[q]
    BY <1>5, <1>p, <1>t DEF DialErr, Holding
  <2>2. a \in Nat \ {0} /\ a <= Len(elig[r]) /\ a \notin failed[r]
        /\ elig[r] \in Seq(Backends)
    BY <1>5, <1>t DEF DialErr, RaceInv
  <2>3. /\ HeldCount'[r] = CountOf(a, failed[r] \cup {a})
        /\ HeldPrice'[r] = PriceOf(elig[r], a, failed[r] \cup {a})
        /\ HeldCount[r] = CountOf(a, failed[r])
        /\ HeldPrice[r] = PriceOf(elig[r], a, failed[r])
    BY <1>5, <1>t DEF DialErr, HeldCount, HeldPrice
  <2> HIDE DEF a
  <2>4. /\ HeldCount[r] = HeldCount'[r] + 1
        /\ HeldPrice[r] = HeldPrice'[r] + Cost[elig[r][a]]
        /\ HeldCount'[r] \in Nat /\ HeldPrice'[r] \in Nat
    <3>1. CountOf(a, failed[r] \cup {a}) \in Nat
          /\ PriceOf(elig[r], a, failed[r] \cup {a}) \in Nat
      BY <2>2, HoldingType
    <3>2. /\ CountOf(a, failed[r]) = CountOf(a, failed[r] \cup {a}) + 1
          /\ PriceOf(elig[r], a, failed[r])
               = PriceOf(elig[r], a, failed[r] \cup {a}) + Cost[elig[r][a]]
      BY <2>2, HoldingLess
    <3> QED
      BY <2>3, <3>1, <3>2
  <2>5. /\ SumOf(HeldCount, Holding)' = inFlight - HeldCount[r] + HeldCount'[r]
        /\ SumOf(HeldPrice, Holding)' = committedCost - HeldPrice[r] + HeldPrice'[r]
    BY <2>1, <2>4, GaugeMove
  <2>6. /\ inFlight \in Nat /\ committedCost \in Nat
        /\ HeldCount[r] \in Nat /\ HeldPrice[r] \in Nat
        /\ HeldCount[r] <= inFlight /\ HeldPrice[r] <= committedCost
        /\ Cost[elig[r][a]] \in Nat
    <3>1. Cost[elig[r][a]] \in Nat
      <4>1. a \in 1 .. Len(elig[r])
        <5>1. Len(elig[r]) \in Nat
          BY <1>t, LenProperties
        <5> QED
          BY <2>2, <5>1
      <4> QED
        BY <2>2, <4>1, ElementOfSeq
    <3>2. HeldCount[r] <= SumOf(HeldCount, Holding)
          /\ HeldPrice[r] <= SumOf(HeldPrice, Holding)
      BY <2>1, GaugeTypes, SumNat DEF RaceInv
    <3> QED
      BY <2>1, <3>1, <3>2, GaugeTypes DEF GaugeInv
  <2>7. /\ inFlight' = Clamp(inFlight - 1)
        /\ committedCost' = Clamp(committedCost - Cost[elig[r][a]])
    BY <1>5 DEF DialErr, ReleaseN, a
  <2> QED
    BY <2>4, <2>5, <2>6, <2>7 DEF GaugeInv, Clamp
<1>6. ASSUME NEW r \in Runs, Release(r) PROVE GaugeInv'
  <2>1. /\ r \in Holding /\ Holding' = Holding \ {r}
        /\ UNCHANGED <<attempted, failed, elig>>
    BY <1>6, <1>p DEF Release, Holding
  <2>2. UNCHANGED <<HeldCount, HeldPrice>>
    BY <2>1 DEF HeldCount, HeldPrice
  <2>3. IsFiniteSet(Holding) /\ \A q \in Holding : HeldCount[q] \in Nat /\ HeldPrice[q] \in Nat
    BY GaugeTypes DEF RaceInv
  <2>4. /\ SumOf(HeldCount, Holding) = HeldCount[r] + SumOf(HeldCount, Holding \ {r})
        /\ SumOf(HeldPrice, Holding) = HeldPrice[r] + SumOf(HeldPrice, Holding \ {r})
    BY <2>1, <2>3, SumSplit
  <2>5. SumOf(HeldCount, Holding \ {r}) \in Nat /\ SumOf(HeldPrice, Holding \ {r}) \in Nat
    <3>1. IsFiniteSet(Holding \ {r})
      BY <2>3, FS_Subset
    <3> QED
      BY <2>3, <3>1, SumNat
  <2>6. /\ inFlight' = Clamp(inFlight - HeldCount[r])
        /\ committedCost' = Clamp(committedCost - HeldPrice[r])
    <3>1. Cardinality(Held(r)) = HeldCount[r] /\ CostOf(r, Held(r)) = HeldPrice[r]
      BY HeldIsSummed
    <3> QED
      BY <1>6, <3>1 DEF Release, ReleaseN
  <2>7. /\ inFlight' = SumOf(HeldCount, Holding \ {r})
        /\ committedCost' = SumOf(HeldPrice, Holding \ {r})
    BY <2>1, <2>3, <2>4, <2>5, <2>6 DEF GaugeInv, Clamp
  <2> QED
    BY <2>1, <2>2, <2>7 DEF GaugeInv
<1>7. ASSUME NEW r \in Runs, Record(r) PROVE GaugeInv'
  <2>1. Holding' = Holding /\ r \notin Holding
    BY <1>7, <1>p DEF Record, Holding
  <2>2. \A q \in Holding : /\ attempted'[q] = attempted[q] /\ failed'[q] = failed[q]
                           /\ elig'[q] = elig[q]
    BY <1>7, <1>t, <2>1 DEF Record, Holding
  <2> QED
    BY <1>7, <2>1, <2>2, GaugeFrame DEF Record, gauges
<1>8. CASE Tick \/ Terminated
  <2>1. UNCHANGED <<inFlight, committedCost, phase, attempted, failed, elig>>
    BY <1>8 DEF Tick, Terminated, vars, race, gauges
  <2>2. Holding' = Holding
    BY <2>1 DEF Holding
  <2> QED
    BY <2>1, <2>2, GaugeFrame
<1> QED
  BY <1>1, <1>2, <1>3, <1>4, <1>5, <1>6, <1>7, <1>8 DEF Next

\* The model's sum of the runs' counts is the sum of the function of them.
LEMMA CountsAreSummed ==
    ASSUME RaceTypes, RaceInv
    PROVE  MapThenSumSet(LAMBDA r : Cardinality(Held(r)), Holding) = SumOf(HeldCount, Holding)
<1> DEFINE S == Holding
           Step(s, it) == IF s = {} THEN 0
                          ELSE Cardinality(Held(AnyOf(s))) + it[s \ {AnyOf(s)}]
           Iterates(it) == it = [s \in SUBSET S |-> Step(s, it)]
           c == CHOOSE it : Iterates(it)
<1>1. MapThenSumSet(LAMBDA r : Cardinality(Held(r)), S) = c[S]
  BY DEF MapThenSumSet, MapThenFoldSet, AnyOf
<1>2. S \subseteq Runs /\ IsFiniteSet(S)
  BY DEF Holding, RaceInv
<1>3. ASSUME NEW it PROVE Iterates(it) <=> IsFold(HeldCount, S, it)
  <2>1. ASSUME NEW s \in SUBSET S
        PROVE  Step(s, it) = IF s = {} THEN 0
                             ELSE HeldCount[AnyOf(s)] + it[s \ {AnyOf(s)}]
    <3>1. CASE s = {}
      BY <3>1
    <3>2. CASE s # {}
      <4>1. AnyOf(s) \in Runs
        BY <1>2, <3>2 DEF AnyOf
      <4>2. HeldCount[AnyOf(s)] = Cardinality(Held(AnyOf(s)))
        BY <4>1, HeldIsSummed
      <4> QED
        BY <3>2, <4>2
    <3> QED
      BY <3>1, <3>2
  <2> HIDE DEF Step, S
  <2> QED
    BY <2>1 DEF IsFold
<1> HIDE DEF Iterates
<1>4. IsFold(HeldCount, S, c)
  <2>1. \E it : Iterates(it)
    BY <1>2, <1>3, FoldExists
  <2>2. Iterates(c)
    BY <2>1
  <2> QED
    BY <1>3, <2>2
<1> HIDE DEF c
<1>5. c[S] = SumOf(HeldCount, S)
  BY <1>2, <1>4, FoldIsSum
<1> QED
  BY <1>1, <1>5

\* The model's sum of the runs' costs is the sum of the function of them.
LEMMA PricesAreSummed ==
    ASSUME RaceTypes, RaceInv
    PROVE  MapThenSumSet(LAMBDA r : CostOf(r, Held(r)), Holding) = SumOf(HeldPrice, Holding)
<1> DEFINE S == Holding
           Step(s, it) == IF s = {} THEN 0
                          ELSE CostOf(AnyOf(s), Held(AnyOf(s))) + it[s \ {AnyOf(s)}]
           Iterates(it) == it = [s \in SUBSET S |-> Step(s, it)]
           c == CHOOSE it : Iterates(it)
<1>1. MapThenSumSet(LAMBDA r : CostOf(r, Held(r)), S) = c[S]
  BY DEF MapThenSumSet, MapThenFoldSet, AnyOf
<1>2. S \subseteq Runs /\ IsFiniteSet(S)
  BY DEF Holding, RaceInv
<1>3. ASSUME NEW it PROVE Iterates(it) <=> IsFold(HeldPrice, S, it)
  <2>1. ASSUME NEW s \in SUBSET S
        PROVE  Step(s, it) = IF s = {} THEN 0
                             ELSE HeldPrice[AnyOf(s)] + it[s \ {AnyOf(s)}]
    <3>1. CASE s = {}
      BY <3>1
    <3>2. CASE s # {}
      <4>1. AnyOf(s) \in Runs
        BY <1>2, <3>2 DEF AnyOf
      <4>2. HeldPrice[AnyOf(s)] = CostOf(AnyOf(s), Held(AnyOf(s)))
        BY <4>1, HeldIsSummed
      <4> QED
        BY <3>2, <4>2
    <3> QED
      BY <3>1, <3>2
  <2> HIDE DEF Step, S
  <2> QED
    BY <2>1 DEF IsFold
<1> HIDE DEF Iterates
<1>4. IsFold(HeldPrice, S, c)
  <2>1. \E it : Iterates(it)
    BY <1>2, <1>3, FoldExists
  <2>2. Iterates(c)
    BY <2>1
  <2> QED
    BY <1>3, <2>2
<1> HIDE DEF c
<1>5. c[S] = SumOf(HeldPrice, S)
  BY <1>2, <1>4, FoldIsSum
<1> QED
  BY <1>1, <1>5

-----------------------------------------------------------------------------
(* The results about the gauges.                                           *)

\* What is inductive: the clock, the runs' snapshots, and the gauges as sums.
EngineInv == CoolInv /\ RaceTypes /\ RaceInv /\ GaugeInv

\* The initial gauges are zero, and nobody holds anything.
LEMMA EngineInit == Init => EngineInv
<1> SUFFICES ASSUME Init PROVE EngineInv
  OBVIOUS
<1>1. Holding = {}
  BY DEF Init, Holding
<1>2. GaugeInv
  BY <1>1, SumEmpty DEF Init, GaugeInv
<1> QED
  BY <1>2, CoolInit, RaceInit DEF EngineInv

\* Every step keeps the clock, the snapshots and the gauges.
LEMMA EngineStep == EngineInv /\ [Next]_vars => EngineInv'
<1> SUFFICES ASSUME EngineInv, [Next]_vars PROVE EngineInv'
  OBVIOUS
<1>1. CoolInv'
  BY CoolStep DEF EngineInv
<1>2. CASE Next
  BY <1>1, <1>2, RaceStep, GaugeStep DEF EngineInv, CoolInv
<1>3. CASE UNCHANGED vars
  <2> USE <1>3 DEF vars, gauges, race
  <2>1. Holding' = Holding
    BY DEF Holding
  <2>2. RaceTypes' /\ RaceInv'
    BY <2>1 DEF EngineInv, RaceTypes, RaceInv, Attempted
  <2>3. GaugeInv'
    BY <2>1, GaugeFrame DEF EngineInv
  <2> QED
    BY <1>1, <2>2, <2>3 DEF EngineInv
<1> QED
  BY <1>2, <1>3

\* The inductive invariant of the whole engine.
THEOREM EngineInvariance == Spec => []EngineInv
BY EngineInit, EngineStep, PTL DEF Spec

\* Every variable the runs share, and each run's own, keeps its type.
THEOREM EngineTypeCorrect == Spec => []TypeOK
<1>1. EngineInv => TypeOK
  BY GaugeTypes
  DEF EngineInv, CoolInv, ClockInv, BookType, RaceTypes, RaceInv, GaugeInv, TypeOK
<1> QED
  BY <1>1, EngineInvariance, PTL

\* hedge_inflight and the committed cost are the sums of what the racing
\* requests hold, however many there are and however they interleave.
THEOREM GaugesStaySums == Spec => []GaugesAreSums
<1>1. EngineInv => GaugesAreSums
  BY CountsAreSummed, PricesAreSummed DEF EngineInv, GaugeInv, GaugesAreSums
<1> QED
  BY <1>1, EngineInvariance, PTL

-----------------------------------------------------------------------------
(* What a request may start is its own affair.                             *)

\* The gate, with what the run holds as functions of the run.
Gate(r) ==
    /\ attempted[r] < Len(elig[r])
    /\ attempted[r] > 0 =>
         AllowStart(pol[r], HeldCount[r], HeldPrice[r],
                    Cost[elig[r][attempted[r] + 1]])
GateInv == \A r \in Runs : MayStart(r) <=> Gate(r)

\* A step of others leaves a racing run all that its gate reads.
LEMMA OthersKeep ==
    ASSUME EngineInv, Next, NEW r \in Runs, phase[r] = "racing", phase'[r] = "racing"
    PROVE  /\ attempted'[r] = attempted[r] /\ failed'[r] = failed[r]
           /\ elig'[r] = elig[r] /\ pol'[r] = pol[r]
<1> USE DEF EngineInv, RaceTypes
<1>p. phase \in [Runs -> {"new", "picking", "racing", "dialing", "released",
                         "recording", "returned"}]
  BY DEF CoolInv, ClockInv
<1>1. ASSUME NEW q \in Runs, ReadClock(q) \/ DialOk(q)
      PROVE  UNCHANGED <<attempted, failed, elig, pol>>
  BY <1>1 DEF ReadClock, DialOk, race
<1>2. ASSUME NEW q \in Runs, Pick(q)
      PROVE  /\ UNCHANGED <<attempted, failed>> /\ q # r
             /\ elig'[r] = elig[r] /\ pol'[r] = pol[r]
  BY <1>2 DEF Pick, race
<1>3. ASSUME NEW q \in Runs, Start(q)
      PROVE  /\ UNCHANGED <<failed, elig, pol>> /\ q # r
             /\ attempted'[r] = attempted[r]
  BY <1>p, <1>3 DEF Start
<1>4. ASSUME NEW q \in Runs, DialErr(q)
      PROVE  /\ UNCHANGED <<attempted, elig, pol>> /\ q # r
             /\ failed'[r] = failed[r]
  BY <1>4 DEF DialErr
<1>5. ASSUME NEW q \in Runs, Release(q)
      PROVE  UNCHANGED <<attempted, failed, elig, pol>>
  BY <1>5 DEF Release
<1>6. ASSUME NEW q \in Runs, Record(q)
      PROVE  /\ q # r /\ attempted'[r] = attempted[r] /\ failed'[r] = failed[r]
             /\ elig'[r] = elig[r] /\ pol'[r] = pol[r]
  BY <1>6 DEF Record
<1>7. CASE Tick \/ Terminated
  BY <1>7 DEF Tick, Terminated, vars, race
<1> QED
  BY <1>1, <1>2, <1>3, <1>4, <1>5, <1>6, <1>7 DEF Next

\* Whatever other requests do, what one may start it may go on to start until
\* it does or its race is over, for any number of requests.
THEOREM StartsStayAllowed == Spec => StartsAreNeverWithdrawn
<1> DEFINE Keep == \A r \in Runs :
             phase[r] = "racing" /\ MayStart(r) /\ phase'[r] = "racing"
             => MayStart(r)'
<1>1. EngineInv => GateInv
  BY HeldIsSummed DEF EngineInv, GateInv, Gate, MayStart
<1>2. EngineInv /\ GateInv /\ GateInv' /\ [Next]_vars => [Keep]_vars
  <2> SUFFICES ASSUME EngineInv, GateInv, GateInv', Next, NEW r \in Runs,
                      phase[r] = "racing", MayStart(r), phase'[r] = "racing"
               PROVE  MayStart(r)'
    OBVIOUS
  <2>1. /\ attempted'[r] = attempted[r] /\ failed'[r] = failed[r]
        /\ elig'[r] = elig[r] /\ pol'[r] = pol[r]
    BY OthersKeep
  <2>2. HeldCount'[r] = HeldCount[r] /\ HeldPrice'[r] = HeldPrice[r]
    BY <2>1, HeldFrame
  <2>3. Gate(r)
    BY DEF GateInv
  <2>4. Gate(r)'
    BY <2>1, <2>2, <2>3 DEF Gate, AllowStart, EffectiveMaxInFlight, CostAllows
  <2> QED
    BY <2>4 DEF GateInv
<1> QED
  BY <1>1, <1>2, EngineInvariance, PTL DEF Spec, StartsAreNeverWithdrawn
=============================================================================
