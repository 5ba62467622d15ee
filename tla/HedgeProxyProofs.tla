--------------------------- MODULE HedgeProxyProofs ---------------------------
(***************************************************************************)
(* Proofs about HedgeProxy and HedgeMetrics: for any number of concurrent  *)
(* requests, backends, reasons, buckets and latencies the answers are well *)
(* formed, the counters and the histogram are exact and agree with what    *)
(* the clients were sent, and no scrape shows an outcome without its       *)
(* losses.                                                                 *)
(***************************************************************************)
EXTENDS HedgeProxy, HedgeSums, SequenceTheorems

-----------------------------------------------------------------------------
(* The histogram's buckets.                                                *)

BucketIndices == 1 .. Len(Bounds) + 1

\* A sample goes to the first bucket whose bound is not below it.
LEMMA BucketIsFirst ==
    ASSUME NEW v \in Nat
    PROVE  /\ Bucket(v) \in BucketIndices
           /\ \A i \in 1 .. Len(Bounds) : Bucket(v) <= i <=> v <= Bounds[i]
<1> DEFINE n == Len(Bounds) + 1
           S == {i \in DOMAIN Bounds : v <= Bounds[i]} \cup {n}
<1>1. /\ Bounds \in Seq(Nat) /\ Len(Bounds) \in Nat
      /\ DOMAIN Bounds = 1 .. Len(Bounds)
      /\ \A i \in 1 .. Len(Bounds) : Bounds[i] \in Nat
      /\ \A i, j \in 1 .. Len(Bounds) : i < j => Bounds[i] < Bounds[j]
  BY MetricsAssumption
<1>2. S \in SUBSET Nat /\ S # {} /\ S \subseteq BucketIndices
  BY <1>1 DEF BucketIndices
<1>3. \E m \in S : \A y \in S : m <= y
  BY <1>2, SmallestNumber
<1>4. Bucket(v) \in S /\ \A y \in S : Bucket(v) <= y
  BY <1>3 DEF Bucket, Min
<1>5. ASSUME NEW i \in 1 .. Len(Bounds) PROVE Bucket(v) <= i <=> v <= Bounds[i]
  <2>1. CASE v <= Bounds[i]
    BY <1>1, <1>4, <1>5, <2>1
  <2>2. ASSUME Bucket(v) <= i PROVE v <= Bounds[i]
    <3>1. Bucket(v) \in 1 .. Len(Bounds) /\ v <= Bounds[Bucket(v)]
      BY <1>1, <1>2, <1>4, <2>2 DEF BucketIndices
    <3>2. Bucket(v) = i \/ Bounds[Bucket(v)] < Bounds[i]
      BY <1>1, <2>2, <3>1
    <3> QED
      BY <1>1, <3>1, <3>2
  <2> QED
    BY <2>1, <2>2
<1> QED
  BY <1>2, <1>4, <1>5

\* One more sample in its bucket is one more in every sum that reaches it.
LEMMA OneMoreSample ==
    ASSUME NEW counts \in [BucketIndices -> Nat], NEW k \in BucketIndices,
           NEW i \in BucketIndices
    PROVE  /\ SumOf(counts, 1 .. i) \in Nat
           /\ SumOf([counts EXCEPT ![k] = @ + 1], 1 .. i) =
                SumOf(counts, 1 .. i) + IF k <= i THEN 1 ELSE 0
<1> DEFINE new == [counts EXCEPT ![k] = @ + 1]
           S == 1 .. i
<1>1. /\ S \subseteq BucketIndices
      /\ k \in S <=> k <= i
  BY MetricsAssumption DEF BucketIndices
<1>2. IsFiniteSet(S)
  BY MetricsAssumption, FS_Interval DEF BucketIndices
<1>3. /\ \A x \in S : counts[x] \in Nat
      /\ \A x \in S : new[x] = IF x = k THEN counts[x] + 1 ELSE counts[x]
  BY <1>1
<1> HIDE DEF new, S
<1>4. /\ SumOf(counts, S) \in Nat
      /\ SumOf(new, S) = SumOf(counts, S) + IF k \in S THEN 1 ELSE 0
  BY <1>2, <1>3, SumOneMore
<1> QED
  BY <1>1, <1>4 DEF new, S

-----------------------------------------------------------------------------
(* What the model sums over backends and over reasons.                     *)

WinCount == [b \in Backends |-> Read(WinOf(b))]
LossCount(b) == [x \in Reasons |-> Read(LossOf(b, x))]
LossSum(b) == SumOf(LossCount(b), Reasons)

\* The wins a scrape adds up are a sum of WinCount.
LEMMA WinsAreSummed ==
    ASSUME NEW S, S \subseteq Backends
    PROVE  MapThenSumSet(WinsOf, S) = SumOf(WinCount, S)
<1> DEFINE Step(s, it) == IF s = {} THEN 0
                          ELSE WinsOf(AnyOf(s)) + it[s \ {AnyOf(s)}]
           Iterates(it) == it = [s \in SUBSET S |-> Step(s, it)]
           c == CHOOSE it : Iterates(it)
<1>1. MapThenSumSet(WinsOf, S) = c[S]
  BY DEF MapThenSumSet, MapThenFoldSet, AnyOf
<1>2. IsFiniteSet(S)
  <2>1. IsFiniteSet(Backends)
    BY MetricsAssumption, FS_Interval DEF Backends
  <2> QED
    BY <2>1, FS_Subset
<1>3. ASSUME NEW it PROVE Iterates(it) <=> IsFold(WinCount, S, it)
  <2>1. ASSUME NEW s \in SUBSET S
        PROVE  Step(s, it) = IF s = {} THEN 0
                             ELSE WinCount[AnyOf(s)] + it[s \ {AnyOf(s)}]
    <3>1. s # {} => AnyOf(s) \in Backends
      BY DEF AnyOf
    <3> QED
      BY <3>1 DEF WinCount, WinsOf
  <2> HIDE DEF Step
  <2> QED
    BY <2>1 DEF IsFold
<1> HIDE DEF Iterates
<1>4. IsFold(WinCount, S, c)
  <2>1. \E it : Iterates(it)
    BY <1>2, <1>3, FoldExists
  <2>2. Iterates(c)
    BY <2>1
  <2> QED
    BY <1>3, <2>2
<1> HIDE DEF c
<1> QED
  BY <1>1, <1>2, <1>4, FoldIsSum

\* The losses of a backend, over all reasons.
LEMMA LossesAreSummed ==
    ASSUME NEW b
    PROVE  LossesOf(b) = LossSum(b)
<1> DEFINE Step(s, it) == IF s = {} THEN 0
                          ELSE Read(LossOf(b, AnyOf(s))) + it[s \ {AnyOf(s)}]
           Iterates(it) == it = [s \in SUBSET Reasons |-> Step(s, it)]
           c == CHOOSE it : Iterates(it)
<1>1. LossesOf(b) = c[Reasons]
  BY DEF LossesOf, MapThenSumSet, MapThenFoldSet, AnyOf
<1>2. IsFiniteSet(Reasons)
  BY MetricsAssumption
<1>3. ASSUME NEW it PROVE Iterates(it) <=> IsFold(LossCount(b), Reasons, it)
  <2>1. ASSUME NEW s \in SUBSET Reasons
        PROVE  Step(s, it) = IF s = {} THEN 0
                             ELSE LossCount(b)[AnyOf(s)] + it[s \ {AnyOf(s)}]
    <3>1. s # {} => AnyOf(s) \in Reasons
      BY DEF AnyOf
    <3> QED
      BY <3>1 DEF LossCount
  <2> HIDE DEF Step
  <2> QED
    BY <2>1 DEF IsFold
<1> HIDE DEF Iterates
<1>4. IsFold(LossCount(b), Reasons, c)
  <2>1. \E it : Iterates(it)
    BY <1>2, <1>3, FoldExists
  <2>2. Iterates(c)
    BY <2>1
  <2> QED
    BY <1>3, <2>2
<1> HIDE DEF c
<1> QED
  BY <1>1, <1>2, <1>4, FoldIsSum DEF LossSum

-----------------------------------------------------------------------------
(* Types.                                                                  *)

Pieces == {"data: ", "payload", "end", "[DONE]", "error", "completion"}

Phases == {"new", "serving", "reporting", "answering", "done"}

\* TypeOK, part by part.
LEMMA TypeFacts ==
    ASSUME TypeOK
    PROVE  /\ phase \in [Requests -> Phases] /\ winner \in [Requests -> 0 .. NB]
           /\ committed \in [Requests -> BOOLEAN]
           /\ todo \in [Requests -> Seq(Labels)]
           /\ held \in [Requests -> 0 .. Len(value)]
           /\ added \in [Requests -> SUBSET Labels]
           /\ lat \in [Requests -> Latencies \cup {0}]
           /\ series \in [Labels -> 0 .. Len(value)] /\ value \in Seq(Nat)
BY ZenonT(30) DEF TypeOK, MetricsTypeOK, Phases

\* What is written of an event, all of it or less.
LEMMA EventPieces ==
    ASSUME NEW m \in 0 .. 3
    PROVE  /\ SubSeq(Event, 1, m) \in Seq(Pieces)
           /\ Len(SubSeq(Event, 1, m)) = m
           /\ \A i \in 1 .. m : SubSeq(Event, 1, m)[i] = Event[i]
           /\ SubSeq(Event, 1, 3) = Event
<1>1. Event \in Seq(Pieces) /\ Len(Event) = 3
  BY DEF Event, Pieces
<1>2. m \in Int /\ \A i \in 1 .. m : Event[i] \in Pieces
  BY <1>1, SMTT(30)
<1>3. /\ SubSeq(Event, 1, m) \in Seq(Pieces)
      /\ Len(SubSeq(Event, 1, m)) = IF 1 <= m THEN m - 1 + 1 ELSE 0
      /\ \A i \in 1 .. m - 1 + 1 : SubSeq(Event, 1, m)[i] = Event[1 + i - 1]
  BY <1>1, <1>2, SubSeqProperties
<1>4. SubSeq(Event, 1, Len(Event)) = Event
  BY <1>1, SubSeqFull
<1> QED
  BY <1>1, <1>3, <1>4

\* A sink writes nothing or an event, which fails unless it is written whole.
LEMMA SinkWrites ==
    ASSUME TypeOK, NEW r \in Requests, SinkChunk(r)
    PROVE  \/ kind[r] = "json" /\ UNCHANGED <<body, writeErr>>
           \/ /\ kind[r] = "sse" /\ ~writeErr[r]
              /\ \E m \in 0 .. 3 :
                   /\ body' = [body EXCEPT ![r] = @ \o SubSeq(Event, 1, m)]
                   /\ writeErr' = [writeErr EXCEPT ![r] = (m # 3)]
<1>1. CASE kind[r] = "sse" /\ ~writeErr[r] /\ UNCHANGED writeErr
            /\ body' = [body EXCEPT ![r] = @ \o Event]
  <2>1. writeErr \in [Requests -> BOOLEAN] /\ (3 # 3) = FALSE
    BY ZenonT(30) DEF TypeOK
  <2>2. writeErr' = [writeErr EXCEPT ![r] = FALSE]
    BY <1>1, <2>1
  <2>3. 3 \in 0 .. 3 /\ SubSeq(Event, 1, 3) = Event
    BY EventPieces
  <2> QED
    BY <1>1, <2>1, <2>2, <2>3
<1>2. ASSUME NEW n \in 0 .. 2, kind[r] = "sse", ~writeErr[r],
             body' = [body EXCEPT ![r] = @ \o SubSeq(Event, 1, n)],
             writeErr' = [writeErr EXCEPT ![r] = TRUE]
      PROVE  \E m \in 0 .. 3 :
               /\ body' = [body EXCEPT ![r] = @ \o SubSeq(Event, 1, m)]
               /\ writeErr' = [writeErr EXCEPT ![r] = (m # 3)]
  <2>1. n \in 0 .. 3 /\ (n # 3) = TRUE
    OBVIOUS
  <2> QED
    BY <1>2, <2>1
<1> QED
  BY <1>1, <1>2 DEF SinkChunk, SinkTakes, SinkFails

\* A run attempts each backend at most once, and its winner is one of them.
Took(r, tried) == winner[r] = 0 \/ \E i \in DOMAIN tried : tried[i] = winner[r]

\* What a run's return changes, and for which attempts and reasons.
LEMMA ReturnFacts ==
    ASSUME NEW r \in Requests, Return(r)
    PROVE  /\ Serving(r) /\ phase' = [phase EXCEPT ![r] = "reporting"]
           /\ UNCHANGED <<kind, winner, wire, held, added, lat, series, value, hist,
                          page>>
           /\ \E e \in Returns(r), tried \in Attempts, why \in [Backends -> Reasons] :
                /\ Took(r, tried) /\ ret' = [ret EXCEPT ![r] = e]
                /\ Reported(r, tried, why)
<1>1. PICK e \in Returns(r) :
        /\ Returned(r, e)
        /\ \E tried \in Attempts, why \in [Backends -> Reasons] :
             Took(r, tried) /\ Reported(r, tried, why)
  BY DEF Return, Took
<1>2. PICK tried \in Attempts, why \in [Backends -> Reasons] :
        Took(r, tried) /\ Reported(r, tried, why)
  BY <1>1
<1>3. Serving(r)
  BY DEF Return
<1> QED
  BY <1>1, <1>2, <1>3 DEF Returned

\* No backend is attempted twice.
LEMMA AttemptsType ==
    ASSUME NEW tried \in Attempts
    PROVE  /\ Len(tried) \in Nat /\ DOMAIN tried = 1 .. Len(tried)
           /\ \A i \in 1 .. Len(tried) : tried[i] \in Backends
           /\ \A i, j \in 1 .. Len(tried) : tried[i] = tried[j] => i = j
<1>1. PICK n \in 0 .. NB : tried \in [1 .. n -> Backends]
  BY DEF Attempts
<1>2. n \in Nat /\ Backends \subseteq Nat
  BY MetricsAssumption DEF Backends
<1>3. DOMAIN tried = 1 .. n /\ Len(tried) = n
  BY <1>1, <1>2
<1>4. \A i, j \in 1 .. n : i < j => tried[i] < tried[j]
  BY <1>3 DEF Attempts
<1>5. \A i \in 1 .. n : tried[i] \in Nat
  BY <1>1, <1>2
<1>6. ASSUME NEW i \in 1 .. n, NEW j \in 1 .. n, tried[i] = tried[j]
      PROVE  i = j
  <2>1. i < j => tried[i] < tried[j]
    BY <1>4
  <2>2. j < i => tried[j] < tried[i]
    BY <1>4
  <2> QED
    BY <1>2, <1>5, <1>6, <2>1, <2>2
<1> QED
  BY <1>1, <1>2, <1>3, <1>6

\* What a request will be reported to: a loss for each backend at most.
LEMMA LossesType ==
    ASSUME NEW r \in Requests, NEW tried \in Attempts, Took(r, tried),
           NEW why \in [Backends -> Reasons]
    PROVE  LET lost == Losses(r, tried, why)
           IN /\ lost \in Seq(Labels) /\ Len(lost) \in Nat
              /\ \A i \in 1 .. Len(lost) : lost[i].reason \in Reasons
              /\ \A i, j \in 1 .. Len(lost) : lost[i] = lost[j] => i = j
<1> DEFINE n == Len(tried)
           at == IF winner[r] = 0 THEN n + 1
                 ELSE CHOOSE i \in DOMAIN tried : tried[i] = winner[r]
           m == IF winner[r] = 0 THEN n ELSE n - 1
           At(i) == IF i < at THEN i ELSE i + 1
           lost == Losses(r, tried, why)
<1>1. /\ n \in Nat /\ DOMAIN tried = 1 .. n
      /\ \A i \in 1 .. n : tried[i] \in Backends
      /\ \A i, j \in 1 .. n : tried[i] = tried[j] => i = j
  BY AttemptsType
<1>2. /\ at \in 1 .. n + 1
      /\ winner[r] # 0 => at \in 1 .. n
  <2>1. winner[r] # 0 => at \in DOMAIN tried
    BY DEF Took
  <2> QED
    BY <1>1, <2>1
<1>3. lost = [i \in 1 .. m |-> LossOf(tried[At(i)], why[tried[At(i)]])]
  BY DEF Losses
<1>4. m \in Nat /\ \A i \in 1 .. m : At(i) \in 1 .. n
  <2>1. CASE winner[r] = 0
    <3>1. m = n /\ at = n + 1
      BY <2>1
    <3> HIDE DEF at, n, m
    <3> QED
      BY <1>1, <3>1
  <2>2. CASE winner[r] # 0
    <3>1. m = n - 1 /\ at \in 1 .. n
      BY <1>2, <2>2
    <3> HIDE DEF at, n, m
    <3> QED
      BY <1>1, <3>1
  <2> QED
    BY <2>1, <2>2
<1>5. \A i, j \in 1 .. m : At(i) = At(j) => i = j
  <2> HIDE DEF at, n, m
  <2> QED
    BY <1>1, <1>2, <1>4
<1>6. \A b \in Backends : /\ why[b] \in Reasons /\ LossOf(b, why[b]) \in Labels
                          /\ LossOf(b, why[b]).backend = b
                          /\ LossOf(b, why[b]).reason = why[b]
  BY DEF LossOf, Labels
<1> HIDE DEF m, At, at, n
<1>7. \A i \in 1 .. m : tried[At(i)] \in Backends
  BY <1>1, <1>4
<1>8. \A i \in 1 .. m : LossOf(tried[At(i)], why[tried[At(i)]]) \in Labels
  BY <1>6, <1>7
<1>9. lost \in Seq(Labels) /\ Len(lost) = m
  BY <1>3, <1>4, <1>8, IsASeq
<1>10. \A i \in 1 .. m : /\ lost[i].backend = tried[At(i)]
                         /\ lost[i].reason \in Reasons
  BY <1>3, <1>6, <1>7
<1>11. ASSUME NEW i \in 1 .. m, NEW j \in 1 .. m, lost[i] = lost[j] PROVE i = j
  <2>1. tried[At(i)] = tried[At(j)]
    BY <1>10, <1>11
  <2>2. At(i) = At(j)
    BY <1>1, <1>4, <2>1
  <2> QED
    BY <1>5, <2>2
<1> HIDE DEF lost
<1>12. /\ lost \in Seq(Labels) /\ Len(lost) \in Nat
       /\ \A i \in 1 .. Len(lost) : lost[i].reason \in Reasons
       /\ \A i, j \in 1 .. Len(lost) : lost[i] = lost[j] => i = j
  BY <1>4, <1>9, <1>10, <1>11
<1> QED
  BY <1>12 DEF lost

Codes == {200, 400, 401, 405, 499, 500, 502, 503}

\* A report has seen what it is about to add to.
HeldIsFound ==
    \A r \in Requests :
        held[r] # 0 => /\ phase[r] = "reporting" /\ todo[r] # <<>>
                       /\ held[r] = series[Head(todo[r])]

\* What a scrape is owed are numbers.
LEMMA OwedIsNat ==
    ASSUME TypeOK
    PROVE  /\ \A label \in Labels : Read(label) \in Nat
           /\ \A S \in SUBSET Backends : SumOf(WinCount, S) \in Nat
           /\ \A b \in Backends : LossSum(b) \in Nat
<1>1. \A label \in Labels : Read(label) \in Nat
  <2>1. series \in [Labels -> 0 .. Len(value)] /\ value \in Seq(Nat)
    BY ZenonT(30) DEF TypeOK, MetricsTypeOK
  <2>2. \A i \in 1 .. Len(value) : value[i] \in Nat
    BY <2>1
  <2>3. Len(value) \in Nat
    BY <2>1
  <2> QED
    BY <2>1, <2>2, <2>3 DEF Read
<1>2. \A b \in Backends : WinCount[b] \in Nat
  <2>1. \A b \in Backends : WinOf(b) \in Labels
    BY DEF WinOf, Labels
  <2> QED
    BY <1>1, <2>1 DEF WinCount
<1>3. IsFiniteSet(Backends)
  BY MetricsAssumption, FS_Interval, SMTT(30) DEF Backends
<1>4. ASSUME NEW S \in SUBSET Backends PROVE SumOf(WinCount, S) \in Nat
  <2>1. IsFiniteSet(S) /\ \A b \in S : WinCount[b] \in Nat
    BY <1>2, <1>3, FS_Subset
  <2> QED
    BY <2>1, SumNat
<1>5. ASSUME NEW b \in Backends PROVE LossSum(b) \in Nat
  <2>1. \A x \in Reasons : LossOf(b, x) \in Labels
    BY DEF LossOf, Labels
  <2>2. \A x \in Reasons : LossCount(b)[x] \in Nat
    BY <1>1, <2>1 DEF LossCount
  <2> QED
    BY <2>2, SumNat, MetricsAssumption DEF LossSum
<1> QED
  BY <1>1, <1>4, <1>5

\* An error's status and body.
LEMMA ErrorTypes ==
    ASSUME TypeOK, NEW r \in Requests, NEW code \in Codes, WriteError(r, code)
    PROVE  status' \in [Requests -> Seq(Codes)] /\ body' \in [Requests -> Seq(Pieces)]
<1>1. status \in [Requests -> Seq(Codes)] /\ body \in [Requests -> Seq(Pieces)]
  BY ZenonT(30) DEF TypeOK, Codes, Pieces
<1>2. Append(status[r], code) \in Seq(Codes)
  BY <1>1
<1>3. Append(body[r], "error") \in Seq(Pieces)
  <2>1. "error" \in Pieces
    BY DEF Pieces
  <2> QED
    BY <1>1, <2>1
<1> QED
  BY <1>1, <1>2, <1>3 DEF WriteError

\* A finding leaves every counter and adds at most one.
LEMMA FindTypes ==
    ASSUME TypeOK, NEW label \in Labels, LocateOrInsert(label)
    PROVE  /\ series' \in [Labels -> 0 .. Len(value')] /\ value' \in Seq(Nat)
           /\ series'[label] \in 1 .. Len(value')
           /\ Len(value) \in Nat /\ Len(value') \in Nat /\ Len(value) <= Len(value')
<1>1. /\ series \in [Labels -> 0 .. Len(value)] /\ value \in Seq(Nat)
      /\ Len(value) \in Nat
  <2>1. series \in [Labels -> 0 .. Len(value)] /\ value \in Seq(Nat)
    BY ZenonT(30) DEF TypeOK, MetricsTypeOK
  <2> QED
    BY <2>1, LenProperties
<1>2. CASE ~Missing(label) /\ UNCHANGED <<series, value>>
  BY <1>1, <1>2 DEF Missing
<1>3. CASE value' = Append(value, 0) /\ series' = [series EXCEPT ![label] = Len(value) + 1]
  <2>1. value' \in Seq(Nat) /\ Len(value') = Len(value) + 1
    BY <1>1, <1>3, AppendProperties
  <2> QED
    BY <1>1, <1>3, <2>1
<1> QED
  BY <1>2, <1>3 DEF LocateOrInsert

\* The types survive every step of a request.
LEMMA TypeStepEarly ==
    ASSUME TypeOK, NEW r \in Requests,
           Refuse(r) \/ Count(r) \/ NoFlusher(r) \/ Commit(r) \/ Relay(r)
    PROVE  TypeOK'
<1>1. CASE Refuse(r)
  <2>1. PICK code \in Refusals : WriteError(r, code)
    BY <1>1 DEF Refuse
  <2>2. code \in Codes
    BY ProxyAssumption DEF Codes
  <2>3. status' \in [Requests -> Seq(Codes)] /\ body' \in [Requests -> Seq(Pieces)]
    BY <2>1, <2>2, ErrorTypes
  <2> QED
    BY <1>1, <2>3, ZenonT(30)
       DEF TypeOK, MetricsTypeOK, Refuse, report, metrics, Codes, Pieces
<1>2. CASE Count(r)
  <2>1. totals' \in [{"requests", "failed", "canceled", "redundant"} -> Nat]
    <3>1. totals \in [{"requests", "failed", "canceled", "redundant"} -> Nat]
      BY ZenonT(30) DEF TypeOK, MetricsTypeOK
    <3> QED
      BY <1>2, <3>1 DEF Count
  <2>2. phase' \in [Requests -> {"new", "serving", "reporting", "answering", "done"}]
    BY <1>2, ZenonT(30) DEF Count, TypeOK
  <2> QED
    BY <1>2, <2>1, <2>2, ZenonT(30) DEF TypeOK, MetricsTypeOK, Count, wire, report
<1>3. CASE NoFlusher(r)
  <2>1. status' \in [Requests -> Seq(Codes)] /\ body' \in [Requests -> Seq(Pieces)]
    BY <1>3, ErrorTypes DEF NoFlusher, Codes
  <2> QED
    BY <1>3, <2>1, ZenonT(30)
       DEF TypeOK, MetricsTypeOK, NoFlusher, report, metrics, Codes, Pieces
<1>4. ASSUME SinkChunk(r)
      PROVE  body' \in [Requests -> Seq(Pieces)] /\ writeErr' \in [Requests -> BOOLEAN]
  <2>1. /\ body \in [Requests -> Seq(Pieces)] /\ writeErr \in [Requests -> BOOLEAN]
    BY ZenonT(30) DEF TypeOK, Pieces
  <2>2. CASE UNCHANGED <<body, writeErr>>
    BY <2>1, <2>2
  <2>3. ASSUME NEW m \in 0 .. 3,
               body' = [body EXCEPT ![r] = @ \o SubSeq(Event, 1, m)],
               writeErr' = [writeErr EXCEPT ![r] = (m # 3)]
        PROVE  body' \in [Requests -> Seq(Pieces)] /\ writeErr' \in [Requests -> BOOLEAN]
    <3>1. body[r] \o SubSeq(Event, 1, m) \in Seq(Pieces)
      BY <2>1, EventPieces, ConcatProperties
    <3>2. body' \in [Requests -> Seq(Pieces)]
      BY <2>1, <2>3, <3>1
    <3>3. writeErr' \in [Requests -> BOOLEAN]
      BY <2>1, <2>3
    <3> QED
      BY <3>2, <3>3
  <2> QED
    BY <1>4, <2>2, <2>3, SinkWrites
<1>5. CASE Commit(r)
  <2>1. body' \in [Requests -> Seq(Pieces)] /\ writeErr' \in [Requests -> BOOLEAN]
    BY <1>4, <1>5 DEF Commit, Committed
  <2>2. PICK b \in Backends : winner' = [winner EXCEPT ![r] = b]
    BY <1>5 DEF Commit, Committed
  <2>3. b \in 0 .. NB
    BY MetricsAssumption DEF Backends
  <2>4. status' \in [Requests -> Seq(Codes)]
    <3>0. status \in [Requests -> Seq(Codes)]
      BY ZenonT(30) DEF TypeOK, Codes
    <3>1. status[r] \in Seq(Codes) /\ 200 \in Codes
      BY <3>0 DEF Codes
    <3>2. Append(status[r], 200) \in Seq(Codes)
      BY <3>1
    <3> QED
      BY <1>5, <3>0, <3>2 DEF Commit, Committed
  <2>5. winner' \in [Requests -> 0 .. NB] /\ committed' \in [Requests -> BOOLEAN]
    <3>1. winner \in [Requests -> 0 .. NB] /\ committed \in [Requests -> BOOLEAN]
      BY ZenonT(30) DEF TypeOK
    <3>2. committed' = [committed EXCEPT ![r] = TRUE]
      BY <1>5 DEF Commit, Committed
    <3>3. winner' \in [Requests -> 0 .. NB]
      BY <2>2, <2>3, <3>1
    <3>4. committed' \in [Requests -> BOOLEAN]
      BY <3>1, <3>2
    <3> QED
      BY <3>3, <3>4
  <2>6. UNCHANGED <<kind, phase, ret, chunks, todo, held, added, lat, metrics>>
    BY <1>5 DEF Commit, Committed, report
  <2> QED
    BY <2>1, <2>4, <2>5, <2>6, ZenonT(30)
       DEF TypeOK, MetricsTypeOK, Commit, Committed, report, metrics, Codes, Pieces
<1>6. CASE Relay(r)
  <2>1. body' \in [Requests -> Seq(Pieces)] /\ writeErr' \in [Requests -> BOOLEAN]
    BY <1>4, <1>6 DEF Relay, Relayed
  <2>2. chunks' \in [Requests -> 0 .. MaxChunks]
    <3>1. chunks \in [Requests -> 0 .. MaxChunks] /\ MaxChunks \in Nat
      BY ProxyAssumption, ZenonT(30) DEF TypeOK
    <3> QED
      BY <1>6, <3>1 DEF Relay, Relayed
  <2> QED
    BY <1>6, <2>1, <2>2, ZenonT(30)
       DEF TypeOK, MetricsTypeOK, Relay, Relayed, handler, report, metrics, Pieces
<1> QED
  BY <1>1, <1>2, <1>3, <1>5, <1>6

\* What a request is reported to are labels.
LEMMA LabelledType ==
    ASSUME TypeOK, NEW r \in Requests, NEW tried \in Attempts, Took(r, tried),
           NEW why \in [Backends -> Reasons]
    PROVE  Labelled(r, Losses(r, tried, why)) \in Seq(Labels)
<1>1. Losses(r, tried, why) \in Seq(Labels)
  BY LossesType
<1>2. CASE winner[r] = 0
  BY <1>1, <1>2 DEF Labelled
<1>3. CASE winner[r] # 0
  <2>0. winner[r] \in 0 .. NB
    BY TypeFacts
  <2>1. winner[r] \in Backends
    BY <1>3, <2>0, MetricsAssumption DEF Backends
  <2>2. <<WinOf(winner[r])>> \in Seq(Labels)
    BY <2>1 DEF WinOf, Labels
  <2> HIDE DEF Labels
  <2> QED
    BY <1>1, <1>3, <2>2, ConcatProperties DEF Labelled
<1> QED
  BY <1>2, <1>3

\* The histogram after an observation.
LEMMA HistType ==
    ASSUME TypeOK, NEW v \in Nat, ObserveFirstToken(v)
    PROVE  /\ hist'.counts = [hist.counts EXCEPT ![Bucket(v)] = @ + 1]
           /\ hist'.sum = hist.sum + v /\ hist'.count = hist.count + 1
           /\ hist.counts \in [BucketIndices -> Nat]
           /\ hist' \in [counts : [1 .. Len(Bounds) + 1 -> Nat], sum : Nat, count : Nat]
<1>1. /\ hist.counts \in [BucketIndices -> Nat] /\ hist.sum \in Nat
      /\ hist.count \in Nat
  BY ZenonT(30) DEF TypeOK, MetricsTypeOK, BucketIndices
<1>2. Bucket(v) \in BucketIndices
  BY BucketIsFirst
<1>3. hist' = [counts |-> [hist.counts EXCEPT ![Bucket(v)] = @ + 1],
               sum |-> hist.sum + v, count |-> hist.count + 1]
  BY DEF ObserveFirstToken
<1>4. [hist.counts EXCEPT ![Bucket(v)] = @ + 1] \in [BucketIndices -> Nat]
  BY <1>1, <1>2
<1> QED
  BY <1>1, <1>3, <1>4 DEF BucketIndices

\* The types survive a report and what follows it.
LEMMA TypeStepLate ==
    ASSUME TypeOK, HeldIsFound, NEW r \in Requests,
           Return(r) \/ Find(r) \/ AddOne(r) \/ Conclude(r)
    PROVE  TypeOK'
<1>1. CASE Return(r)
  <2>1. PICK e \in Returns(r), tried \in Attempts, why \in [Backends -> Reasons] :
          /\ Took(r, tried) /\ ret' = [ret EXCEPT ![r] = e]
          /\ todo' = [todo EXCEPT ![r] = Labelled(r, Losses(r, tried, why))]
          /\ totals' = [totals EXCEPT !.redundant =
                                       @ + RedundantStarts(r, tried, why)]
    BY <1>1, ReturnFacts DEF Reported
  <2>2. todo' \in [Requests -> Seq(Labels)]
    BY <2>1, LabelledType, ZenonT(30) DEF TypeOK
  <2>3. totals' \in [{"requests", "failed", "canceled", "redundant"} -> Nat]
    <3> DEFINE S == {i \in DOMAIN tried : \/ tried[i] = winner[r]
                                          \/ why[tried[i]] # "error"}
    <3>1. IsFiniteSet(DOMAIN tried)
      BY AttemptsType, FS_Interval
    <3>2. Cardinality(S) \in Nat
      BY <3>1, FS_Subset, FS_CardinalityType
    <3>4. RedundantStarts(r, tried, why) \in Nat
      BY <3>2 DEF RedundantStarts
    <3>3. totals \in [{"requests", "failed", "canceled", "redundant"} -> Nat]
      BY ZenonT(30) DEF TypeOK, MetricsTypeOK
    <3> QED
      BY <2>1, <3>3, <3>4
  <2>4. ret' \in [Requests -> {"none", "ok", "allFailed", "noBackends", "ctx", "sink"}]
    BY <2>1, ZenonT(30) DEF TypeOK, Returns
  <2>5. phase' \in [Requests -> {"new", "serving", "reporting", "answering", "done"}]
    <3>1. phase \in [Requests -> {"new", "serving", "reporting", "answering", "done"}]
      BY ZenonT(30) DEF TypeOK
    <3> QED
      BY <1>1, <3>1, ReturnFacts
  <2>6. UNCHANGED <<kind, winner, wire, held, added, lat, series, value, hist, page>>
    BY <1>1, ReturnFacts
  <2> QED
    BY <2>2, <2>3, <2>4, <2>5, <2>6, ZenonT(30) DEF TypeOK, MetricsTypeOK, wire
<1>2. CASE Find(r)
  <2>0. todo \in [Requests -> Seq(Labels)]
    BY ZenonT(30) DEF TypeOK
  <2>1. todo[r] \in Seq(Labels) /\ todo[r] # <<>>
    BY <1>2, <2>0 DEF Find
  <2>2. Head(todo[r]) \in Labels
    BY <2>1, HeadTailProperties
  <2>3. /\ series' \in [Labels -> 0 .. Len(value')] /\ value' \in Seq(Nat)
        /\ series'[Head(todo[r])] \in 1 .. Len(value')
        /\ Len(value) \in Nat /\ Len(value') \in Nat /\ Len(value) <= Len(value')
    BY <1>2, <2>2, FindTypes DEF Find
  <2>4. held' \in [Requests -> 0 .. Len(value')]
    <3>1. held \in [Requests -> 0 .. Len(value)]
      BY ZenonT(30) DEF TypeOK
    <3>2. held' = [held EXCEPT ![r] = series'[Head(todo[r])]]
      BY <1>2 DEF Find
    <3> QED
      BY <2>3, <3>1, <3>2
  <2> QED
    BY <1>2, <2>3, <2>4 DEF TypeOK, MetricsTypeOK, Find, handler, wire
<1>3. CASE AddOne(r)
  <2>1. todo[r] \in Seq(Labels) /\ todo[r] # <<>>
    BY <1>3, TypeFacts DEF AddOne, HeldIsFound
  <2>2. Head(todo[r]) \in Labels /\ Tail(todo[r]) \in Seq(Labels)
    BY <2>1, HeadTailProperties
  <2>3. value' \in Seq(Nat) /\ Len(value') = Len(value)
    <3>1. value \in Seq(Nat)
      BY ZenonT(30) DEF TypeOK, MetricsTypeOK
    <3>2. held[r] \in 1 .. Len(value) /\ value[held[r]] \in Nat
      <4>0. held \in [Requests -> 0 .. Len(value)]
        BY ZenonT(30) DEF TypeOK
      <4>1. held[r] \in 0 .. Len(value) /\ Len(value) \in Nat
        BY <3>1, <4>0
      <4>2. held[r] # 0
        BY <1>3 DEF AddOne
      <4> QED
        BY <3>1, <4>1, <4>2
    <3>3. value[held[r]] + 1 \in Nat
      BY <3>2
    <3>4. value' = [value EXCEPT ![held[r]] = value[held[r]] + 1]
      BY <1>3 DEF AddOne, Increment
    <3> QED
      BY <3>1, <3>2, <3>3, <3>4, ExceptSeq
  <2>4. held' \in [Requests -> 0 .. Len(value')]
    <3>1. held \in [Requests -> 0 .. Len(value)] /\ value \in Seq(Nat)
      BY ZenonT(30) DEF TypeOK, MetricsTypeOK
    <3>2. Len(value) \in Nat
      BY <3>1
    <3>3. held' = [held EXCEPT ![r] = 0]
      BY <1>3 DEF AddOne
    <3> QED
      BY <2>3, <3>1, <3>2, <3>3
  <2>5. todo' \in [Requests -> Seq(Labels)] /\ added' \in [Requests -> SUBSET Labels]
    <3>1. todo \in [Requests -> Seq(Labels)] /\ added \in [Requests -> SUBSET Labels]
      BY ZenonT(30) DEF TypeOK
    <3> QED
      BY <1>3, <2>2, <3>1 DEF AddOne
  <2>6. series' \in [Labels -> 0 .. Len(value')]
    BY <1>3, <2>3, ZenonT(30) DEF AddOne, TypeOK, MetricsTypeOK
  <2> QED
    BY <1>3, <2>3, <2>4, <2>5, <2>6, ZenonT(30)
       DEF TypeOK, MetricsTypeOK, AddOne, handler, wire
<1>4. CASE Conclude(r)
  <2>1. /\ hist' \in [counts : [1 .. Len(Bounds) + 1 -> Nat], sum : Nat, count : Nat]
        /\ totals' \in [{"requests", "failed", "canceled", "redundant"} -> Nat]
        /\ lat' \in [Requests -> Latencies \cup {0}]
    <3>1. /\ hist \in [counts : [1 .. Len(Bounds) + 1 -> Nat], sum : Nat, count : Nat]
          /\ totals \in [{"requests", "failed", "canceled", "redundant"} -> Nat]
          /\ lat \in [Requests -> Latencies \cup {0}]
      BY ZenonT(30) DEF TypeOK, MetricsTypeOK
    <3>2. CASE Verdict(r) = "firstTokens"
      <4>1. PICK v \in Latencies : ObserveFirstToken(v) /\ lat' = [lat EXCEPT ![r] = v]
        BY <1>4, <3>2 DEF Conclude
      <4>2. v \in Nat
        BY ProxyAssumption
      <4>3. hist' \in [counts : [1 .. Len(Bounds) + 1 -> Nat], sum : Nat, count : Nat]
        BY <4>1, <4>2, HistType
      <4> QED
        BY <1>4, <3>1, <3>2, <4>1, <4>3 DEF Conclude
    <3>3. CASE Verdict(r) # "firstTokens"
      <4>1. Verdict(r) \in {"canceled", "failed"}
        BY <3>3 DEF Verdict
      <4>2. totals' = [totals EXCEPT ![Verdict(r)] = @ + 1] /\ UNCHANGED <<hist, lat>>
        BY <1>4, <3>3 DEF Conclude
      <4> HIDE DEF Verdict
      <4> QED
        BY <3>1, <4>1, <4>2
    <3> QED
      BY <3>2, <3>3
  <2>2. phase' \in [Requests -> {"new", "serving", "reporting", "answering", "done"}]
    BY <1>4, ZenonT(30) DEF Conclude, TypeOK
  <2> QED
    BY <1>4, <2>1, <2>2, ZenonT(30) DEF TypeOK, MetricsTypeOK, Conclude, wire
<1> QED
  BY <1>1, <1>2, <1>3, <1>4

\* A scrape reads the cancellations, then the wins, then the losses.
LEMMA ScrapeReads ==
    ASSUME TypeOK, Scraped
    PROVE  /\ \/ /\ page.reads = "canceled"
                 /\ page' = [reads |-> "wins",
                             owed |-> [b \in Backends |-> totals.canceled]]
              \/ /\ page.reads = "wins"
                 /\ page' = [reads |-> "losses",
                             owed |-> [b \in Backends |->
                                         page.owed[b] + SumOf(WinCount, Backends \ {b})]]
              \/ /\ page.reads = "losses"
                 /\ page' = [reads |-> "canceled", owed |-> [b \in Backends |-> 0]]
           /\ UNCHANGED <<handler, wire, report, series, value, totals, hist>>
<1>1. page.reads \in {"canceled", "wins", "losses"}
  <2>1. page \in [reads : {"canceled", "wins", "losses"}, owed : [Backends -> Nat]]
    BY ZenonT(30) DEF TypeOK, MetricsTypeOK
  <2> QED
    BY <2>1
<1>2. [b \in Backends |-> page.owed[b] + MapThenSumSet(WinsOf, Backends \ {b})]
        = [b \in Backends |-> page.owed[b] + SumOf(WinCount, Backends \ {b})]
  <2>1. \A b \in Backends :
          MapThenSumSet(WinsOf, Backends \ {b}) = SumOf(WinCount, Backends \ {b})
    BY WinsAreSummed
  <2> QED
    BY <2>1, Zenon
<1>3. CASE page.reads = "canceled"
  BY <1>3 DEF Scraped, Scrape
<1>4. CASE page.reads = "wins"
  <2>1. page' = [reads |-> "losses",
                 owed |-> [b \in Backends |->
                             page.owed[b] + MapThenSumSet(WinsOf, Backends \ {b})]]
    BY <1>4 DEF Scraped, Scrape
  <2> QED
    BY <1>2, <1>4, <2>1 DEF Scraped, Scrape
<1>5. CASE page.reads = "losses"
  BY <1>5 DEF Scraped, Scrape, NewPage
<1> QED
  BY <1>1, <1>3, <1>4, <1>5

\* The types survive an answer and a scrape, so every step.
LEMMA TypeStep ==
    ASSUME TypeOK, HeldIsFound, [Next]_vars
    PROVE  TypeOK'
<1>1. ASSUME NEW r \in Requests, AnswerError(r) PROVE TypeOK'
  <2>1. ErrorStatus(r) \in Codes /\ WriteError(r, ErrorStatus(r))
    BY <1>1 DEF AnswerError, ErrorStatus, Codes
  <2>2. status' \in [Requests -> Seq(Codes)] /\ body' \in [Requests -> Seq(Pieces)]
    BY <2>1, ErrorTypes
  <2>3. phase' \in [Requests -> {"new", "serving", "reporting", "answering", "done"}]
    BY <1>1, ZenonT(30) DEF AnswerError, TypeOK
  <2>4. UNCHANGED <<kind, winner, ret, committed, writeErr, chunks, report, metrics>>
    BY <1>1 DEF AnswerError
  <2> QED
    BY <2>2, <2>3, <2>4, ZenonT(30)
       DEF TypeOK, MetricsTypeOK, report, metrics, Codes, Pieces
<1>2. ASSUME NEW r \in Requests, AnswerStream(r) PROVE TypeOK'
  <2>1. body' \in [Requests -> Seq(Pieces)]
    <3>1. body \in [Requests -> Seq(Pieces)]
      BY ZenonT(30) DEF TypeOK, Pieces
    <3>2. "[DONE]" \in Pieces
      BY DEF Pieces
    <3>3. Append(body[r], "[DONE]") \in Seq(Pieces)
      BY <3>1, <3>2
    <3> QED
      BY <1>2, <3>1, <3>3 DEF AnswerStream
  <2>2. phase' \in [Requests -> {"new", "serving", "reporting", "answering", "done"}]
    BY <1>2, ZenonT(30) DEF AnswerStream, TypeOK
  <2> QED
    BY <1>2, <2>1, <2>2, ZenonT(30)
       DEF TypeOK, MetricsTypeOK, AnswerStream, report, metrics, Pieces
<1>3. ASSUME NEW r \in Requests, AnswerJSON(r) PROVE TypeOK'
  <2>1. status' \in [Requests -> Seq(Codes)] /\ body' \in [Requests -> Seq(Pieces)]
    <3>1. body \in [Requests -> Seq(Pieces)] /\ status \in [Requests -> Seq(Codes)]
      BY ZenonT(30) DEF TypeOK, Pieces, Codes
    <3>2. "completion" \in Pieces /\ 200 \in Codes
      BY DEF Pieces, Codes
    <3>3. Append(body[r], "completion") \in Seq(Pieces)
      BY <3>1, <3>2
    <3>4. Append(status[r], 200) \in Seq(Codes)
      BY <3>1, <3>2
    <3> QED
      BY <1>3, <3>1, <3>3, <3>4 DEF AnswerJSON
  <2>2. phase' \in [Requests -> {"new", "serving", "reporting", "answering", "done"}]
    BY <1>3, ZenonT(30) DEF AnswerJSON, TypeOK
  <2> QED
    BY <1>3, <2>1, <2>2, ZenonT(30)
       DEF TypeOK, MetricsTypeOK, AnswerJSON, report, metrics, Codes, Pieces
<1>4. CASE Scraped
  <2>1. page' \in [reads : {"canceled", "wins", "losses"}, owed : [Backends -> Nat]]
    <3>1. page \in [reads : {"canceled", "wins", "losses"}, owed : [Backends -> Nat]]
      BY ZenonT(30) DEF TypeOK, MetricsTypeOK
    <3>2. totals.canceled \in Nat
      BY ZenonT(30) DEF TypeOK, MetricsTypeOK
    <3>3. \/ /\ page.reads = "canceled"
             /\ page' = [reads |-> "wins", owed |-> [b \in Backends |-> totals.canceled]]
          \/ /\ page.reads = "wins"
             /\ page' = [reads |-> "losses",
                         owed |-> [b \in Backends |->
                                     page.owed[b] + SumOf(WinCount, Backends \ {b})]]
          \/ page' = [reads |-> "canceled", owed |-> [b \in Backends |-> 0]]
      BY <1>4, ScrapeReads
    <3>4. \A b \in Backends :
            /\ page.owed[b] \in Nat /\ SumOf(WinCount, Backends \ {b}) \in Nat
            /\ page.owed[b] + SumOf(WinCount, Backends \ {b}) \in Nat
      <4>1. ASSUME NEW b \in Backends
            PROVE  page.owed[b] \in Nat /\ SumOf(WinCount, Backends \ {b}) \in Nat
        BY <3>1, OwedIsNat
      <4> QED
        BY <4>1
    <3>5. CASE page' = [reads |-> "wins", owed |-> [b \in Backends |-> totals.canceled]]
      BY <3>2, <3>5
    <3>6. CASE page' = [reads |-> "losses",
                        owed |-> [b \in Backends |->
                                    page.owed[b] + SumOf(WinCount, Backends \ {b})]]
      <4>1. [b \in Backends |-> page.owed[b] + SumOf(WinCount, Backends \ {b})]
              \in [Backends -> Nat]
        BY <3>4
      <4> QED
        BY <3>6, <4>1
    <3>7. CASE page' = [reads |-> "canceled", owed |-> [b \in Backends |-> 0]]
      BY <3>7
    <3> QED
      BY <3>3, <3>5, <3>6, <3>7
  <2>2. UNCHANGED <<handler, wire, report, series, value, totals, hist>>
    BY <1>4 DEF Scraped, Scrape
  <2> QED
    BY <2>1, <2>2, ZenonT(30) DEF TypeOK, MetricsTypeOK, handler, wire, report
<1>5. CASE UNCHANGED vars
  BY <1>5, ZenonT(30) DEF TypeOK, MetricsTypeOK, vars, handler, wire, report, metrics
<1> QED
  BY <1>1, <1>2, <1>3, <1>4, <1>5, TypeStepEarly, TypeStepLate DEF Next, Terminated

-----------------------------------------------------------------------------
(* What a handler has done, and what it has sent for it.                   *)

\* How far each kind of request gets, and which errors a run with a winner, or
\* without one, may return.
HandlerInv ==
    \A r \in Requests :
        /\ kind[r] = "refused" => phase[r] \in {"new", "done"}
        /\ kind[r] = "noFlusher" => phase[r] \in {"new", "serving", "done"}
        /\ committed[r] <=> winner[r] # 0
        /\ committed[r] => kind[r] \in {"sse", "json"} /\ phase[r] # "new"
        /\ writeErr[r] => kind[r] = "sse" /\ committed[r]
        /\ ret[r] = "none" <=> \/ phase[r] \in {"new", "serving"}
                               \/ kind[r] \in {"refused", "noFlusher"}
        /\ ret[r] \in {"ok", "sink"} => committed[r]
        /\ ret[r] \in {"allFailed", "noBackends"} => ~committed[r]

\* The status a request that is done was answered with.
Answered(r) ==
    CASE kind[r] = "refused" -> Refusals
      [] kind[r] = "noFlusher" -> {500}
      [] kind[r] \in {"sse", "json"} /\ committed[r] -> {200}
      [] OTHER -> {ErrorStatus(r)}

\* A body of whole events, of which the last may be torn.
Whole(b) == \A i \in 1 .. Len(b) : b[i] = Event[((i - 1) % 3) + 1]

StreamInv ==
    \A r \in Requests : kind[r] = "sse" /\ committed[r] =>
        IF phase[r] = "done" /\ ~writeErr[r]
        THEN \E b \in Seq(Pieces) : /\ Whole(b) /\ Len(b) % 3 = 0
                                    /\ body[r] = Append(b, "[DONE]")
        ELSE Whole(body[r]) /\ (~writeErr[r] => Len(body[r]) % 3 = 0)

AnswerInv ==
    \A r \in Requests :
        /\ phase[r] # "done" /\ kind[r] = "sse" /\ committed[r] => status[r] = <<200>>
        /\ phase[r] # "done" /\ ~(kind[r] = "sse" /\ committed[r]) =>
             status[r] = <<>> /\ body[r] = <<>>
        /\ phase[r] = "done" => \E code \in Answered(r) : status[r] = <<code>>
        /\ phase[r] = "done" /\ kind[r] = "json" /\ committed[r] =>
             body[r] = <<"completion">>

\* A handler's steps keep to its course.
LEMMA HandlerStep ==
    ASSUME TypeOK, HandlerInv, [Next]_vars
    PROVE  HandlerInv'
<1>t. /\ kind \in [Requests -> Kind] /\ winner \in [Requests -> 0 .. NB]
      /\ phase \in [Requests -> {"new", "serving", "reporting", "answering", "done"}]
      /\ committed \in [Requests -> BOOLEAN] /\ writeErr \in [Requests -> BOOLEAN]
      /\ ret \in [Requests -> {"none", "ok", "allFailed", "noBackends", "ctx", "sink"}]
  <2>1. kind \in [Requests -> Kinds] /\ Kinds \subseteq Kind
    BY ProxyAssumption, ZenonT(30) DEF TypeOK
  <2>2. kind \in [Requests -> Kind]
    BY <2>1
  <2> QED
    BY <2>2, ZenonT(30) DEF TypeOK
<1>1. ASSUME NEW r \in Requests, Refuse(r) \/ Count(r) \/ NoFlusher(r)
      PROVE  HandlerInv'
  BY <1>1, <1>t DEF HandlerInv, Refuse, Count, NoFlusher, wire, Kind
<1>2. ASSUME NEW r \in Requests, Commit(r) PROVE HandlerInv'
  <2>1. PICK b \in Backends : winner' = [winner EXCEPT ![r] = b]
    BY <1>2 DEF Commit, Committed
  <2>2. b # 0
    BY <2>1, MetricsAssumption DEF Backends
  <2>3. \/ kind[r] = "json" /\ UNCHANGED writeErr
        \/ kind[r] = "sse" /\ \E m \in 0 .. 3 : writeErr' = [writeErr EXCEPT ![r] = (m # 3)]
    BY <1>2, SinkWrites DEF Commit, Committed
  <2> QED
    BY <1>2, <1>t, <2>1, <2>2, <2>3 DEF HandlerInv, Commit, Committed, Serving
<1>3. ASSUME NEW r \in Requests, Relay(r) PROVE HandlerInv'
  <2>1. \/ UNCHANGED writeErr
        \/ kind[r] = "sse" /\ \E m \in 0 .. 3 : writeErr' = [writeErr EXCEPT ![r] = (m # 3)]
    BY <1>3, SinkWrites DEF Relay, Relayed
  <2> QED
    BY <1>3, <1>t, <2>1 DEF HandlerInv, Relay, Relayed, Serving, handler
<1>4. ASSUME NEW r \in Requests, Return(r) PROVE HandlerInv'
  <2>1. PICK e \in Returns(r) : ret' = [ret EXCEPT ![r] = e]
    BY <1>4 DEF Return, Returned
  <2>2. /\ e # "none"
        /\ e \in {"ok", "sink"} => winner[r] # 0
        /\ e \in {"allFailed", "noBackends"} => winner[r] = 0
    BY <2>1 DEF Returns
  <2>3. /\ Serving(r) /\ phase' = [phase EXCEPT ![r] = "reporting"]
        /\ UNCHANGED <<kind, winner, committed, writeErr>>
    BY <1>4 DEF Return, Returned, wire
  <2> QED
    BY <1>t, <2>1, <2>2, <2>3 DEF HandlerInv, Serving
<1>5. ASSUME NEW r \in Requests, Find(r) \/ AddOne(r) PROVE HandlerInv'
  BY <1>5 DEF HandlerInv, Find, AddOne, handler, wire
<1>6. ASSUME NEW r \in Requests,
             Conclude(r) \/ AnswerError(r) \/ AnswerStream(r) \/ AnswerJSON(r)
      PROVE  HandlerInv'
  <2>1. PICK to \in {"answering", "done"} : phase' = [phase EXCEPT ![r] = to]
    BY <1>6 DEF Conclude, AnswerError, AnswerStream, AnswerJSON
  <2>2. /\ phase[r] \in {"reporting", "answering"}
        /\ UNCHANGED <<kind, winner, ret, committed, writeErr>>
    BY <1>6 DEF Conclude, AnswerError, AnswerStream, AnswerJSON, wire
  <2> QED
    BY <1>t, <2>1, <2>2 DEF HandlerInv
<1>7. CASE Scraped \/ UNCHANGED vars
  BY <1>7 DEF HandlerInv, Scraped, vars, handler, wire
<1> QED
  BY <1>1, <1>2, <1>3, <1>4, <1>5, <1>6, <1>7 DEF Next, Terminated

\* An event, or what was written of it, after whole events.
LEMMA WholeGrows ==
    ASSUME NEW b \in Seq(Pieces), Whole(b), Len(b) % 3 = 0, NEW m \in 0 .. 3
    PROVE  LET c == b \o SubSeq(Event, 1, m)
           IN Whole(c) /\ (m = 3 => Len(c) % 3 = 0)
<1> DEFINE e == SubSeq(Event, 1, m)
           c == b \o e
<1>1. /\ e \in Seq(Pieces) /\ Len(e) = m
      /\ \A i \in 1 .. m : e[i] = Event[i]
  BY EventPieces
<1>2. Len(b) \in Nat
  BY LenProperties
<1> HIDE DEF e
<1>3. /\ Len(c) = Len(b) + m
      /\ \A i \in 1 .. Len(b) + m : c[i] = IF i <= Len(b) THEN b[i] ELSE e[i - Len(b)]
  BY <1>1, ConcatProperties
<1> HIDE DEF c
<1>4. ASSUME NEW i \in 1 .. Len(c) PROVE c[i] = Event[((i - 1) % 3) + 1]
  <2>1. CASE i <= Len(b)
    BY <1>2, <1>3, <2>1 DEF Whole
  <2>2. CASE ~(i <= Len(b))
    <3>1. i - Len(b) \in 1 .. m /\ c[i] = e[i - Len(b)]
      BY <1>2, <1>3, <2>2
    <3>2. ((i - 1) % 3) + 1 = i - Len(b)
      BY <1>2, <3>1, SMTT(30)
    <3> QED
      BY <1>1, <3>1, <3>2
  <2> QED
    BY <2>1, <2>2
<1>5. m = 3 => Len(c) % 3 = 0
  BY <1>2, <1>3
<1> QED
  BY <1>4, <1>5 DEF Whole, c, e

\* A stream stays whole events, with [DONE] after them when it is done.
LEMMA StreamStep ==
    ASSUME TypeOK, HandlerInv, AnswerInv, StreamInv, [Next]_vars
    PROVE  StreamInv'
<1>t. /\ body \in [Requests -> Seq(Pieces)] /\ writeErr \in [Requests -> BOOLEAN]
      /\ committed \in [Requests -> BOOLEAN]
      /\ phase \in [Requests -> {"new", "serving", "reporting", "answering", "done"}]
  BY ZenonT(30) DEF TypeOK, Pieces
<1>1. ASSUME NEW r \in Requests, Refuse(r) \/ NoFlusher(r) \/ AnswerError(r)
      PROVE  StreamInv'
  <2>1. \E code : WriteError(r, code)
    BY <1>1 DEF Refuse, NoFlusher, AnswerError
  <2>2. /\ ~(kind[r] = "sse" /\ committed[r]) /\ UNCHANGED <<kind, committed, writeErr>>
        /\ \A q \in Requests : q # r => phase'[q] = phase[q]
    BY <1>1, <1>t DEF Refuse, NoFlusher, AnswerError, Uncommitted
  <2>3. \A q \in Requests : q # r => body'[q] = body[q]
    BY <2>1, <1>t DEF WriteError
  <2> QED
    BY <2>2, <2>3 DEF StreamInv
<1>2. ASSUME NEW r \in Requests, Count(r) PROVE StreamInv'
  <2>1. /\ phase[r] # "done" /\ phase'[r] # "done"
        /\ UNCHANGED <<kind, body, committed, writeErr>>
        /\ \A q \in Requests : q # r => phase'[q] = phase[q]
    BY <1>2, <1>t DEF Count, wire
  <2> QED
    BY <2>1 DEF StreamInv
<1>3. ASSUME NEW r \in Requests, SinkChunk(r), Serving(r), ~writeErr[r],
             UNCHANGED <<kind, phase>>,
             \A q \in Requests : q # r => committed'[q] = committed[q],
             kind[r] = "sse" => Whole(body[r]) /\ Len(body[r]) % 3 = 0
      PROVE  StreamInv'
  <2>1. CASE kind[r] = "json" /\ UNCHANGED <<body, writeErr>>
    BY <1>3, <2>1 DEF StreamInv
  <2>2. ASSUME NEW m \in 0 .. 3, kind[r] = "sse",
               body' = [body EXCEPT ![r] = @ \o SubSeq(Event, 1, m)],
               writeErr' = [writeErr EXCEPT ![r] = (m # 3)]
        PROVE  StreamInv'
    <3>1. /\ body'[r] = body[r] \o SubSeq(Event, 1, m) /\ writeErr'[r] = (m # 3)
          /\ \A q \in Requests : q # r => /\ body'[q] = body[q]
                                          /\ writeErr'[q] = writeErr[q]
      BY <1>t, <2>2
    <3>2. /\ Whole(body'[r])
          /\ m = 3 => Len(body'[r]) % 3 = 0
      BY <1>t, <1>3, <2>2, <3>1, WholeGrows
    <3>3. phase[r] # "done"
      BY <1>3 DEF Serving
    <3> SUFFICES ASSUME NEW q \in Requests, (kind[q] = "sse" /\ committed[q])'
                 PROVE  (IF phase[q] = "done" /\ ~writeErr[q]
                         THEN \E b \in Seq(Pieces) : /\ Whole(b) /\ Len(b) % 3 = 0
                                                     /\ body[q] = Append(b, "[DONE]")
                         ELSE Whole(body[q]) /\ (~writeErr[q] => Len(body[q]) % 3 = 0))'
      BY DEF StreamInv
    <3>4. CASE q = r
      BY <1>3, <3>1, <3>2, <3>3, <3>4
    <3>5. CASE q # r
      BY <1>3, <3>1, <3>5 DEF StreamInv
    <3> QED
      BY <3>4, <3>5
  <2> QED
    BY <1>3, <2>1, <2>2, SinkWrites
<1>4. ASSUME NEW r \in Requests, Commit(r) PROVE StreamInv'
  <2>1. /\ SinkChunk(r) /\ Serving(r) /\ UNCHANGED <<kind, phase>> /\ ~committed[r]
        /\ committed' = [committed EXCEPT ![r] = TRUE]
    BY <1>4 DEF Commit, Committed, HandlerInv
  <2>2. body[r] = <<>> /\ ~writeErr[r]
    BY <2>1 DEF AnswerInv, HandlerInv, Serving
  <2>3. Whole(body[r]) /\ Len(body[r]) % 3 = 0
    BY <2>2 DEF Whole
  <2>4. \A q \in Requests : q # r => committed'[q] = committed[q]
    BY <1>t, <2>1
  <2> QED
    BY <1>3, <2>1, <2>2, <2>3, <2>4
<1>5. ASSUME NEW r \in Requests, Relay(r) PROVE StreamInv'
  <2>1. /\ SinkChunk(r) /\ Serving(r) /\ ~writeErr[r] /\ committed[r]
        /\ UNCHANGED <<kind, phase, committed>>
    BY <1>5 DEF Relay, Relayed, HandlerInv, handler
  <2>2. kind[r] = "sse" => Whole(body[r]) /\ Len(body[r]) % 3 = 0
    BY <2>1 DEF StreamInv, Serving
  <2> QED
    BY <1>3, <2>1, <2>2
<1>6. ASSUME NEW r \in Requests, Return(r) \/ Find(r) \/ AddOne(r) \/ Conclude(r)
      PROVE  StreamInv'
  <2>1. /\ UNCHANGED <<kind, body, committed, writeErr>>
        /\ \A q \in Requests : phase'[q] = "done" <=> phase[q] = "done"
    BY <1>6, <1>t DEF Return, Returned, Find, AddOne, Conclude, Serving, handler, wire
  <2> QED
    BY <2>1 DEF StreamInv
<1>7. ASSUME NEW r \in Requests, AnswerStream(r) PROVE StreamInv'
  <2>1. /\ phase[r] = "answering" /\ committed[r] /\ kind[r] = "sse"
        /\ UNCHANGED <<kind, committed, writeErr>>
        /\ phase'[r] = "done" /\ \A q \in Requests : q # r => phase'[q] = phase[q]
        /\ body' = IF ~writeErr[r] THEN [body EXCEPT ![r] = Append(@, "[DONE]")]
                   ELSE body
    BY <1>7, <1>t DEF AnswerStream, Uncommitted, MayTerminate
  <2>2. Whole(body[r]) /\ (~writeErr[r] => Len(body[r]) % 3 = 0)
    BY <2>1 DEF StreamInv
  <2>3. CASE writeErr[r]
    BY <2>1, <2>2, <2>3 DEF StreamInv
  <2>4. CASE ~writeErr[r]
    <3>1. body[r] \in Seq(Pieces) /\ body'[r] = Append(body[r], "[DONE]")
      BY <1>t, <2>1, <2>4
    <3>2. \E b \in Seq(Pieces) : /\ Whole(b) /\ Len(b) % 3 = 0
                                 /\ body'[r] = Append(b, "[DONE]")
      BY <2>2, <2>4, <3>1
    <3>3. \A q \in Requests : q # r => body'[q] = body[q]
      BY <1>t, <2>1, <2>4
    <3> QED
      BY <2>1, <3>2, <3>3, ZenonT(30) DEF StreamInv
  <2> QED
    BY <2>3, <2>4
<1>8. ASSUME NEW r \in Requests, AnswerJSON(r) PROVE StreamInv'
  <2>1. /\ kind[r] = "json" /\ UNCHANGED <<kind, committed, writeErr>>
        /\ \A q \in Requests : q # r => /\ phase'[q] = phase[q]
                                        /\ body'[q] = body[q]
    BY <1>8, <1>t DEF AnswerJSON
  <2> QED
    BY <2>1 DEF StreamInv
<1>9. CASE Scraped \/ UNCHANGED vars
  BY <1>9 DEF StreamInv, Scraped, vars, handler, wire
<1> QED
  BY <1>1, <1>2, <1>4, <1>5, <1>6, <1>7, <1>8, <1>9 DEF Next, Terminated

\* A request keeps its answer, or its silence, unless it is touched.
AnswerOf(r) ==
    /\ phase[r] # "done" /\ kind[r] = "sse" /\ committed[r] => status[r] = <<200>>
    /\ phase[r] # "done" /\ ~(kind[r] = "sse" /\ committed[r]) =>
         status[r] = <<>> /\ body[r] = <<>>
    /\ phase[r] = "done" => \E code \in Answered(r) : status[r] = <<code>>
    /\ phase[r] = "done" /\ kind[r] = "json" /\ committed[r] =>
         body[r] = <<"completion">>

Touches(r) ==
    \A q \in Requests : q # r =>
        /\ kind'[q] = kind[q] /\ phase'[q] = phase[q] /\ ret'[q] = ret[q]
        /\ committed'[q] = committed[q] /\ status'[q] = status[q]
        /\ body'[q] = body[q]

\* Where one request is touched it is enough to look at that one.
LEMMA AnswerFrame ==
    ASSUME AnswerInv, NEW r \in Requests, Touches(r), AnswerOf(r)'
    PROVE  AnswerInv'
<1>1. ASSUME NEW q \in Requests, q # r PROVE AnswerOf(q)'
  <2>1. AnswerOf(q)
    BY DEF AnswerInv, AnswerOf
  <2>2. /\ kind'[q] = kind[q] /\ phase'[q] = phase[q] /\ ret'[q] = ret[q]
        /\ committed'[q] = committed[q] /\ status'[q] = status[q]
        /\ body'[q] = body[q]
    BY <1>1 DEF Touches
  <2>3. Answered(q)' = Answered(q)
    BY <2>2 DEF Answered, ErrorStatus
  <2> HIDE DEF Answered
  <2> QED
    BY <2>1, <2>2, <2>3 DEF AnswerOf
<1>2. \A q \in Requests : AnswerOf(q)'
  BY <1>1
<1> QED
  BY <1>2 DEF AnswerInv, AnswerOf

\* One status line, with the body it calls for, and none of either before.
LEMMA AnswerStep ==
    ASSUME TypeOK, HandlerInv, AnswerInv, [Next]_vars
    PROVE  AnswerInv'
<1>t. /\ kind \in [Requests -> Kinds] /\ ret \in [Requests -> {"none", "ok", "allFailed",
                                                 "noBackends", "ctx", "sink"}]
      /\ body \in [Requests -> Seq(Pieces)] /\ status \in [Requests -> Seq(Codes)]
      /\ committed \in [Requests -> BOOLEAN]
      /\ phase \in [Requests -> {"new", "serving", "reporting", "answering", "done"}]
  BY ZenonT(30) DEF TypeOK, Pieces, Codes
<1>e. ASSUME NEW r \in Requests, NEW code, WriteError(r, code), phase[r] # "done",
             ~(kind[r] = "sse" /\ committed[r]), ~committed[r], code \in Answered(r),
             phase' = [phase EXCEPT ![r] = "done"], UNCHANGED <<kind, ret, committed>>
      PROVE  AnswerInv'
  <2>1. Touches(r)
    BY <1>t, <1>e DEF Touches, WriteError
  <2>2. status[r] = <<>>
    BY <1>e DEF AnswerInv
  <2>3. status'[r] = <<code>>
    <3>1. status'[r] = Append(<<>>, code)
      BY <1>t, <1>e, <2>2 DEF WriteError
    <3> QED
      BY <3>1
  <2>4. Answered(r)' = Answered(r) /\ phase'[r] = "done"
    BY <1>t, <1>e DEF Answered, ErrorStatus
  <2> HIDE DEF Answered
  <2>5. AnswerOf(r)'
    BY <1>e, <2>3, <2>4 DEF AnswerOf
  <2> QED
    BY <2>1, <2>5, AnswerFrame
<1>1. ASSUME NEW r \in Requests, Refuse(r) PROVE AnswerInv'
  <2>1. PICK code \in Refusals : WriteError(r, code)
    BY <1>1 DEF Refuse
  <2>2. code \in Answered(r)
    BY <1>1 DEF Refuse, Answered
  <2>3. /\ phase[r] # "done" /\ ~committed[r] /\ phase' = [phase EXCEPT ![r] = "done"]
        /\ UNCHANGED <<kind, ret, committed>>
    BY <1>1 DEF Refuse, HandlerInv
  <2> QED
    BY <1>e, <2>1, <2>2, <2>3
<1>2. ASSUME NEW r \in Requests, NoFlusher(r) PROVE AnswerInv'
  <2>1. WriteError(r, 500) /\ 500 \in Answered(r)
    BY <1>2 DEF NoFlusher, Answered
  <2>2. /\ phase[r] # "done" /\ ~committed[r] /\ phase' = [phase EXCEPT ![r] = "done"]
        /\ UNCHANGED <<kind, ret, committed>>
    BY <1>2 DEF NoFlusher, HandlerInv
  <2> QED
    BY <1>e, <2>1, <2>2
<1>3. ASSUME NEW r \in Requests, AnswerError(r) PROVE AnswerInv'
  <2>1. /\ phase[r] = "answering" /\ ~committed[r]
        /\ phase' = [phase EXCEPT ![r] = "done"] /\ UNCHANGED <<kind, ret, committed>>
        /\ WriteError(r, ErrorStatus(r))
    BY <1>3 DEF AnswerError, Uncommitted
  <2>2. kind[r] \notin {"refused", "noFlusher"}
    BY <2>1 DEF HandlerInv
  <2>3. ErrorStatus(r) \in Answered(r)
    BY <2>1, <2>2 DEF Answered
  <2> QED
    BY <1>e, <2>1, <2>3
<1>4. ASSUME NEW r \in Requests, Count(r) PROVE AnswerInv'
  <2>1. /\ phase[r] # "done" /\ phase'[r] # "done" /\ Touches(r)
        /\ UNCHANGED <<kind, committed, status, body>>
    BY <1>4, <1>t DEF Count, wire, Touches
  <2>2. AnswerOf(r)'
    BY <2>1 DEF AnswerInv, AnswerOf
  <2> QED
    BY <2>1, <2>2, AnswerFrame
<1>5. ASSUME NEW r \in Requests, SinkChunk(r), Serving(r), UNCHANGED <<kind, phase, ret>>,
             committed' = [committed EXCEPT ![r] = TRUE],
             kind[r] = "json" => status' = status,
             kind[r] = "sse" => /\ status'[r] = << 200 >>
                                /\ \A q \in Requests : q # r => status'[q] = status[q]
      PROVE  AnswerInv'
  <2>1. phase[r] = "serving" /\ kind[r] \in {"sse", "json"}
    BY <1>5 DEF Serving
  <2>2. \/ kind[r] = "json" /\ body' = body
        \/ kind[r] = "sse" /\ \A q \in Requests : q # r => body'[q] = body[q]
    <3>1. \/ kind[r] = "json" /\ UNCHANGED body
          \/ /\ kind[r] = "sse"
             /\ \E m \in 0 .. 3 : body' = [body EXCEPT ![r] = @ \o SubSeq(Event, 1, m)]
      BY <1>5, SinkWrites
    <3>2. ASSUME NEW m \in 0 .. 3, body' = [body EXCEPT ![r] = @ \o SubSeq(Event, 1, m)]
          PROVE  \A q \in Requests : q # r => body'[q] = body[q]
      BY <1>t, <3>2
    <3> QED
      BY <3>1, <3>2
  <2>3. Touches(r)
    BY <1>5, <1>t, <2>1, <2>2 DEF Touches
  <2>4. committed'[r]
    BY <1>5, <1>t
  <2>5. kind[r] = "json" => status[r] = <<>> /\ body[r] = <<>>
    BY <2>1 DEF AnswerInv
  <2>6. AnswerOf(r)'
    BY <1>5, <2>1, <2>2, <2>4, <2>5 DEF AnswerOf
  <2> QED
    BY <2>3, <2>6, AnswerFrame
<1>6. ASSUME NEW r \in Requests, Commit(r) PROVE AnswerInv'
  <2>1. /\ SinkChunk(r) /\ Serving(r) /\ UNCHANGED <<kind, phase, ret>>
        /\ committed' = [committed EXCEPT ![r] = TRUE] /\ ~committed[r]
        /\ status' = IF kind[r] = "sse"
                     THEN [status EXCEPT ![r] = Append(@, 200)] ELSE status
    BY <1>6 DEF Commit, Committed, HandlerInv
  <2>2. kind[r] = "json" => status' = status
    BY <2>1
  <2>3. status[r] = <<>>
    BY <2>1 DEF AnswerInv, Serving
  <2>4. kind[r] = "sse" => /\ status'[r] = Append(<<>>, 200)
                           /\ \A q \in Requests : q # r => status'[q] = status[q]
    BY <2>1, <2>3, <1>t
  <2>5. Append(<<>>, 200) = <<200>>
    OBVIOUS
  <2> QED
    BY <1>5, <2>1, <2>2, <2>4, <2>5
<1>7. ASSUME NEW r \in Requests, Relay(r) PROVE AnswerInv'
  <2>1. /\ SinkChunk(r) /\ Serving(r) /\ committed[r]
        /\ UNCHANGED <<kind, phase, ret, committed, status>>
    BY <1>7 DEF Relay, Relayed, HandlerInv, handler
  <2>2. committed' = [committed EXCEPT ![r] = TRUE]
    BY <2>1, <1>t
  <2>3. kind[r] = "sse" => status[r] = <<200>>
    BY <2>1 DEF AnswerInv, Serving
  <2> QED
    BY <1>5, <2>1, <2>2, <2>3
<1>8. ASSUME NEW r \in Requests, Return(r) \/ Conclude(r) PROVE AnswerInv'
  <2>1. /\ phase[r] # "done" /\ phase'[r] # "done"
        /\ UNCHANGED <<kind, committed, status, body>>
        /\ \A q \in Requests : q # r => phase'[q] = phase[q] /\ ret'[q] = ret[q]
    BY <1>8, <1>t DEF Return, Returned, Conclude, Serving, wire
  <2>2. AnswerOf(r)' /\ Touches(r)
    BY <2>1 DEF AnswerInv, AnswerOf, Touches
  <2> QED
    BY <2>2, AnswerFrame
<1>9. ASSUME NEW r \in Requests, AnswerStream(r) \/ AnswerJSON(r) PROVE AnswerInv'
  <2>1. /\ phase[r] = "answering" /\ committed[r] /\ kind[r] \in {"sse", "json"}
        /\ UNCHANGED <<kind, ret, committed>> /\ phase' = [phase EXCEPT ![r] = "done"]
    BY <1>9 DEF AnswerStream, AnswerJSON, Uncommitted
  <2>2. Touches(r)
    <3>1. \A q \in Requests : q # r => /\ phase'[q] = phase[q] /\ status'[q] = status[q]
                                      /\ body'[q] = body[q]
      BY <1>9, <1>t DEF AnswerStream, AnswerJSON
    <3> QED
      BY <2>1, <3>1 DEF Touches
  <2>3. phase'[r] = "done" /\ Answered(r)' = {200}
    BY <2>1, <1>t DEF Answered
  <2>4. status'[r] = <<200>> /\ (kind[r] = "json" => body'[r] = <<"completion">>)
    <3>1. CASE AnswerStream(r)
      BY <2>1, <3>1 DEF AnswerStream, AnswerInv
    <3>2. CASE AnswerJSON(r)
      <4>1. status[r] = <<>> /\ body[r] = <<>>
        BY <2>1, <3>2 DEF AnswerJSON, AnswerInv
      <4>2. /\ status'[r] = Append(<<>>, 200) /\ body'[r] = Append(<<>>, "completion")
        BY <1>t, <3>2, <4>1 DEF AnswerJSON
      <4> QED
        BY <4>2
    <3> QED
      BY <1>9, <3>1, <3>2
  <2> HIDE DEF Answered
  <2>5. AnswerOf(r)'
    BY <2>1, <2>3, <2>4 DEF AnswerOf
  <2> QED
    BY <2>2, <2>5, AnswerFrame
<1>10. CASE \/ \E r \in Requests : Find(r) \/ AddOne(r)
            \/ Scraped \/ UNCHANGED vars
  <2>1. UNCHANGED <<kind, phase, ret, committed, status, body>>
    BY <1>10 DEF Find, AddOne, Scraped, vars, handler, wire
  <2>2. \A r \in Requests : Answered(r)' = Answered(r)
    BY <2>1 DEF Answered, ErrorStatus
  <2> HIDE DEF Answered
  <2> QED
    BY <2>1, <2>2 DEF AnswerInv
<1> QED
  BY <1>1, <1>2, <1>3, <1>4, <1>6, <1>7, <1>8, <1>9, <1>10 DEF Next, Terminated

\* The three pieces of an event are none of the others.
LEMMA WholeHasNoError ==
    ASSUME NEW b \in Seq(Pieces), Whole(b), NEW i \in 1 .. Len(b)
    PROVE  b[i] # "error" /\ b[i] # "[DONE]"
<1>1. Len(b) \in Nat
  BY LenProperties
<1>2. ((i - 1) % 3) + 1 \in {1, 2, 3}
  BY <1>1
<1>3. b[i] = Event[((i - 1) % 3) + 1]
  BY DEF Whole
<1>4. Event[1] = "data: " /\ Event[2] = "payload" /\ Event[3] = "end"
  BY DEF Event
<1> QED
  BY <1>2, <1>3, <1>4

\* OneAnswer and StreamIsWellFormed follow.
LEMMA AnswersAreRight ==
    ASSUME TypeOK, HandlerInv, AnswerInv, StreamInv
    PROVE  OneAnswer /\ StreamIsWellFormed
<1>t. /\ kind \in [Requests -> Kinds] /\ Kinds \subseteq Kind
      /\ body \in [Requests -> Seq(Pieces)] /\ writeErr \in [Requests -> BOOLEAN]
      /\ committed \in [Requests -> BOOLEAN]
  BY ProxyAssumption, ZenonT(30) DEF TypeOK, Pieces
<1>1. ASSUME NEW r \in Requests, kind[r] = "sse", committed[r]
      PROVE  /\ \A i \in DOMAIN body[r] : body[r][i] # "error"
             /\ LET n == Len(body[r])
                    terminated == n > 0 /\ body[r][n] = "[DONE]"
                    events == IF terminated THEN n - 1 ELSE n
                IN /\ \A i \in 1 .. events : body[r][i] = Event[((i - 1) % 3) + 1]
                   /\ ~writeErr[r] => events % 3 = 0
                   /\ terminated => phase[r] = "done" /\ ~writeErr[r]
                   /\ phase[r] = "done" /\ ~writeErr[r] => terminated
  <2>1. CASE phase[r] = "done" /\ ~writeErr[r]
    <3>1. PICK b \in Seq(Pieces) : /\ Whole(b) /\ Len(b) % 3 = 0
                                  /\ body[r] = Append(b, "[DONE]")
      BY <1>1, <2>1 DEF StreamInv
    <3>2. "[DONE]" \in Pieces
      BY DEF Pieces
    <3>3. /\ Len(b) \in Nat /\ Len(body[r]) = Len(b) + 1
          /\ \A i \in 1 .. Len(b) : body[r][i] = b[i]
          /\ body[r][Len(b) + 1] = "[DONE]" /\ DOMAIN body[r] = 1 .. Len(b) + 1
      BY <1>t, <3>1, <3>2, AppendProperties, LenProperties
    <3>4. \A i \in 1 .. Len(b) : b[i] # "error" /\ b[i] # "[DONE]"
      BY <3>1, WholeHasNoError
    <3>5. \A i \in DOMAIN body[r] : body[r][i] # "error"
      BY <3>3, <3>4
    <3> DEFINE n == Len(body[r])
               terminated == n > 0 /\ body[r][n] = "[DONE]"
               events == IF terminated THEN n - 1 ELSE n
    <3>6. terminated
      BY <3>3
    <3>7. events = Len(b)
      BY <3>3, <3>6
    <3>8. \A i \in 1 .. Len(b) : body[r][i] = Event[((i - 1) % 3) + 1]
      BY <3>1, <3>3 DEF Whole
    <3>9. events % 3 = 0 /\ \A i \in 1 .. events : body[r][i] = Event[((i - 1) % 3) + 1]
      BY <3>1, <3>7, <3>8
    <3> HIDE DEF terminated, events
    <3>10. /\ \A i \in 1 .. events : body[r][i] = Event[((i - 1) % 3) + 1]
           /\ ~writeErr[r] => events % 3 = 0
           /\ terminated => phase[r] = "done" /\ ~writeErr[r]
           /\ phase[r] = "done" /\ ~writeErr[r] => terminated
      BY <2>1, <3>6, <3>9
    <3> QED
      BY <3>5, <3>10 DEF terminated, events
  <2>2. CASE ~(phase[r] = "done" /\ ~writeErr[r])
    <3>1. Whole(body[r]) /\ (~writeErr[r] => Len(body[r]) % 3 = 0)
      BY <1>1, <2>2 DEF StreamInv
    <3>2. Len(body[r]) \in Nat /\ DOMAIN body[r] = 1 .. Len(body[r])
      BY <1>t, LenProperties
    <3>3. \A i \in 1 .. Len(body[r]) : body[r][i] # "error" /\ body[r][i] # "[DONE]"
      BY <1>t, <3>1, WholeHasNoError
    <3>4. ~(Len(body[r]) > 0 /\ body[r][Len(body[r])] = "[DONE]")
      BY <3>2, <3>3
    <3> QED
      BY <2>2, <3>1, <3>2, <3>3, <3>4 DEF Whole
  <2> QED
    BY <2>1, <2>2
<1>2. StreamIsWellFormed
  BY <1>1 DEF StreamIsWellFormed
<1>3. ASSUME NEW r \in Requests
      PROVE  /\ Len(status[r]) <= 1
             /\ body[r] # <<>> \/ phase[r] = "done" => Len(status[r]) = 1
             /\ status[r] = <<200>> => \A i \in DOMAIN body[r] : body[r][i] # "error"
  <2>1. CASE kind[r] = "sse" /\ committed[r]
    <3>1. status[r] = <<200>>
      BY <2>1 DEF AnswerInv, Answered
    <3>2. Len(<<200>>) = 1
      OBVIOUS
    <3>3. \A i \in DOMAIN body[r] : body[r][i] # "error"
      BY <1>1, <2>1
    <3> QED
      BY <3>1, <3>2, <3>3
  <2>2. CASE ~(kind[r] = "sse" /\ committed[r]) /\ phase[r] # "done"
    <3>1. status[r] = <<>> /\ body[r] = <<>>
      BY <2>2 DEF AnswerInv
    <3>2. Len(<<>>) = 0 /\ DOMAIN <<>> = {}
      OBVIOUS
    <3> QED
      BY <2>2, <3>1, <3>2
  <2>3. CASE ~(kind[r] = "sse" /\ committed[r]) /\ phase[r] = "done"
    <3>1. PICK code \in Answered(r) : status[r] = <<code>>
      BY <2>3 DEF AnswerInv
    <3>2. Len(<<code>>) = 1 /\ <<code>>[1] = code
      OBVIOUS
    <3>3. ASSUME code = 200 PROVE kind[r] = "json" /\ committed[r]
      <4>1. ErrorStatus(r) # 200
        BY DEF ErrorStatus
      <4>2. 200 \notin Refusals
        BY ProxyAssumption
      <4> HIDE DEF ErrorStatus
      <4> QED
        BY <2>3, <3>3, <4>1, <4>2 DEF Answered
    <3>4. ASSUME code = 200 PROVE \A i \in DOMAIN body[r] : body[r][i] # "error"
      <4>1. body[r] = <<"completion">>
        BY <2>3, <3>3, <3>4 DEF AnswerInv
      <4>2. DOMAIN <<"completion">> = {1} /\ <<"completion">>[1] # "error"
        OBVIOUS
      <4> QED
        BY <4>1, <4>2
    <3>5. status[r] = <<200>> => code = 200
      BY <3>1
    <3> QED
      BY <2>3, <3>1, <3>2, <3>4, <3>5
  <2> QED
    BY <2>1, <2>2, <2>3
<1>4. OneAnswer
  BY <1>3 DEF OneAnswer
<1> QED
  BY <1>2, <1>4

-----------------------------------------------------------------------------
(* What a run is reported to.                                              *)

\* The labels of a report are distinct, and its win is the winner's and last.
LEMMA LabelledFacts ==
    ASSUME TypeOK, NEW r \in Requests, NEW tried \in Attempts, Took(r, tried),
           NEW why \in [Backends -> Reasons]
    PROVE  LET s == Labelled(r, Losses(r, tried, why))
           IN /\ \A i, j \in 1 .. Len(s) : s[i] = s[j] => i = j
              /\ \A b \in Backends :
                   (\E i \in 1 .. Len(s) : s[i] = WinOf(b)) <=> b = winner[r]
              /\ \A b \in Backends, i \in 1 .. Len(s) : s[i] = WinOf(b) => i = Len(s)
<1> DEFINE w == winner[r]
           lost == Losses(r, tried, why)
           m == Len(lost)
           s == Labelled(r, lost)
<1>1. w \in 0 .. NB
  <2>1. winner \in [Requests -> 0 .. NB]
    BY ZenonT(30) DEF TypeOK
  <2> QED
    BY <2>1
<1>2. NB \in Nat /\ NB # 0 /\ "win" \notin Reasons
  BY MetricsAssumption
<1>3. /\ m \in Nat /\ lost \in Seq(Labels)
      /\ \A i \in 1 .. m : lost[i].reason \in Reasons
      /\ \A i, j \in 1 .. m : lost[i] = lost[j] => i = j
  BY LossesType
<1>7. \A b : WinOf(b).reason = "win" /\ WinOf(b).backend = b
  BY DEF WinOf
<1>8. \A i \in 1 .. m, b \in Backends : lost[i] # WinOf(b)
  BY <1>2, <1>3, <1>7
<1> HIDE DEF lost, m
<1>11. CASE w = 0
  <2>1. s = lost
    BY <1>11 DEF Labelled
  <2>2. \A b \in Backends : b # w
    BY <1>11 DEF Backends
  <2> HIDE DEF s, w
  <2> QED
    BY <1>3, <1>8, <2>1, <2>2 DEF s, w, lost, m
<1>12. CASE w # 0
  <2>1. s = lost \o <<WinOf(w)>>
    BY <1>12 DEF Labelled
  <2>2. w \in Backends /\ WinOf(w) \in Labels
    BY <1>1, <1>2, <1>12 DEF Backends, WinOf, Labels
  <2>3. /\ Len(s) = m + 1
        /\ \A i \in 1 .. m : s[i] = lost[i]
        /\ s[m + 1] = WinOf(w)
    <3> HIDE DEF w, Labels
    <3>1. <<WinOf(w)>> \in Seq(Labels) /\ Len(<<WinOf(w)>>) = 1
          /\ <<WinOf(w)>>[1] = WinOf(w)
      BY <2>2
    <3>2. /\ Len(s) = m + 1
          /\ \A i \in 1 .. m + 1 : s[i] = IF i <= m THEN lost[i]
                                          ELSE <<WinOf(w)>>[i - m]
      BY <1>3, <2>1, <3>1, ConcatProperties DEF m
    <3>3. s[m + 1] = <<WinOf(w)>>[m + 1 - m] /\ m + 1 - m = 1
      BY <1>3, <3>2
    <3>4. \A i \in 1 .. m : s[i] = lost[i]
      BY <1>3, <3>2
    <3>5. s[m + 1] = WinOf(w)
      BY <3>1, <3>3
    <3> QED
      BY <3>2, <3>4, <3>5
  <2> HIDE DEF s, w
  <2>4. \A i \in 1 .. Len(s) : i \in 1 .. m \/ i = m + 1
    BY <1>3, <2>3
  <2>5. \A i, j \in 1 .. Len(s) : s[i] = s[j] => i = j
    BY <1>3, <1>8, <2>2, <2>3, <2>4
  <2>6. ASSUME NEW b \in Backends, NEW i \in 1 .. Len(s), s[i] = WinOf(b)
        PROVE  i = Len(s) /\ b = w
    <3>1. i = m + 1
      BY <1>8, <2>3, <2>4, <2>6
    <3>2. WinOf(w) = WinOf(b)
      BY <2>3, <2>6, <3>1
    <3> QED
      BY <1>7, <2>3, <3>1, <3>2
  <2>7. m + 1 \in 1 .. Len(s)
    BY <1>3, <2>3
  <2> QED
    BY <2>3, <2>5, <2>6, <2>7 DEF s, w, lost
<1> QED
  BY <1>11, <1>12

Owes(r, label) == \E i \in 1 .. Len(todo[r]) : todo[r][i] = label

\* Where the report of a request stands: what is owed and what was added are
\* distinct and belong to its run, the win comes after all else, and the latency
\* is observed once it has its winner and is over.
ReportOf(r) ==
    /\ phase[r] \in {"new", "serving"} => todo[r] = <<>> /\ held[r] = 0 /\ added[r] = {}
    /\ phase[r] \in {"answering", "done"} => todo[r] = <<>> /\ held[r] = 0
    /\ held[r] # 0 => todo[r] # <<>> /\ held[r] = series[Head(todo[r])]
    /\ \A i \in 1 .. Len(todo[r]) : todo[r][i] \notin added[r]
    /\ \A i, j \in 1 .. Len(todo[r]) : todo[r][i] = todo[r][j] => i = j
    /\ \A b \in Backends :
         WinOf(b) \in added[r] \/ Owes(r, WinOf(b)) => b = winner[r]
    /\ phase[r] \in {"reporting", "answering", "done"} /\ committed[r] =>
         WinOf(winner[r]) \in added[r] \/ Owes(r, WinOf(winner[r]))
    /\ \A b \in Backends :
         /\ WinOf(b) \in added[r] => todo[r] = <<>>
         /\ \A i \in 1 .. Len(todo[r]) : todo[r][i] = WinOf(b) => i = Len(todo[r])
    /\ lat[r] # 0 <=> phase[r] \in {"answering", "done"} /\ committed[r]
ReportInv == \A r \in Requests : ReportOf(r)

\* No two labels share a counter.
SeriesInv ==
    \A l1, l2 \in Labels : series[l1] = series[l2] /\ series[l1] # 0 => l1 = l2

\* A counter that is held was found for the label that is owed next.
LEMMA ReportMeansFound ==
    ASSUME TypeOK, ReportInv
    PROVE  HeldIsFound
<1> SUFFICES ASSUME NEW r \in Requests, held[r] # 0
             PROVE  /\ phase[r] = "reporting" /\ todo[r] # <<>>
                    /\ held[r] = series[Head(todo[r])]
  BY DEF HeldIsFound
<1>1. phase[r] \in Phases /\ ReportOf(r)
  BY TypeFacts DEF ReportInv
<1> QED
  BY <1>1 DEF ReportOf, Phases

\* A finding keeps the counters apart, and those that were found.
LEMMA FindSeries ==
    ASSUME TypeOK, SeriesInv, NEW label \in Labels, LocateOrInsert(label)
    PROVE  /\ SeriesInv'
           /\ \A l \in Labels : series[l] # 0 => series'[l] = series[l]
           /\ \A l \in Labels : Read(l)' = Read(l)
<1>1. /\ series \in [Labels -> 0 .. Len(value)] /\ value \in Seq(Nat)
      /\ Len(value) \in Nat
  BY TypeFacts, LenProperties
<1>2. CASE ~Missing(label) /\ UNCHANGED <<series, value>>
  BY <1>2 DEF SeriesInv, Read
<1>3. CASE /\ series[label] = 0 /\ value' = Append(value, 0)
           /\ series' = [series EXCEPT ![label] = Len(value) + 1]
  <2>1. /\ series'[label] = Len(value) + 1
        /\ \A l \in Labels : l # label => series'[l] = series[l]
    BY <1>1, <1>3
  <2>2. \A l \in Labels : series[l] \in 0 .. Len(value) /\ series[l] # Len(value) + 1
    BY <1>1
  <2>3. SeriesInv'
    BY <2>1, <2>2 DEF SeriesInv
  <2>4. /\ value'[Len(value) + 1] = 0
        /\ \A i \in 1 .. Len(value) : value'[i] = value[i]
    BY <1>1, <1>3, AppendProperties
  <2>5. ASSUME NEW l \in Labels PROVE Read(l)' = Read(l)
    <3>1. CASE l = label
      BY <1>1, <1>3, <2>1, <2>4, <3>1 DEF Read
    <3>2. CASE l # label /\ series[l] = 0
      BY <2>1, <3>2 DEF Read
    <3>3. CASE l # label /\ series[l] # 0
      <4>1. series[l] \in 1 .. Len(value)
        BY <1>1, <2>2, <3>3
      <4> QED
        BY <2>1, <2>4, <3>3, <4>1 DEF Read
    <3> QED
      BY <3>1, <3>2, <3>3
  <2> QED
    BY <1>3, <2>1, <2>3, <2>5
<1> QED
  BY <1>2, <1>3 DEF LocateOrInsert, Missing

\* A request that a step leaves alone keeps its report.
LEMMA ReportFrame ==
    ASSUME NEW q \in Requests, ReportOf(q), phase'[q] = phase[q],
           winner'[q] = winner[q], ret'[q] = ret[q], committed'[q] = committed[q],
           todo'[q] = todo[q], held'[q] = held[q], added'[q] = added[q],
           lat'[q] = lat[q],
           held[q] # 0 => series'[Head(todo[q])] = series[Head(todo[q])]
    PROVE  ReportOf(q)'
BY DEF ReportOf, Owes

\* The steps before a run returns and after its report leave nothing owed.
LEMMA ReportStepOutside ==
    ASSUME TypeOK, HandlerInv, ReportInv, NEW r \in Requests,
           \/ Refuse(r) \/ Count(r) \/ NoFlusher(r) \/ Commit(r) \/ Relay(r)
           \/ Conclude(r) \/ AnswerError(r) \/ AnswerStream(r) \/ AnswerJSON(r)
    PROVE  ReportInv'
<1>t. /\ phase \in [Requests -> Phases] /\ winner \in [Requests -> 0 .. NB]
      /\ committed \in [Requests -> BOOLEAN] /\ lat \in [Requests -> Latencies \cup {0}]
  BY TypeFacts
<1>1. UNCHANGED <<ret, todo, held, added, series>>
  BY DEF Refuse, Count, NoFlusher, Commit, Committed, Relay, Relayed, Conclude,
         AnswerError, AnswerStream,
         AnswerJSON, handler, report, metrics
<1>2. ASSUME NEW q \in Requests, q # r PROVE ReportOf(q)'
  <2>1. /\ phase'[q] = phase[q] /\ winner'[q] = winner[q]
        /\ committed'[q] = committed[q] /\ lat'[q] = lat[q]
    BY <1>2, <1>t DEF Refuse, Count, NoFlusher, Commit, Committed, Relay, Relayed,
                      Conclude, AnswerError,
         AnswerStream, AnswerJSON, handler, wire, report
  <2> QED
    BY <1>1, <2>1, ReportFrame DEF ReportInv
<1>3. ASSUME Refuse(r) \/ Count(r) \/ NoFlusher(r) \/ Commit(r) PROVE ReportOf(r)'
  <2>1. /\ phase[r] \in {"new", "serving"} /\ lat' = lat
        /\ phase'[r] \in {"new", "serving", "done"}
        /\ phase'[r] = "done" => committed' = committed /\ ~committed[r]
    BY <1>3, <1>t DEF Refuse, Count, NoFlusher, Commit, Committed, Serving,
                      HandlerInv, report
  <2>2. /\ todo[r] = <<>> /\ held[r] = 0 /\ added[r] = {} /\ lat[r] = 0
        /\ ret[r] = "none"
    BY <2>1 DEF ReportInv, ReportOf, HandlerInv
  <2>3. Len(<<>>) = 0 /\ \A b : b \notin {}
    OBVIOUS
  <2> QED
    BY <1>1, <2>1, <2>2, <2>3 DEF ReportOf, Owes
<1>4. ASSUME Relay(r) PROVE ReportOf(r)'
  BY <1>1, <1>4, ReportFrame DEF Relay, Relayed, handler, report, ReportInv
<1>5. ASSUME Conclude(r) PROVE ReportOf(r)'
  <2>1. /\ phase[r] = "reporting" /\ todo[r] = <<>> /\ ReportOf(r)
        /\ phase'[r] = "answering" /\ UNCHANGED <<winner, committed>>
    BY <1>5, <1>t DEF Conclude, ReportInv, wire
  <2>2. held[r] = 0 /\ Len(todo[r]) = 0 /\ lat[r] = 0
    BY <2>1 DEF ReportOf
  <2>3. lat'[r] # 0 <=> committed[r]
    <3>1. winner[r] # 0 <=> committed[r]
      BY DEF HandlerInv
    <3>2. CASE Verdict(r) = "firstTokens"
      <4>1. winner[r] # 0
        BY <3>2 DEF Verdict
      <4>2. PICK v \in Latencies : lat' = [lat EXCEPT ![r] = v]
        BY <1>5, <3>2 DEF Conclude
      <4>3. v # 0
        BY ProxyAssumption
      <4> QED
        BY <1>t, <3>1, <4>1, <4>2, <4>3
    <3>3. CASE Verdict(r) # "firstTokens"
      <4>1. winner[r] = 0
        BY <3>3 DEF Verdict
      <4>2. lat' = lat
        BY <1>5, <3>3 DEF Conclude
      <4> QED
        BY <2>2, <3>1, <4>1, <4>2
    <3> QED
      BY <3>2, <3>3
  <2> QED
    BY <1>1, <2>1, <2>2, <2>3 DEF ReportOf, Owes
<1>6. ASSUME AnswerError(r) \/ AnswerStream(r) \/ AnswerJSON(r) PROVE ReportOf(r)'
  <2>1. /\ phase[r] = "answering" /\ phase'[r] = "done"
        /\ UNCHANGED <<winner, committed, lat>>
    BY <1>6, <1>t DEF AnswerError, AnswerStream, AnswerJSON, report
  <2> QED
    BY <1>1, <2>1 DEF ReportInv, ReportOf, Owes
<1> QED
  BY <1>2, <1>3, <1>4, <1>5, <1>6 DEF ReportInv

\* A run that returns owes its losses and its win, each once.
LEMMA ReportStepReturn ==
    ASSUME TypeOK, HandlerInv, ReportInv, NEW r \in Requests, Return(r)
    PROVE  ReportInv'
<1>t. /\ phase \in [Requests -> Phases] /\ winner \in [Requests -> 0 .. NB]
      /\ todo \in [Requests -> Seq(Labels)]
      /\ ret \in [Requests -> {"none", "ok", "allFailed", "noBackends", "ctx", "sink"}]
  BY TypeFacts, ZenonT(30) DEF TypeOK
<1>1. PICK e \in Returns(r), tried \in Attempts, why \in [Backends -> Reasons] :
        /\ Took(r, tried)
        /\ ret' = [ret EXCEPT ![r] = e]
        /\ todo' = [todo EXCEPT ![r] = Labelled(r, Losses(r, tried, why))]
  BY ReturnFacts DEF Reported
<1>2. /\ phase[r] = "serving" /\ phase' = [phase EXCEPT ![r] = "reporting"]
      /\ UNCHANGED <<winner, committed, held, added, lat, series>>
  BY ReturnFacts DEF Serving, wire
<1> DEFINE s == Labelled(r, Losses(r, tried, why))
<1>3. /\ \A i, j \in 1 .. Len(s) : s[i] = s[j] => i = j
      /\ \A b \in Backends : (\E i \in 1 .. Len(s) : s[i] = WinOf(b)) <=> b = winner[r]
      /\ \A b \in Backends, i \in 1 .. Len(s) : s[i] = WinOf(b) => i = Len(s)
  BY <1>1, LabelledFacts
<1> HIDE DEF s
<1>4. todo'[r] = s /\ ret'[r] = e /\ phase'[r] = "reporting"
  BY <1>t, <1>1, <1>2 DEF s
<1>5. held[r] = 0 /\ added[r] = {} /\ lat[r] = 0
  BY <1>2 DEF ReportInv, ReportOf
<1>7. \A b : \/ \E i \in 1 .. Len(s) : s[i] = WinOf(b)
            \/ ~Owes(r, WinOf(b))'
  BY <1>4 DEF Owes
<1>8. committed[r] => winner[r] \in Backends /\ Owes(r, WinOf(winner[r]))'
  <2>1. committed[r] => winner[r] \in Backends
    BY <1>t, MetricsAssumption DEF HandlerInv, Backends
  <2> QED
    BY <1>3, <1>4, <2>1, <1>2 DEF Owes
<1>10. ReportOf(r)'
  BY <1>2, <1>3, <1>4, <1>5, <1>7, <1>8 DEF ReportOf
<1>11. ASSUME NEW q \in Requests, q # r PROVE ReportOf(q)'
  <2>1. phase'[q] = phase[q] /\ todo'[q] = todo[q] /\ ret'[q] = ret[q]
    BY <1>t, <1>1, <1>2, <1>11
  <2> QED
    BY <1>2, <2>1, ReportFrame DEF ReportInv
<1> QED
  BY <1>10, <1>11 DEF ReportInv

\* Finding a counter and adding to it move one label from owed to added.
LEMMA ReportStepInside ==
    ASSUME TypeOK, HandlerInv, ReportInv, SeriesInv, NEW r \in Requests,
           Find(r) \/ AddOne(r)
    PROVE  ReportInv'
<1>t. /\ todo \in [Requests -> Seq(Labels)] /\ held \in [Requests -> 0 .. Len(value)]
      /\ added \in [Requests -> SUBSET Labels] /\ phase \in [Requests -> Phases]
  BY TypeFacts
<1>1. CASE Find(r)
  <2>1. /\ phase[r] = "reporting" /\ todo[r] # <<>> /\ LocateOrInsert(Head(todo[r]))
        /\ held' = [held EXCEPT ![r] = series'[Head(todo[r])]]
        /\ UNCHANGED <<phase, winner, ret, committed, todo, added, lat>>
    BY <1>1 DEF Find, handler, wire
  <2>2. Head(todo[r]) \in Labels
    BY <1>t, <2>1, HeadTailProperties
  <2>3. \A l \in Labels : series[l] # 0 => series'[l] = series[l]
    BY <2>1, <2>2, FindSeries
  <2>4. ReportOf(r)'
    <3>1. held'[r] = series'[Head(todo[r])] /\ ReportOf(r)
      BY <1>t, <2>1 DEF ReportInv
    <3> QED
      BY <2>1, <3>1 DEF ReportOf, Owes
  <2>5. ASSUME NEW q \in Requests, q # r PROVE ReportOf(q)'
    <3>1. ReportOf(q)
      BY DEF ReportInv
    <3>2. held[q] # 0 => series'[Head(todo[q])] = series[Head(todo[q])]
      <4>1. SUFFICES ASSUME held[q] # 0
                     PROVE  series'[Head(todo[q])] = series[Head(todo[q])]
        OBVIOUS
      <4>2. todo[q] # <<>> /\ series[Head(todo[q])] # 0
        BY <3>1, <4>1 DEF ReportOf
      <4>3. Head(todo[q]) \in Labels
        BY <1>t, <4>2, HeadTailProperties
      <4> QED
        BY <2>3, <4>2, <4>3
    <3>3. held'[q] = held[q]
      BY <1>t, <2>1, <2>5
    <3> QED
      BY <2>1, <3>1, <3>2, <3>3, ReportFrame
  <2> QED
    BY <2>4, <2>5 DEF ReportInv
<1>2. CASE AddOne(r)
  <2>1. /\ held[r] # 0 /\ held' = [held EXCEPT ![r] = 0]
        /\ added' = [added EXCEPT ![r] = @ \cup {Head(todo[r])}]
        /\ todo' = [todo EXCEPT ![r] = Tail(@)]
        /\ UNCHANGED <<phase, winner, ret, committed, lat, series>>
    BY <1>2 DEF AddOne, handler, wire
  <2>2. ReportOf(r) /\ todo[r] # <<>> /\ todo[r] \in Seq(Labels)
    BY <1>t, <2>1 DEF ReportInv, ReportOf
  <2>3. phase[r] = "reporting"
    BY <1>t, <2>1, <2>2 DEF ReportOf, Phases
  <2> DEFINE s == todo[r]
             n == Len(s)
  <2>4. n \in Nat /\ n # 0 /\ Head(s) = s[1]
    BY <2>2, EmptySeq, LenProperties
  <2>5. /\ Len(Tail(s)) = n - 1
        /\ \A i \in 1 .. n - 1 : Tail(s)[i] = s[i + 1]
    BY <2>2, HeadTailProperties
  <2>6. /\ held'[r] = 0 /\ added'[r] = added[r] \cup {s[1]} /\ todo'[r] = Tail(s)
    BY <1>t, <2>1, <2>4
  <2>7. ASSUME NEW l PROVE (l \in added[r] \/ Owes(r, l)) <=> (l \in added[r] \/ Owes(r, l))'
    <3>1. ASSUME NEW i \in 1 .. n, s[i] = l PROVE (l \in added[r] \/ Owes(r, l))'
      <4>1. CASE i = 1
        BY <2>6, <3>1, <4>1
      <4>2. CASE i # 1
        <5>1. i - 1 \in 1 .. n - 1 /\ i - 1 + 1 = i
          BY <2>4, <4>2
        <5>2. Tail(s)[i - 1] = l
          BY <2>5, <3>1, <5>1
        <5> QED
          BY <2>5, <2>6, <5>1, <5>2 DEF Owes
      <4> QED
        BY <4>1, <4>2
    <3>2. ASSUME NEW i \in 1 .. n - 1, Tail(s)[i] = l PROVE Owes(r, l)
      <4>1. i + 1 \in 1 .. n /\ s[i + 1] = l
        BY <2>4, <2>5, <3>2
      <4> QED
        BY <4>1 DEF Owes
    <3>3. l = s[1] => Owes(r, l)
      <4>1. 1 \in 1 .. n
        BY <2>4
      <4> QED
        BY <4>1 DEF Owes
    <3>4. Owes(r, l) => (l \in added[r] \/ Owes(r, l))'
      BY <3>1 DEF Owes
    <3>5. Owes(r, l)' => Owes(r, l)
      BY <2>5, <2>6, <3>2 DEF Owes
    <3> QED
      BY <2>6, <3>3, <3>4, <3>5
  <2>8. /\ \A i \in 1 .. n - 1 : i + 1 \in 1 .. n
        /\ 1 \in 1 .. n /\ \A i \in 1 .. n - 1 : i + 1 # 1
    BY <2>4
  <2>9. /\ \A i \in 1 .. n : s[i] \notin added[r]
        /\ \A i, j \in 1 .. n : s[i] = s[j] => i = j
    BY <2>2 DEF ReportOf
  <2>10. /\ \A i \in 1 .. Len(todo'[r]) : todo'[r][i] \notin added'[r]
         /\ \A i, j \in 1 .. Len(todo'[r]) : todo'[r][i] = todo'[r][j] => i = j
    <3>1. ASSUME NEW i \in 1 .. n - 1 PROVE Tail(s)[i] \notin added[r] \cup {s[1]}
      BY <2>5, <2>8, <2>9
    <3>2. ASSUME NEW i \in 1 .. n - 1, NEW j \in 1 .. n - 1, Tail(s)[i] = Tail(s)[j]
          PROVE  i = j
      <4>1. i + 1 = j + 1
        BY <2>5, <2>8, <2>9, <3>2
      <4> QED
        BY <2>4, <4>1
    <3>3. /\ Len(todo'[r]) = n - 1 /\ todo'[r] = Tail(s)
          /\ added'[r] = added[r] \cup {s[1]}
      BY <2>5, <2>6
    <3> HIDE DEF s, n
    <3> QED
      BY <3>1, <3>2, <3>3
  <2>11. ASSUME NEW b \in Backends
         PROVE  /\ WinOf(b) \in added'[r] => todo'[r] = <<>>
                /\ \A i \in 1 .. Len(todo'[r]) :
                     todo'[r][i] = WinOf(b) => i = Len(todo'[r])
    <3>1. \A i \in 1 .. n : s[i] = WinOf(b) => i = n
      BY <2>2 DEF ReportOf
    <3>2. WinOf(b) \notin added[r]
      BY <2>2 DEF ReportOf
    <3>3. s[1] = WinOf(b) => n = 1
      BY <2>8, <3>1
    <3>4. n = 1 => Tail(s) = <<>>
      <4>1. Tail(s) \in Seq(Labels)
        BY <2>2, HeadTailProperties
      <4>2. n = 1 => Len(Tail(s)) = 0
        BY <2>5
      <4> HIDE DEF s, n
      <4> QED
        BY <4>1, <4>2, EmptySeq
    <3>5. ASSUME NEW i \in 1 .. n - 1, Tail(s)[i] = WinOf(b) PROVE i = n - 1
      <4>1. i + 1 = n
        BY <2>5, <2>8, <3>1, <3>5
      <4> QED
        BY <2>4, <4>1
    <3> HIDE DEF s, n
    <3> QED
      BY <2>5, <2>6, <3>2, <3>3, <3>4, <3>5
  <2>12. ReportOf(r)'
    <3> HIDE DEF s, n
    <3>1. \A b : (WinOf(b) \in added[r] \/ Owes(r, WinOf(b)))' <=>
                 (WinOf(b) \in added[r] \/ Owes(r, WinOf(b)))
      BY <2>7
    <3>2. held'[r] = 0 /\ phase'[r] = "reporting"
      BY <2>1, <2>3, <2>6
    <3>3. /\ \A b \in Backends :
                WinOf(b) \in added'[r] \/ Owes(r, WinOf(b))' => b = winner'[r]
          /\ committed'[r] => WinOf(winner'[r]) \in added'[r] \/ Owes(r, WinOf(winner[r]))'
      BY <2>1, <2>2, <2>3, <3>1 DEF ReportOf
    <3>5. lat'[r] # 0 <=> phase'[r] \in {"answering", "done"} /\ committed'[r]
      BY <2>1, <2>2 DEF ReportOf
    <3> QED
      BY <2>1, <2>10, <2>11, <3>2, <3>3, <3>5 DEF ReportOf
  <2>13. ASSUME NEW q \in Requests, q # r PROVE ReportOf(q)'
    <3>1. held'[q] = held[q] /\ added'[q] = added[q] /\ todo'[q] = todo[q]
      BY <1>t, <2>1, <2>13
    <3> QED
      BY <2>1, <3>1, ReportFrame DEF ReportInv
  <2> QED
    BY <2>12, <2>13 DEF ReportInv
<1> QED
  BY <1>1, <1>2

\* The reports stay in order through every step, and the counters apart.
LEMMA ReportStep ==
    ASSUME TypeOK, HandlerInv, ReportInv, SeriesInv, [Next]_vars
    PROVE  ReportInv' /\ SeriesInv'
<1>1. CASE Scraped \/ UNCHANGED vars
  <2>1. UNCHANGED <<phase, winner, ret, committed, report, series>>
    BY <1>1 DEF Scraped, Scrape, vars, handler, wire, metrics
  <2>2. ReportInv'
    BY <2>1 DEF ReportInv, ReportOf, Owes, report
  <2> QED
    BY <2>1, <2>2 DEF SeriesInv
<1>2. ASSUME NEW r \in Requests, Find(r) PROVE SeriesInv'
  <2>1. todo[r] \in Seq(Labels) /\ todo[r] # <<>> /\ LocateOrInsert(Head(todo[r]))
    BY <1>2, TypeFacts DEF Find
  <2>2. Head(todo[r]) \in Labels
    BY <2>1, HeadTailProperties
  <2> QED
    BY <2>1, <2>2, FindSeries
<1>3. ASSUME NEW r \in Requests,
             \/ Refuse(r) \/ Count(r) \/ NoFlusher(r) \/ Commit(r) \/ Relay(r)
             \/ Return(r) \/ AddOne(r) \/ Conclude(r)
             \/ AnswerError(r) \/ AnswerStream(r) \/ AnswerJSON(r)
      PROVE  SeriesInv'
  <2>1. series' = series
    BY <1>3 DEF Refuse, Count, NoFlusher, Commit, Committed, Relay, Relayed,
                Return, Returned, AddOne, Conclude,
         AnswerError, AnswerStream, AnswerJSON, metrics
  <2> QED
    BY <2>1 DEF SeriesInv
<1> QED
  BY <1>1, <1>2, <1>3, ReportStepOutside, ReportStepReturn, ReportStepInside
     DEF Next, Terminated

-----------------------------------------------------------------------------
(* The counters.                                                           *)

Begun == {r \in Requests : phase[r] # "new"}
Asked == {r \in Requests : phase[r] # "new" /\ kind[r] # "refused"}
With(label) == {r \in Requests : label \in added[r]}
Observed == {r \in Requests : lat[r] # 0}
Judged(v) == {r \in Requests : /\ phase[r] \in {"answering", "done"} /\ ret[r] # "none"
                               /\ Verdict(r) = v}
Won(S) == {r \in Requests : \E b \in S : WinOf(b) \in added[r]}
Losers(b) == {r \in Requests : \E x \in Reasons : LossOf(b, x) \in added[r]}

\* Every counter is the number of requests it is about.
CountInv ==
    /\ IsFiniteSet(Begun)
    /\ \A label \in Labels : Read(label) = Cardinality(With(label))
    /\ totals.requests = Cardinality(Asked)
    /\ hist.count = Cardinality(Observed)
    /\ \A v \in {"canceled", "failed"} : totals[v] = Cardinality(Judged(v))

\* The wins a scrape adds up, of some or of all backends, are the requests that
\* these won; a backend's losses are not fewer than the requests it lost.
SumInv ==
    /\ \A S \in SUBSET Backends : SumOf(WinCount, S) = Cardinality(Won(S))
    /\ \A b \in Backends : LossSum(b) >= Cardinality(Losers(b))

\* All these requests have begun, so they are finitely many.
LEMMA CountedAreFinite ==
    ASSUME TypeOK, HandlerInv, ReportInv, CountInv
    PROVE  /\ IsFiniteSet(Asked) /\ IsFiniteSet(Observed)
           /\ \A v : IsFiniteSet(Judged(v))
           /\ \A label : IsFiniteSet(With(label))
           /\ \A S : IsFiniteSet(Won(S))
           /\ \A b : IsFiniteSet(Losers(b)) /\ IsFiniteSet(Without(b))
<1>1. \A r \in Requests :
        phase[r] = "new" => added[r] = {} /\ lat[r] = 0 /\ ret[r] = "none"
  BY DEF ReportInv, ReportOf, HandlerInv
<1>2. /\ Asked \subseteq Begun /\ Observed \subseteq Begun
      /\ \A v : Judged(v) \subseteq Begun
      /\ \A label : With(label) \subseteq Begun
      /\ \A S : Won(S) \subseteq Begun
      /\ \A b : Losers(b) \subseteq Begun /\ Without(b) \subseteq Begun
  BY <1>1 DEF Begun, Asked, Observed, Judged, With, Won, Losers, Without
<1> QED
  BY <1>2, FS_Subset DEF CountInv

\* The step from owed to added counts one more of a label.
LEMMA AddOneReads ==
    ASSUME TypeOK, ReportInv, SeriesInv, NEW r \in Requests, AddOne(r)
    PROVE  /\ todo[r] # <<>> /\ todo[r][1] \in Labels /\ todo[r][1] \notin added[r]
           /\ added' = [added EXCEPT ![r] = @ \cup {todo[r][1]}]
           /\ \A l \in Labels :
                Read(l)' = IF l = todo[r][1] THEN Read(l) + 1 ELSE Read(l)
<1>t. /\ todo \in [Requests -> Seq(Labels)] /\ held \in [Requests -> 0 .. Len(value)]
      /\ series \in [Labels -> 0 .. Len(value)] /\ value \in Seq(Nat)
  BY TypeFacts
<1>1. /\ held[r] # 0 /\ value' = [value EXCEPT ![held[r]] = value[held[r]] + 1]
      /\ added' = [added EXCEPT ![r] = @ \cup {Head(todo[r])}] /\ series' = series
  BY DEF AddOne, Increment
<1>2. todo[r] # <<>> /\ held[r] = series[Head(todo[r])] /\ todo[r] \in Seq(Labels)
  BY <1>t, <1>1 DEF ReportInv, ReportOf
<1>3. Head(todo[r]) = todo[r][1] /\ 1 \in 1 .. Len(todo[r]) /\ Head(todo[r]) \in Labels
  BY <1>2, EmptySeq, HeadTailProperties
<1>4. todo[r][1] \notin added[r]
  BY <1>3 DEF ReportInv, ReportOf
<1>5. Len(value) \in Nat /\ held[r] \in 1 .. Len(value)
  BY <1>t, <1>1, LenProperties
<1>6. ASSUME NEW l \in Labels
      PROVE  Read(l)' = IF l = todo[r][1] THEN Read(l) + 1 ELSE Read(l)
  <2>1. CASE l = todo[r][1]
    <3>1. series[l] = held[r] /\ series[l] # 0
      BY <1>1, <1>2, <1>3, <2>1
    <3>2. value'[held[r]] = value[held[r]] + 1
      BY <1>t, <1>1, <1>5
    <3> QED
      BY <1>1, <2>1, <3>1, <3>2 DEF Read
  <2>2. CASE l # todo[r][1] /\ series[l] # 0
    <3>1. series[l] # held[r]
      BY <1>1, <1>2, <1>3, <2>2 DEF SeriesInv
    <3>2. series[l] \in 1 .. Len(value)
      BY <1>t, <1>5, <2>2
    <3>3. value'[series[l]] = value[series[l]]
      BY <1>t, <1>1, <3>1, <3>2
    <3> QED
      BY <1>1, <2>2, <3>3 DEF Read
  <2>3. CASE l # todo[r][1] /\ series[l] = 0
    BY <1>1, <2>3 DEF Read
  <2> QED
    BY <2>1, <2>2, <2>3
<1> QED
  BY <1>1, <1>2, <1>3, <1>4, <1>6

\* Each counter moves with the requests it counts.
LEMMA CountStep ==
    ASSUME TypeOK, HandlerInv, ReportInv, SeriesInv, CountInv, [Next]_vars
    PROVE  CountInv'
<1>t. /\ phase \in [Requests -> Phases] /\ winner \in [Requests -> 0 .. NB]
      /\ added \in [Requests -> SUBSET Labels] /\ lat \in [Requests -> Latencies \cup {0}]
      /\ totals \in [{"requests", "failed", "canceled", "redundant"} -> Nat]
  BY TypeFacts, ZenonT(30) DEF TypeOK, MetricsTypeOK
<1>f. /\ IsFiniteSet(Asked) /\ IsFiniteSet(Observed)
      /\ \A v : IsFiniteSet(Judged(v)) /\ \A label : IsFiniteSet(With(label))
  BY CountedAreFinite
<1>1. ASSUME NEW r \in Requests, Refuse(r) PROVE CountInv'
  <2>1. /\ kind[r] = "refused" /\ ret[r] = "none" /\ phase[r] = "new"
        /\ UNCHANGED <<kind, winner, ret, added, lat, series, value, totals, hist>>
        /\ phase' = [phase EXCEPT ![r] = "done"]
    BY <1>1 DEF Refuse, HandlerInv, report, metrics
  <2>2. /\ Begun' = Begun \cup {r} /\ Asked' = Asked /\ Observed' = Observed
        /\ \A v : Judged(v)' = Judged(v)
        /\ \A l : With(l)' = With(l)
    BY <1>t, <2>1 DEF Begun, Asked, Observed, Judged, With, Verdict, ContextCanceled
  <2>3. IsFiniteSet(Begun')
    BY <2>2, FS_AddElement DEF CountInv
  <2>4. \A l \in Labels : Read(l)' = Read(l)
    BY <2>1 DEF Read
  <2> QED
    BY <2>1, <2>2, <2>3, <2>4 DEF CountInv
<1>2. ASSUME NEW r \in Requests, Count(r) PROVE CountInv'
  <2>1. /\ kind[r] # "refused" /\ phase[r] = "new"
        /\ UNCHANGED <<kind, winner, ret, added, lat, series, value, hist>>
        /\ phase' = [phase EXCEPT ![r] = "serving"]
        /\ totals' = [totals EXCEPT !.requests = @ + 1]
    BY <1>2 DEF Count, report
  <2>2. /\ Begun' = Begun \cup {r} /\ Asked' = Asked \cup {r} /\ r \notin Asked
        /\ Observed' = Observed /\ \A v : Judged(v)' = Judged(v)
        /\ \A l : With(l)' = With(l)
    BY <1>t, <2>1 DEF Begun, Asked, Observed, Judged, With, Verdict, ContextCanceled
  <2>3. IsFiniteSet(Begun') /\ Cardinality(Asked') = Cardinality(Asked) + 1
    BY <1>f, <2>2, FS_AddElement DEF CountInv
  <2>4. \A l \in Labels : Read(l)' = Read(l)
    BY <2>1 DEF Read
  <2>5. /\ totals'.requests = totals.requests + 1 /\ totals'["canceled"] = totals["canceled"]
        /\ totals'["failed"] = totals["failed"]
    BY <1>t, <2>1
  <2> QED
    BY <2>1, <2>2, <2>3, <2>4, <2>5 DEF CountInv
<1>3. ASSUME NEW r \in Requests,
             \/ NoFlusher(r) \/ Commit(r) \/ Relay(r) \/ Return(r)
             \/ AnswerError(r) \/ AnswerStream(r) \/ AnswerJSON(r)
      PROVE  CountInv'
  <2>1. /\ UNCHANGED <<kind, added, lat, series, value, hist>>
        /\ phase[r] # "new" /\ phase'[r] # "new"
        /\ \A q \in Requests : q # r => phase'[q] = phase[q]
    <3>1. CASE Return(r)
      BY <1>t, <3>1, ReturnFacts DEF Serving
    <3>2. CASE ~Return(r)
      BY <1>3, <1>t, <3>2 DEF NoFlusher, Commit, Committed, Relay, Relayed, AnswerError,
         AnswerStream, AnswerJSON, Serving, handler, report, metrics
    <3> QED
      BY <3>1, <3>2
  <2>2. \A k \in {"requests", "canceled", "failed"} : totals'[k] = totals[k]
    BY <1>3, <1>t DEF NoFlusher, Commit, Committed, Relay, Relayed, Return,
                      Reported, AnswerError, AnswerStream,
         AnswerJSON, metrics
  <2>3. /\ \A q \in Requests : q # r => winner'[q] = winner[q] /\ ret'[q] = ret[q]
        /\ \/ UNCHANGED <<winner, ret>> /\ phase[r] = "answering" /\ phase'[r] = "done"
           \/ /\ phase[r] \notin {"answering", "done"}
              /\ phase'[r] \notin {"answering", "done"} \/ ret'[r] = "none"
    <3>t. ret \in [Requests -> {"none", "ok", "allFailed", "noBackends", "ctx", "sink"}]
      BY ZenonT(30) DEF TypeOK
    <3>1. CASE NoFlusher(r)
      BY <1>t, <3>1 DEF NoFlusher, HandlerInv
    <3>2. CASE Commit(r) \/ Relay(r)
      BY <1>t, <3>2 DEF Commit, Committed, Relay, Relayed, Serving, handler
    <3>3. CASE Return(r)
      BY <1>t, <3>t, <3>3, ReturnFacts DEF Serving
    <3>4. CASE AnswerError(r) \/ AnswerStream(r) \/ AnswerJSON(r)
      BY <1>t, <3>4 DEF AnswerError, AnswerStream, AnswerJSON
    <3> QED
      BY <1>3, <3>1, <3>2, <3>3, <3>4
  <2>4. /\ Begun' = Begun /\ Asked' = Asked /\ Observed' = Observed
        /\ \A l : With(l)' = With(l)
    BY <2>1 DEF Begun, Asked, Observed, With
  <2>5. ASSUME NEW v PROVE Judged(v)' = Judged(v)
    <3>1. ASSUME NEW q \in Requests PROVE q \in Judged(v)' <=> q \in Judged(v)
      <4>1. CASE q # r
        BY <2>1, <2>3, <4>1 DEF Judged, Verdict, ContextCanceled
      <4>2. CASE q = r
        BY <2>1, <2>3, <4>2 DEF Judged, Verdict, ContextCanceled
      <4> QED
        BY <4>1, <4>2
    <3> QED
      BY <3>1 DEF Judged
  <2>6. \A l \in Labels : Read(l)' = Read(l)
    BY <2>1 DEF Read
  <2> QED
    BY <2>1, <2>2, <2>4, <2>5, <2>6 DEF CountInv
<1>4. ASSUME NEW r \in Requests, Find(r) PROVE CountInv'
  <2>1. /\ UNCHANGED <<kind, phase, winner, ret, added, lat, totals, hist>>
        /\ todo[r] # <<>> /\ LocateOrInsert(Head(todo[r])) /\ todo[r] \in Seq(Labels)
    BY <1>4, TypeFacts DEF Find, handler
  <2>2. Head(todo[r]) \in Labels
    BY <2>1, HeadTailProperties
  <2>3. \A l \in Labels : Read(l)' = Read(l)
    BY <2>1, <2>2, FindSeries
  <2> QED
    BY <2>1, <2>3
       DEF CountInv, Begun, Asked, Observed, Judged, With, Verdict, ContextCanceled
<1>5. ASSUME NEW r \in Requests, AddOne(r) PROVE CountInv'
  <2>1. UNCHANGED <<kind, phase, winner, ret, lat, totals, hist>>
    BY <1>5 DEF AddOne, handler
  <2>0. PICK label \in Labels : label = todo[r][1]
    BY <1>5, AddOneReads
  <2>2. /\ label \in Labels /\ label \notin added[r]
        /\ added' = [added EXCEPT ![r] = @ \cup {label}]
        /\ \A l \in Labels : Read(l)' = IF l = label THEN Read(l) + 1 ELSE Read(l)
    BY <1>5, <2>0, AddOneReads
  <2>3. /\ With(label)' = With(label) \cup {r} /\ r \notin With(label)
        /\ \A l : l # label => With(l)' = With(l)
    BY <1>t, <2>2 DEF With
  <2>4. Cardinality(With(label)') = Cardinality(With(label)) + 1
    BY <1>f, <2>3, FS_AddElement
  <2>5. \A l \in Labels : Read(l)' = Cardinality(With(l)')
    BY <2>2, <2>3, <2>4 DEF CountInv
  <2> QED
    BY <2>1, <2>5 DEF CountInv, Begun, Asked, Observed, Judged, Verdict, ContextCanceled
<1>6. ASSUME NEW r \in Requests, Conclude(r) PROVE CountInv'
  <2>1. /\ phase[r] = "reporting" /\ phase' = [phase EXCEPT ![r] = "answering"]
        /\ UNCHANGED <<kind, winner, ret, added, series, value>>
    BY <1>6 DEF Conclude
  <2>2. ret[r] # "none" /\ lat[r] = 0
    BY <2>1 DEF HandlerInv, ReportInv, ReportOf
  <2>3. /\ Begun' = Begun /\ Asked' = Asked /\ \A l : With(l)' = With(l)
    BY <1>t, <2>1 DEF Begun, Asked, With
  <2>4. \A q \in Requests : Verdict(q)' = Verdict(q)
    BY <2>1 DEF Verdict, ContextCanceled
  <2>5. \A v : v # Verdict(r) => Judged(v)' = Judged(v)
    <3> HIDE DEF Verdict
    <3> QED
      BY <1>t, <2>1, <2>2, <2>4 DEF Judged
  <2>6. \A l \in Labels : Read(l)' = Read(l)
    BY <2>1 DEF Read
  <2>7. CASE Verdict(r) = "firstTokens"
    <3>1. PICK v \in Latencies : ObserveFirstToken(v) /\ lat' = [lat EXCEPT ![r] = v]
      BY <1>6, <2>7 DEF Conclude
    <3>2. v \in Nat /\ v # 0
      BY ProxyAssumption
    <3>3. Observed' = Observed \cup {r} /\ r \notin Observed
      BY <1>t, <2>2, <3>1, <3>2 DEF Observed
    <3>4. Cardinality(Observed') = Cardinality(Observed) + 1
      BY <1>f, <3>3, FS_AddElement
    <3>5. hist'.count = hist.count + 1
      BY <3>1, <3>2, HistType
    <3>6. totals' = totals
      BY <1>6, <2>7 DEF Conclude
    <3>7. \A v2 \in {"canceled", "failed"} : Judged(v2)' = Judged(v2)
      BY <2>5, <2>7
    <3> QED
      BY <2>3, <2>6, <3>4, <3>5, <3>6, <3>7 DEF CountInv
  <2>8. CASE Verdict(r) # "firstTokens"
    <3>1. Verdict(r) \in {"canceled", "failed"}
      BY <2>8 DEF Verdict
    <3>2. totals' = [totals EXCEPT ![Verdict(r)] = @ + 1] /\ UNCHANGED <<hist, lat>>
      BY <1>6, <2>8 DEF Conclude
    <3>w. PICK w \in {"canceled", "failed"} : w = Verdict(r)
      BY <3>1
    <3>3. Cardinality(Judged(w)') = Cardinality(Judged(w)) + 1
      <4>1. Judged(w)' = Judged(w) \cup {r} /\ r \notin Judged(w)
        <5> HIDE DEF Verdict
        <5> QED
          BY <1>t, <2>1, <2>2, <2>4, <3>w DEF Judged
      <4>2. IsFiniteSet(Judged(w))
        BY <1>f
      <4> QED
        BY <4>1, <4>2, FS_AddElement
    <3>4. /\ totals'[w] = totals[w] + 1 /\ totals'["requests"] = totals["requests"]
          /\ \A v \in {"canceled", "failed"} : v # w => totals'[v] = totals[v]
      BY <1>t, <3>w, <3>2
    <3>5. \A v \in {"canceled", "failed"} : totals'[v] = Cardinality(Judged(v)')
      <4>1. \A v : v # w => Judged(v)' = Judged(v)
        BY <2>5, <3>w
      <4> QED
        BY <3>3, <3>4, <4>1 DEF CountInv
    <3>6. Observed' = Observed
      BY <3>2 DEF Observed
    <3> QED
      BY <2>3, <2>6, <3>2, <3>4, <3>5, <3>6 DEF CountInv
  <2> QED
    BY <2>7, <2>8
<1>7. CASE Scraped \/ UNCHANGED vars
  <2>1. UNCHANGED <<kind, phase, winner, ret, added, lat, series, value, totals, hist>>
    BY <1>7 DEF Scraped, Scrape, vars, handler, report, metrics
  <2> QED
    BY <2>1
       DEF CountInv, Begun, Asked, Observed, Judged, With, Verdict, ContextCanceled, Read
<1> QED
  BY <1>1, <1>2, <1>3, <1>4, <1>5, <1>6, <1>7 DEF Next, Terminated

\* Nothing is read anew where no counter and no report moves.
LEMMA SumFrame ==
    ASSUME SumInv, UNCHANGED added, \A l \in Labels : Read(l)' = Read(l)
    PROVE  SumInv' /\ \A b \in Backends : LossSum(b)' = LossSum(b)
<1>1. \A b \in Backends :
        WinOf(b) \in Labels /\ \A x \in Reasons : LossOf(b, x) \in Labels
  BY DEF WinOf, LossOf, Labels
<1>2. WinCount' = WinCount
  BY <1>1 DEF WinCount
<1>3. \A b \in Backends : LossCount(b)' = LossCount(b)
  BY <1>1 DEF LossCount
<1>4. \A b \in Backends : LossSum(b)' = LossSum(b)
  BY <1>3 DEF LossSum
<1>5. /\ \A b \in Backends : Losers(b)' = Losers(b)
      /\ \A S : Won(S)' = Won(S)
  BY DEF Losers, Won
<1> QED
  BY <1>2, <1>4, <1>5 DEF SumInv

\* One more of a label is one more in the sums it is part of.
LEMMA SumAddOne ==
    ASSUME TypeOK, HandlerInv, ReportInv, SeriesInv, CountInv, SumInv,
           NEW r \in Requests, AddOne(r)
    PROVE  SumInv' /\ \A b \in Backends : LossSum(b)' >= LossSum(b)
<1>1. PICK label \in Labels : label = todo[r][1]
  BY AddOneReads
<1>2. /\ label \notin added[r] /\ added' = [added EXCEPT ![r] = @ \cup {label}]
      /\ \A l \in Labels : Read(l)' = IF l = label THEN Read(l) + 1 ELSE Read(l)
      /\ todo[r] # <<>> /\ todo[r] \in Seq(Labels)
  BY <1>1, AddOneReads, TypeFacts
<1>3. /\ \A b \in Backends : WinOf(b) \in Labels /\ WinOf(b).backend = b
                           /\ WinOf(b).reason = "win"
      /\ \A b \in Backends, x \in Reasons :
           LossOf(b, x) \in Labels /\ LossOf(b, x).reason = x
  BY DEF WinOf, LossOf, Labels, Backends
<1>4. /\ \A l \in Labels : Read(l) \in Nat
      /\ added \in [Requests -> SUBSET Labels]
  BY OwedIsNat, TypeFacts
<1>5. /\ \A q \in Requests : q # r => added'[q] = added[q]
      /\ added'[r] = added[r] \cup {label}
  BY <1>2, <1>4
<1>6. IsFiniteSet(Backends) /\ IsFiniteSet(Reasons)
  BY MetricsAssumption, FS_Interval DEF Backends
<1>7. 1 \in 1 .. Len(todo[r])
  BY <1>2, EmptySeq
<1>8. \A b \in Backends : WinOf(b) \in added[r] \/ label = WinOf(b) => b = winner[r]
  BY <1>1, <1>7 DEF ReportInv, ReportOf, Owes
<1>9. ASSUME NEW S \in SUBSET Backends, SumOf(WinCount, S) = Cardinality(Won(S))
      PROVE  SumOf(WinCount, S)' = Cardinality(Won(S))'
  <2>1. IsFiniteSet(S) /\ IsFiniteSet(Won(S))
    BY <1>6, FS_Subset, CountedAreFinite
  <2>2. CASE \E b \in S : label = WinOf(b)
    <3>1. PICK k \in S : label = WinOf(k)
      BY <2>2
    <3>2. /\ \A b \in S : WinCount[b] \in Nat
          /\ \A b \in S : WinCount'[b] = IF b = k THEN WinCount[b] + 1 ELSE WinCount[b]
      BY <1>2, <1>3, <1>4, <3>1 DEF WinCount
    <3>3. SumOf(WinCount', S) = SumOf(WinCount, S) + 1
      BY <2>1, <3>2, SumOneMore
    <3>4. Won(S)' = Won(S) \cup {r} /\ r \notin Won(S)
      <4>1. ASSUME NEW b \in S, WinOf(b) \in added[r] PROVE FALSE
        BY <1>2, <1>8, <3>1, <4>1
      <4> QED
        BY <1>5, <3>1, <4>1 DEF Won
    <3> QED
      BY <1>9, <2>1, <3>3, <3>4, FS_AddElement
  <2>3. CASE ~ \E b \in S : label = WinOf(b)
    <3>1. \A b \in S : WinCount[b] = WinCount'[b]
      BY <1>2, <1>3, <2>3 DEF WinCount
    <3>2. SumOf(WinCount', S) = SumOf(WinCount, S)
      BY <2>1, <3>1, SumSame
    <3>3. Won(S)' = Won(S)
      BY <1>5, <2>3 DEF Won
    <3> QED
      BY <1>9, <3>2, <3>3
  <2> QED
    BY <2>2, <2>3
<1>10. ASSUME NEW b \in Backends
       PROVE  LossSum(b)' >= LossSum(b) /\ LossSum(b)' >= Cardinality(Losers(b))'
  <2>1. IsFiniteSet(Losers(b)) /\ Cardinality(Losers(b)) \in Nat
    BY CountedAreFinite, FS_CardinalityType
  <2>2. CASE \E x \in Reasons : label = LossOf(b, x)
    <3>1. PICK k \in Reasons : label = LossOf(b, k)
      BY <2>2
    <3>2. /\ \A x \in Reasons : LossCount(b)[x] \in Nat
          /\ \A x \in Reasons : LossCount(b)'[x] =
               IF x = k THEN LossCount(b)[x] + 1 ELSE LossCount(b)[x]
      BY <1>2, <1>3, <1>4, <3>1 DEF LossCount
    <3>3. /\ LossSum(b) \in Nat
          /\ LossSum(b)' = LossSum(b) + 1
      BY <1>6, <3>2, SumOneMore DEF LossSum
    <3>4. Losers(b)' = Losers(b) \cup {r}
      BY <1>5, <3>1 DEF Losers
    <3>5. Cardinality(Losers(b)') <= Cardinality(Losers(b)) + 1
      <4>1. Cardinality(Losers(b) \cup {r}) =
              IF r \in Losers(b) THEN Cardinality(Losers(b))
              ELSE Cardinality(Losers(b)) + 1
        BY <2>1, FS_AddElement
      <4> QED
        BY <2>1, <3>4, <4>1
    <3>6. Cardinality(Losers(b)') \in Nat
      BY <2>1, <3>4, FS_AddElement, FS_CardinalityType
    <3> QED
      BY <2>1, <3>3, <3>5, <3>6 DEF SumInv
  <2>3. CASE ~ \E x \in Reasons : label = LossOf(b, x)
    <3>1. /\ \A x \in Reasons : LossCount(b)[x] \in Nat
          /\ \A x \in Reasons : LossCount(b)[x] = LossCount(b)'[x]
      BY <1>2, <1>3, <1>4, <2>3 DEF LossCount
    <3>2. /\ LossSum(b)' = LossSum(b)
          /\ LossSum(b) \in Nat
      BY <1>6, <3>1, SumSame, SumNat DEF LossSum
    <3>3. Losers(b)' = Losers(b)
      BY <1>5, <2>3 DEF Losers
    <3> QED
      BY <2>1, <3>2, <3>3 DEF SumInv
  <2> QED
    BY <2>2, <2>3
<1> QED
  BY <1>9, <1>10 DEF SumInv

\* The sums stay right, and what a backend lost never goes down.
LEMMA SumStep ==
    ASSUME TypeOK, HandlerInv, ReportInv, SeriesInv, CountInv, SumInv, [Next]_vars
    PROVE  SumInv' /\ \A b \in Backends : LossSum(b)' >= LossSum(b)
<1>1. \A b \in Backends : LossSum(b) \in Nat
  BY OwedIsNat
<1>2. ASSUME NEW r \in Requests, Find(r)
      PROVE  UNCHANGED added /\ \A l \in Labels : Read(l)' = Read(l)
  <2>1. todo[r] \in Seq(Labels) /\ todo[r] # <<>> /\ LocateOrInsert(Head(todo[r]))
    BY <1>2, TypeFacts DEF Find
  <2>2. Head(todo[r]) \in Labels
    BY <2>1, HeadTailProperties
  <2> QED
    BY <1>2, <2>1, <2>2, FindSeries DEF Find
<1>3. ASSUME \/ Scraped \/ UNCHANGED vars
             \/ \E r \in Requests :
                  \/ Refuse(r) \/ Count(r) \/ NoFlusher(r) \/ Commit(r) \/ Relay(r)
                  \/ Return(r) \/ Conclude(r)
                  \/ AnswerError(r) \/ AnswerStream(r) \/ AnswerJSON(r)
      PROVE  UNCHANGED added /\ \A l \in Labels : Read(l)' = Read(l)
  <2>1. UNCHANGED <<added, series, value>>
    BY <1>3 DEF Refuse, Count, NoFlusher, Commit, Committed, Relay, Relayed,
                Return, Returned, Conclude, AnswerError,
         AnswerStream, AnswerJSON, Scraped, Scrape, vars, report, metrics
  <2> QED
    BY <2>1 DEF Read
<1>4. ASSUME UNCHANGED added, \A l \in Labels : Read(l)' = Read(l)
      PROVE  SumInv' /\ \A b \in Backends : LossSum(b)' >= LossSum(b)
  BY <1>1, <1>4, SumFrame
<1> QED
  BY <1>2, <1>3, <1>4, SumAddOne DEF Next, Terminated

\* What report adds before what: no outcome without a loss of each other backend
\* the run attempted, so at no time more cancellations and wins of others than a
\* backend's losses and the runs that did without it.
LEMMA LossesCoverOutcomes ==
    ASSUME TypeOK, HandlerInv, ReportInv, CountInv, SumInv, NEW b \in Backends
    PROVE  /\ totals.canceled \in Nat
           /\ SumOf(WinCount, Backends \ {b}) \in Nat
           /\ LossSum(b) \in Nat /\ Cardinality(Without(b)) \in Nat
           /\ totals.canceled + SumOf(WinCount, Backends \ {b})
                <= LossSum(b) + Cardinality(Without(b))
<1> DEFINE C == Judged("canceled")
           W == Won(Backends \ {b})
           L == Losers(b)
           V == Without(b)
<1>1. IsFiniteSet(C) /\ IsFiniteSet(W) /\ IsFiniteSet(L) /\ IsFiniteSet(V)
  BY CountedAreFinite
<1>2. ASSUME NEW r \in Requests, todo[r] = <<>>, ret[r] # "none",
             Verdict(r) # "failed", winner[r] # b
      PROVE  r \in L \cup V
  <2>1. CASE b \notin Attempted(r)
    BY <1>2, <2>1 DEF Without
  <2>2. CASE b \in Attempted(r)
    <3>1. PICK label \in added[r] : label.backend = b
      BY <1>2, <2>2 DEF Attempted
    <3>2. label \in Labels
      BY TypeFacts
    <3>3. CASE label.reason = "win"
      <4>1. label = WinOf(b)
        BY <3>1, <3>2, <3>3 DEF Labels, WinOf
      <4> QED
        BY <1>2, <3>1, <4>1 DEF ReportInv, ReportOf
    <3>4. CASE label.reason \in Reasons
      <4>1. label = LossOf(b, label.reason)
        BY <3>1, <3>2 DEF Labels, LossOf
      <4> QED
        BY <3>1, <3>4, <4>1 DEF Losers
    <3> QED
      BY <3>2, <3>3, <3>4 DEF Labels
  <2> QED
    BY <2>1, <2>2
<1>3. ASSUME NEW r \in C PROVE r \in L \cup V /\ r \notin W
  <2>1. /\ r \in Requests /\ phase[r] \in {"answering", "done"} /\ ReportOf(r)
        /\ winner[r] = 0 /\ ret[r] # "none" /\ Verdict(r) = "canceled"
    BY DEF Judged, Verdict, ReportInv
  <2>2. todo[r] = <<>>
    BY <2>1 DEF ReportOf
  <2>3. \A c \in Backends : c # 0
    BY MetricsAssumption DEF Backends
  <2>4. r \in L \cup V
    <3> HIDE DEF L, V
    <3> QED
      BY <1>2, <2>1, <2>2, <2>3
  <2> QED
    BY <2>1, <2>3, <2>4 DEF Won, ReportOf
<1>4. ASSUME NEW r \in W PROVE r \in L \cup V
  <2>1. PICK c \in Backends \ {b} : WinOf(c) \in added[r]
    BY DEF Won
  <2>2. r \in Requests /\ c = winner[r] /\ c # 0 /\ ReportOf(r)
    BY <2>1, MetricsAssumption DEF Won, ReportInv, ReportOf, Backends
  <2>3. /\ phase[r] \notin {"new", "serving"} /\ committed[r] /\ todo[r] = <<>>
    BY <2>1, <2>2 DEF ReportOf, HandlerInv
  <2>4. ret[r] # "none" /\ Verdict(r) = "firstTokens"
    BY <2>2, <2>3 DEF HandlerInv, Verdict
  <2> HIDE DEF L, V
  <2> QED
    BY <1>2, <2>1, <2>2, <2>3, <2>4
<1>5. /\ totals.canceled = Cardinality(C)
      /\ SumOf(WinCount, Backends \ {b}) = Cardinality(W)
      /\ LossSum(b) >= Cardinality(L) /\ LossSum(b) \in Nat
  BY OwedIsNat DEF CountInv, SumInv
<1> HIDE DEF C, W, L, V
<1>6. /\ Cardinality(C) \in Nat /\ Cardinality(W) \in Nat
      /\ Cardinality(L) \in Nat /\ Cardinality(V) \in Nat
  BY <1>1, FS_CardinalityType
<1>7. Cardinality(C \cup W) = Cardinality(C) + Cardinality(W)
  <2>1. C \cap W = {} /\ Cardinality({}) = 0
    BY <1>3, FS_EmptySet
  <2>2. Cardinality(C \cup W) = Cardinality(C) + Cardinality(W) - Cardinality(C \cap W)
    BY <1>1, FS_Union
  <2>3. Cardinality(C \cap W) = 0
    BY <2>1
  <2> QED
    BY <1>6, <2>2, <2>3
<1>8. Cardinality(C \cup W) <= Cardinality(L) + Cardinality(V)
  <2>1. C \cup W \subseteq L \cup V
    BY <1>3, <1>4
  <2>2. /\ IsFiniteSet(L \cup V) /\ IsFiniteSet(L \cap V)
        /\ Cardinality(L \cup V) = Cardinality(L) + Cardinality(V) - Cardinality(L \cap V)
    BY <1>1, FS_Union, FS_Intersection
  <2>3. /\ Cardinality(C \cup W) <= Cardinality(L \cup V)
        /\ Cardinality(L \cap V) \in Nat /\ Cardinality(C \cup W) \in Nat
    BY <1>6, <1>7, <2>1, <2>2, FS_Subset, FS_CardinalityType
  <2> QED
    BY <1>6, <2>2, <2>3
<1> QED
  BY <1>5, <1>6, <1>7, <1>8 DEF V

\* What a scrape has read of outcomes, it will read of losses.
PageInv ==
    \A b \in Backends :
        /\ page.reads = "wins" => page.owed[b] <= totals.canceled
        /\ page.reads = "losses" =>
             page.owed[b] <= LossSum(b) + Cardinality(Without(b))

\* A run that did without a backend never attempts it later.
LEMMA WithoutStep ==
    ASSUME TypeOK, HandlerInv, ReportInv, [Next]_vars, NEW b \in Backends
    PROVE  Without(b) \subseteq Without(b)'
<1> SUFFICES ASSUME NEW q \in Requests, ret[q] # "none", Verdict(q) # "failed",
                    b \notin Attempted(q)
             PROVE  ret'[q] # "none" /\ Verdict(q)' # "failed" /\ b \notin Attempted(q)'
  BY DEF Without
<1>t. /\ todo \in [Requests -> Seq(Labels)] /\ added \in [Requests -> SUBSET Labels]
      /\ winner \in [Requests -> 0 .. NB]
      /\ ret \in [Requests -> {"none", "ok", "allFailed", "noBackends", "ctx", "sink"}]
  BY TypeFacts, ZenonT(30) DEF TypeOK
<1>1. ~Serving(q)
  BY DEF HandlerInv, Serving
<1>2. ASSUME winner'[q] = winner[q], ret'[q] = ret[q],
             Attempted(q)' \subseteq Attempted(q)
      PROVE  ret'[q] # "none" /\ Verdict(q)' # "failed" /\ b \notin Attempted(q)'
  BY <1>2 DEF Verdict, ContextCanceled
<1>3. ASSUME winner'[q] = winner[q], ret'[q] = ret[q], todo'[q] = todo[q],
             added'[q] = added[q]
      PROVE  Attempted(q)' \subseteq Attempted(q)
  BY <1>3 DEF Attempted
<1>4. ASSUME NEW r \in Requests, Commit(r) \/ Return(r)
      PROVE  /\ winner'[q] = winner[q] /\ ret'[q] = ret[q] /\ todo'[q] = todo[q]
             /\ added'[q] = added[q]
  <2>1. r # q
    BY <1>1, <1>4 DEF Commit, Return
  <2>2. CASE Commit(r)
    BY <1>t, <2>1, <2>2 DEF Commit, Committed, report
  <2>3. CASE Return(r)
    <3>1. PICK e, new : /\ ret' = [ret EXCEPT ![r] = e]
                        /\ todo' = [todo EXCEPT ![r] = new]
                        /\ UNCHANGED <<winner, added>>
      BY <2>3 DEF Return, Returned, Reported
    <3> QED
      BY <1>t, <2>1, <3>1
  <2> QED
    BY <1>4, <2>2, <2>3
<1>5. ASSUME NEW r \in Requests,
             \/ Refuse(r) \/ Count(r) \/ NoFlusher(r) \/ Relay(r) \/ Find(r)
             \/ Conclude(r) \/ AnswerError(r) \/ AnswerStream(r) \/ AnswerJSON(r)
      PROVE  /\ winner'[q] = winner[q] /\ ret'[q] = ret[q] /\ todo'[q] = todo[q]
             /\ added'[q] = added[q]
  BY <1>5 DEF Refuse, Count, NoFlusher, Relay, Relayed, Find, Conclude, AnswerError,
              AnswerStream, AnswerJSON, handler, report
<1>6. ASSUME NEW r \in Requests, AddOne(r)
      PROVE  /\ winner'[q] = winner[q] /\ ret'[q] = ret[q]
             /\ Attempted(q)' \subseteq Attempted(q)
  <2>1. /\ UNCHANGED <<winner, ret>> /\ held[r] # 0
        /\ added' = [added EXCEPT ![r] = @ \cup {Head(todo[r])}]
        /\ todo' = [todo EXCEPT ![r] = Tail(@)]
    BY <1>6 DEF AddOne, handler
  <2>2. CASE q # r
    BY <1>t, <1>3, <2>1, <2>2
  <2>3. CASE q = r
    <3> DEFINE s == todo[q]
    <3>1. s \in Seq(Labels) /\ s # <<>>
      BY <1>t, <2>1, <2>3 DEF ReportInv, ReportOf
    <3>2. /\ Head(s) = s[1] /\ Len(s) \in Nat /\ Len(s) # 0 /\ DOMAIN s = 1 .. Len(s)
          /\ Tail(s) \in Seq(Labels) /\ Len(Tail(s)) = Len(s) - 1
          /\ DOMAIN Tail(s) = 1 .. Len(s) - 1
          /\ \A i \in 1 .. Len(s) - 1 : Tail(s)[i] = s[i + 1]
      BY <3>1, EmptySeq, LenProperties, HeadTailProperties
    <3>3. /\ added'[q] = added[q] \cup {s[1]} /\ todo'[q] = Tail(s)
      BY <1>t, <2>1, <2>3, <3>2
    <3> HIDE DEF s
    <3>4. \A i \in 1 .. Len(s) - 1 : i + 1 \in DOMAIN s
      BY <3>2
    <3>5. 1 \in DOMAIN s
      BY <3>2
    <3>6. \A label \in added'[q] \cup {todo'[q][i] : i \in DOMAIN todo'[q]} :
            label \in added[q] \cup {s[i] : i \in DOMAIN s}
      BY <3>2, <3>3, <3>4, <3>5
    <3> QED
      BY <2>1, <3>6 DEF Attempted, s
  <2> QED
    BY <2>2, <2>3
<1>7. CASE Scraped \/ UNCHANGED vars
  BY <1>2, <1>3, <1>7 DEF Scraped, vars, handler, report
<1> QED
  BY <1>2, <1>3, <1>4, <1>5, <1>6, <1>7 DEF Next, Terminated

\* The sums and the sets of the next state are numbers and finite too.
LEMMA LaterCounts ==
    ASSUME TypeOK', HandlerInv', ReportInv', CountInv', NEW b \in Backends
    PROVE  /\ LossSum(b)' \in Nat /\ IsFiniteSet(Without(b)')
           /\ Cardinality(Without(b))' \in Nat
<1>1. LossSum(b)' \in Nat
  <2>1. series' \in [Labels -> 0 .. Len(value')] /\ value' \in Seq(Nat)
    BY ZenonT(30) DEF TypeOK, MetricsTypeOK
  <2>2. Len(value') \in Nat /\ \A i \in 1 .. Len(value') : value'[i] \in Nat
    BY <2>1
  <2>3. \A l \in Labels : Read(l)' \in Nat
    BY <2>1, <2>2 DEF Read
  <2>4. \A x \in Reasons : LossOf(b, x) \in Labels
    BY DEF LossOf, Labels
  <2>5. \A x \in Reasons : LossCount(b)'[x] \in Nat
    BY <2>3, <2>4 DEF LossCount
  <2> QED
    BY <2>5, SumNat, MetricsAssumption DEF LossSum
<1>2. IsFiniteSet(Without(b)')
  <2>1. \A r \in Requests : phase'[r] = "new" => ret'[r] = "none"
    BY DEF HandlerInv
  <2>2. Without(b)' \subseteq Begun'
    BY <2>1 DEF Without, Begun
  <2> QED
    BY <2>2, FS_Subset DEF CountInv
<1> QED
  BY <1>1, <1>2, FS_CardinalityType

\* Losses only grow while a page is read, and cover what it has read by then.
LEMMA PageStep ==
    ASSUME TypeOK, HandlerInv, ReportInv, SeriesInv, CountInv, SumInv, PageInv, TypeOK',
           HandlerInv', ReportInv', CountInv', SumInv', [Next]_vars
    PROVE  PageInv'
<1> DEFINE L(b) == LossSum(b) + Cardinality(Without(b))
           W(b) == SumOf(WinCount, Backends \ {b})
<1>1. \A b \in Backends : /\ totals.canceled \in Nat /\ W(b) \in Nat /\ L(b) \in Nat
                          /\ totals.canceled + W(b) <= L(b)
  <2>1. ASSUME NEW b \in Backends
        PROVE  /\ totals.canceled \in Nat /\ W(b) \in Nat /\ L(b) \in Nat
               /\ totals.canceled + W(b) <= L(b)
    BY LossesCoverOutcomes
  <2> QED
    BY <2>1
<1>2. ASSUME NEW b \in Backends PROVE L(b)' >= L(b) /\ L(b)' \in Nat
  <2>1. LossSum(b) \in Nat /\ Cardinality(Without(b)) \in Nat
    BY LossesCoverOutcomes
  <2>2. LossSum(b)' >= LossSum(b)
    BY SumStep
  <2>3. LossSum(b)' \in Nat /\ Cardinality(Without(b))' \in Nat
    BY LaterCounts
  <2>4. Cardinality(Without(b)) <= Cardinality(Without(b))'
    <3>1. Without(b) \subseteq Without(b)' /\ IsFiniteSet(Without(b)')
      BY WithoutStep, LaterCounts
    <3> QED
      BY <3>1, FS_Subset
  <2> QED
    BY <2>1, <2>2, <2>3, <2>4
<1>3. \A b \in Backends : page.owed[b] \in Nat
  <2>1. page \in [reads : {"canceled", "wins", "losses"}, owed : [Backends -> Nat]]
    BY ZenonT(30) DEF TypeOK, MetricsTypeOK
  <2> QED
    BY <2>1
<1>4. CASE Scraped
  <2>1. /\ \/ /\ page.reads = "canceled"
              /\ page' = [reads |-> "wins", owed |-> [b \in Backends |-> totals.canceled]]
           \/ /\ page.reads = "wins"
              /\ page' = [reads |-> "losses",
                          owed |-> [b \in Backends |-> page.owed[b] + W(b)]]
           \/ page' = [reads |-> "canceled", owed |-> [b \in Backends |-> 0]]
        /\ totals' = totals
    BY <1>4, ScrapeReads
  <2>2. ASSUME NEW b \in Backends
        PROVE  /\ page'.reads = "wins" => page'.owed[b] <= totals'.canceled
               /\ page'.reads = "losses" => page'.owed[b] <= L(b)'
    <3>1. page.reads = "wins" => page.owed[b] <= totals.canceled
      BY DEF PageInv
    <3>2. page.reads = "wins" => page.owed[b] + W(b) <= L(b)'
      <4>1. /\ totals.canceled \in Nat /\ W(b) \in Nat /\ L(b) \in Nat
            /\ totals.canceled + W(b) <= L(b)
        BY <1>1
      <4>2. L(b)' >= L(b) /\ L(b)' \in Nat /\ page.owed[b] \in Nat
        BY <1>2, <1>3
      <4> HIDE DEF L, W
      <4> QED
        BY <3>1, <4>1, <4>2
    <3>3. totals.canceled \in Nat
      BY <1>1
    <3> HIDE DEF L, W
    <3>4. CASE page' = [reads |-> "wins", owed |-> [c \in Backends |-> totals.canceled]]
      BY <2>1, <3>3, <3>4
    <3>5. CASE /\ page.reads = "wins"
               /\ page' = [reads |-> "losses",
                           owed |-> [c \in Backends |-> page.owed[c] + W(c)]]
      BY <3>2, <3>5
    <3>6. CASE page' = [reads |-> "canceled", owed |-> [c \in Backends |-> 0]]
      BY <3>6
    <3> QED
      BY <2>1, <3>4, <3>5, <3>6
  <2> QED
    BY <2>2 DEF PageInv
<1>5. CASE UNCHANGED page
  <2>1. totals'.canceled \in Nat /\ totals'.canceled >= totals.canceled
    <3>t. totals \in [{"requests", "failed", "canceled", "redundant"} -> Nat]
      BY ZenonT(30) DEF TypeOK, MetricsTypeOK
    <3>1. CASE \/ UNCHANGED totals
               \/ \E k \in {"requests", "failed", "canceled"} :
                    totals' = [totals EXCEPT ![k] = @ + 1]
               \/ \E n \in Nat : totals' = [totals EXCEPT !["redundant"] = @ + n]
      BY <3>t, <3>1
    <3>2. ASSUME NEW r \in Requests, Return(r)
          PROVE  totals'.canceled = totals.canceled
      BY <3>t, <3>2 DEF Return, Reported
    <3>3. ASSUME NEW r \in Requests, Conclude(r)
          PROVE  \/ UNCHANGED totals
                 \/ \E k \in {"failed", "canceled"} : totals' = [totals EXCEPT ![k] = @ + 1]
      <4>1. Verdict(r) # "firstTokens" => Verdict(r) \in {"failed", "canceled"}
        BY DEF Verdict
      <4> HIDE DEF Verdict
      <4> QED
        BY <3>3, <4>1 DEF Conclude
    <3>4. ASSUME NEW r \in Requests, Count(r)
          PROVE  totals' = [totals EXCEPT !["requests"] = @ + 1]
      BY <3>4 DEF Count
    <3>5. ASSUME NEW r \in Requests,
                 \/ Refuse(r) \/ NoFlusher(r) \/ Commit(r) \/ Relay(r) \/ Find(r)
                 \/ AddOne(r) \/ AnswerError(r) \/ AnswerStream(r) \/ AnswerJSON(r)
          PROVE  UNCHANGED totals
      BY <3>5 DEF Refuse, NoFlusher, Commit, Committed, Relay, Relayed, Find,
                  AddOne, AnswerError,
           AnswerStream, AnswerJSON, metrics
    <3>6. CASE Scraped \/ UNCHANGED vars
      BY <3>6, <3>t DEF Scraped, Scrape, vars, metrics
    <3> QED
      BY <3>t, <3>1, <3>2, <3>3, <3>4, <3>5, <3>6 DEF Next, Terminated
  <2>2. ASSUME NEW b \in Backends
        PROVE  /\ page.reads = "wins" => page.owed[b] <= totals'.canceled
               /\ page.reads = "losses" => page.owed[b] <= L(b)'
    <3>1. /\ page.reads = "wins" => page.owed[b] <= totals.canceled
          /\ page.reads = "losses" => page.owed[b] <= L(b)
      BY DEF PageInv
    <3>2. L(b)' >= L(b) /\ L(b)' \in Nat /\ L(b) \in Nat /\ page.owed[b] \in Nat
      BY <1>1, <1>2, <1>3
    <3>3. totals.canceled \in Nat
      BY <1>1
    <3> HIDE DEF L
    <3> QED
      BY <2>1, <3>1, <3>2, <3>3
  <2> QED
    BY <1>5, <2>2 DEF PageInv
<1>6. ASSUME NEW r \in Requests,
             \/ Refuse(r) \/ Count(r) \/ NoFlusher(r) \/ Commit(r) \/ Relay(r)
             \/ Return(r) \/ Find(r) \/ AddOne(r) \/ Conclude(r)
             \/ AnswerError(r) \/ AnswerStream(r) \/ AnswerJSON(r)
      PROVE  UNCHANGED page
  BY <1>6 DEF Refuse, Count, NoFlusher, Commit, Committed, Relay, Relayed, Return,
              Returned, Find, AddOne, Conclude,
       AnswerError, AnswerStream, AnswerJSON, metrics
<1>7. CASE UNCHANGED vars
  BY <1>5, <1>7 DEF vars, metrics
<1> QED
  BY <1>4, <1>5, <1>6, <1>7 DEF Next, Terminated

-----------------------------------------------------------------------------
(* The histogram.                                                          *)

Within(i) == {r \in Observed : lat[r] <= Bounds[i]}

\* The buckets up to a bound count the latencies within it, all the buckets
\* count all of them, and the sum is theirs.
HistInv ==
    /\ \A i \in 1 .. Len(Bounds) : SumOf(hist.counts, 1 .. i) = Cardinality(Within(i))
    /\ SumOf(hist.counts, 1 .. Len(Bounds) + 1) = Cardinality(Observed)
    /\ hist.sum = SumOf(lat, Observed)

\* A sample is counted once, in the first bucket that it fits.
LEMMA HistStep ==
    ASSUME TypeOK, HandlerInv, ReportInv, CountInv, HistInv, [Next]_vars
    PROVE  HistInv'
<1>t. lat \in [Requests -> Latencies \cup {0}] /\ Latencies \subseteq Nat \ {0}
  BY TypeFacts, ProxyAssumption
<1>1. CASE UNCHANGED <<lat, hist>>
  BY <1>1 DEF HistInv, Within, Observed
<1>2. ASSUME NEW r \in Requests, NEW v \in Latencies, ObserveFirstToken(v),
             lat' = [lat EXCEPT ![r] = v], lat[r] = 0
      PROVE  HistInv'
  <2>1. v \in Nat /\ v # 0
    BY <1>t
  <2>2. /\ hist'.counts = [hist.counts EXCEPT ![Bucket(v)] = @ + 1]
        /\ hist'.sum = hist.sum + v /\ hist.counts \in [BucketIndices -> Nat]
    BY <1>2, <2>1, HistType
  <2>3. /\ Bucket(v) \in BucketIndices
        /\ \A i \in 1 .. Len(Bounds) : Bucket(v) <= i <=> v <= Bounds[i]
    BY <2>1, BucketIsFirst
  <2>4. PICK k \in BucketIndices : k = Bucket(v)
    BY <2>3
  <2>5. \A i \in BucketIndices :
          SumOf(hist'.counts, 1 .. i) = SumOf(hist.counts, 1 .. i) + IF k <= i THEN 1 ELSE 0
    BY <2>2, <2>4, OneMoreSample
  <2>6. Observed' = Observed \cup {r} /\ r \notin Observed /\ IsFiniteSet(Observed)
    BY <1>t, <1>2, <2>1, CountedAreFinite DEF Observed
  <2>7. Cardinality(Observed') = Cardinality(Observed) + 1
    BY <2>6, FS_AddElement
  <2>l. Len(Bounds) \in Nat
    BY MetricsAssumption, LenProperties
  <2>8. ASSUME NEW i \in 1 .. Len(Bounds)
        PROVE  SumOf(hist'.counts, 1 .. i) = Cardinality(Within(i)')
    <3>1. Within(i)' = IF v <= Bounds[i] THEN Within(i) \cup {r} ELSE Within(i)
      BY <1>t, <1>2, <2>1, <2>6 DEF Within
    <3>2. r \notin Within(i) /\ IsFiniteSet(Within(i))
      BY <2>6, FS_Subset DEF Within
    <3>3. Cardinality(Within(i)') =
            IF v <= Bounds[i] THEN Cardinality(Within(i)) + 1 ELSE Cardinality(Within(i))
      BY <3>1, <3>2, FS_AddElement
    <3>4. Cardinality(Within(i)) \in Nat /\ SumOf(hist.counts, 1 .. i) = Cardinality(Within(i))
      BY <3>2, FS_CardinalityType DEF HistInv
    <3>5. i \in BucketIndices /\ (k <= i <=> v <= Bounds[i])
      BY <2>l, <2>3, <2>4 DEF BucketIndices
    <3>6. SumOf(hist'.counts, 1 .. i) = SumOf(hist.counts, 1 .. i) + IF k <= i THEN 1 ELSE 0
      BY <2>5, <3>5
    <3> QED
      BY <3>3, <3>4, <3>5, <3>6
  <2>9. SumOf(hist'.counts, 1 .. Len(Bounds) + 1) = Cardinality(Observed')
    <3>1. Len(Bounds) + 1 \in BucketIndices /\ k <= Len(Bounds) + 1
      BY <2>l DEF BucketIndices
    <3>2. SumOf(hist'.counts, 1 .. Len(Bounds) + 1) =
            SumOf(hist.counts, 1 .. Len(Bounds) + 1) + 1
      BY <2>5, <3>1
    <3> QED
      BY <2>7, <3>2 DEF HistInv
  <2>10. hist'.sum = SumOf(lat', Observed')
    <3>1. \A q \in Observed : lat[q] = lat'[q] /\ lat'[q] \in Nat
      BY <1>t, <1>2, <2>6 DEF Observed
    <3>2. SumOf(lat', Observed) = SumOf(lat, Observed)
      BY <2>6, <3>1, SumSame
    <3>3. lat'[r] = v
      BY <1>t, <1>2
    <3>4. \A q \in Observed \cup {r} : lat'[q] \in Int
      BY <2>1, <3>1, <3>3
    <3>5. SumOf(lat', Observed \cup {r}) = lat'[r] + SumOf(lat', Observed)
      BY <2>6, <3>4, SumAdd
    <3>6. hist.sum = SumOf(lat, Observed) /\ SumOf(lat, Observed) \in Nat
      <4>1. SumOf(lat', Observed) \in Nat
        BY <2>6, <3>1, SumNat
      <4> QED
        BY <3>2, <4>1 DEF HistInv
    <3> QED
      BY <2>1, <2>2, <2>6, <3>2, <3>3, <3>5, <3>6
  <2> QED
    BY <2>8, <2>9, <2>10 DEF HistInv
<1>3. ASSUME NEW r \in Requests, Conclude(r) PROVE HistInv'
  <2>1. phase[r] = "reporting"
    BY <1>3 DEF Conclude
  <2>2. lat[r] = 0
    BY <2>1 DEF ReportInv, ReportOf
  <2>3. \/ UNCHANGED <<hist, lat>>
        \/ \E v \in Latencies : ObserveFirstToken(v) /\ lat' = [lat EXCEPT ![r] = v]
    BY <1>3 DEF Conclude
  <2> QED
    BY <1>1, <1>2, <2>2, <2>3
<1>4. ASSUME NEW r \in Requests,
             \/ Refuse(r) \/ Count(r) \/ NoFlusher(r) \/ Commit(r) \/ Relay(r)
             \/ Return(r) \/ Find(r) \/ AddOne(r)
             \/ AnswerError(r) \/ AnswerStream(r) \/ AnswerJSON(r)
      PROVE  UNCHANGED <<lat, hist>>
  BY <1>4 DEF Refuse, Count, NoFlusher, Commit, Committed, Relay, Relayed, Return,
              Returned, Find, AddOne,
       AnswerError, AnswerStream, AnswerJSON, report, metrics
<1>5. CASE Scraped \/ UNCHANGED vars
  BY <1>1, <1>5 DEF Scraped, Scrape, vars, report, metrics
<1> QED
  BY <1>1, <1>3, <1>4, <1>5 DEF Next, Terminated

-----------------------------------------------------------------------------
(* The invariant.                                                          *)

ProxyInv ==
    /\ TypeOK /\ HandlerInv /\ StreamInv /\ AnswerInv /\ ReportInv /\ SeriesInv
    /\ CountInv /\ SumInv /\ PageInv /\ HistInv

\* Every count starts at nothing counted.
LEMMA ProxyInit == Init => ProxyInv
<1> SUFFICES ASSUME Init PROVE ProxyInv
  OBVIOUS
<1>1. /\ kind \in [Requests -> Kinds]
      /\ phase = [r \in Requests |-> "new"]
      /\ winner = [r \in Requests |-> 0] /\ ret = [r \in Requests |-> "none"]
      /\ committed = [r \in Requests |-> FALSE]
      /\ writeErr = [r \in Requests |-> FALSE]
      /\ status = [r \in Requests |-> <<>>] /\ body = [r \in Requests |-> <<>>]
      /\ chunks = [r \in Requests |-> 0]
      /\ todo = [r \in Requests |-> <<>>] /\ held = [r \in Requests |-> 0]
      /\ added = [r \in Requests |-> {}] /\ lat = [r \in Requests |-> 0]
  BY DEF Init
<1>2. /\ series = [label \in Labels |-> 0] /\ value = <<>>
      /\ totals = [requests |-> 0, failed |-> 0, canceled |-> 0, redundant |-> 0]
      /\ hist = [counts |-> [i \in 1 .. Len(Bounds) + 1 |-> 0], sum |-> 0, count |-> 0]
      /\ page = [reads |-> "canceled", owed |-> [b \in Backends |-> 0]]
  BY DEF Init, MetricsInit, NewPage
<1>3. MetricsTypeOK
  <2>1. series \in [Labels -> 0 .. Len(value)] /\ value \in Seq(Nat)
    BY <1>2
  <2>2. totals \in [{"requests", "failed", "canceled", "redundant"} -> Nat]
    BY <1>2
  <2>3. hist \in [counts : [1 .. Len(Bounds) + 1 -> Nat], sum : Nat, count : Nat]
    BY <1>2
  <2>4. page \in [reads : {"canceled", "wins", "losses"}, owed : [Backends -> Nat]]
    BY <1>2
  <2> QED
    BY <2>1, <2>2, <2>3, <2>4 DEF MetricsTypeOK
<1>4. TypeOK
  <2>1. NB \in Nat /\ MaxChunks \in Nat /\ Len(value) \in Nat
    BY <1>2, MetricsAssumption, ProxyAssumption
  <2>2. /\ <<>> \in Seq({200, 400, 401, 405, 499, 500, 502, 503})
        /\ <<>> \in Seq({"data: ", "payload", "end", "[DONE]", "error", "completion"})
        /\ <<>> \in Seq(Labels)
    OBVIOUS
  <2> QED
    BY <1>1, <1>3, <2>1, <2>2 DEF TypeOK
<1>5. HandlerInv /\ StreamInv /\ AnswerInv
  BY <1>1, ProxyAssumption DEF HandlerInv, StreamInv, AnswerInv, Kind
<1>6. ReportInv /\ SeriesInv
  BY <1>1, <1>2 DEF ReportInv, ReportOf, Owes, SeriesInv
<1>7. /\ Begun = {} /\ Asked = {} /\ Observed = {} /\ \A b : Losers(b) = {}
      /\ \A v : Judged(v) = {}
      /\ \A label : With(label) = {}
      /\ \A S : Won(S) = {}
      /\ \A i : Within(i) = {}
  BY <1>1 DEF Begun, Asked, Observed, Losers, Judged, With, Won, Within
<1>8. IsFiniteSet({}) /\ Cardinality({}) = 0
  BY FS_EmptySet
<1>9. \A label \in Labels : Read(label) = 0
  BY <1>2 DEF Read
<1>10. CountInv
  <2>1. /\ totals.requests = 0 /\ hist.count = 0
        /\ \A v \in {"canceled", "failed"} : totals[v] = 0
    BY <1>2
  <2>2. \A v : Cardinality(Judged(v)) = 0
    BY <1>7, <1>8
  <2>3. \A label : Cardinality(With(label)) = 0
    BY <1>7, <1>8
  <2>4. IsFiniteSet(Begun) /\ Cardinality(Asked) = 0 /\ Cardinality(Observed) = 0
    BY <1>7, <1>8
  <2> HIDE DEF Judged, With, Begun, Asked, Observed
  <2> QED
    BY <1>9, <2>1, <2>2, <2>3, <2>4 DEF CountInv
<1>11. SumInv
  <2>1. ASSUME NEW S \in SUBSET Backends PROVE SumOf(WinCount, S) = 0
    <3>1. IsFiniteSet(Backends)
      BY MetricsAssumption, FS_Interval DEF Backends
    <3>2. \A b \in Backends : WinOf(b) \in Labels
      BY DEF WinOf, Labels
    <3>3. IsFiniteSet(S) /\ \A b \in S : WinCount[b] = 0
      BY <1>9, <3>1, <3>2, FS_Subset DEF WinCount
    <3> QED
      BY <3>3, SumZero
  <2>2. ASSUME NEW b \in Backends PROVE LossSum(b) = 0
    <3>1. \A x \in Reasons : LossOf(b, x) \in Labels
      BY DEF LossOf, Labels
    <3>2. \A x \in Reasons : LossCount(b)[x] = 0
      BY <1>9, <3>1 DEF LossCount
    <3> QED
      BY <3>2, MetricsAssumption, SumZero DEF LossSum
  <2>3. \A S : Cardinality(Won(S)) = 0 /\ \A b : Cardinality(Losers(b)) = 0
    BY <1>7, <1>8
  <2>4. \A b \in Backends : LossSum(b) >= Cardinality(Losers(b))
    BY <2>2, <2>3
  <2> QED
    BY <2>1, <2>3, <2>4 DEF SumInv
<1>12. PageInv
  BY <1>2 DEF PageInv
<1>13. HistInv
  <2>1. Len(Bounds) \in Nat
    BY MetricsAssumption, LenProperties
  <2>2. hist.counts = [i \in 1 .. Len(Bounds) + 1 |-> 0] /\ hist.sum = 0
    BY <1>2
  <2>3. ASSUME NEW i \in 1 .. Len(Bounds) + 1 PROVE SumOf(hist.counts, 1 .. i) = 0
    <3>1. IsFiniteSet(1 .. i) /\ \A j \in 1 .. i : hist.counts[j] = 0
      BY <2>1, <2>2, FS_Interval
    <3> QED
      BY <3>1, SumZero
  <2>4. SumOf(lat, {}) = 0
    BY SumEmpty
  <2>5. /\ \A i \in 1 .. Len(Bounds) : i \in 1 .. Len(Bounds) + 1
        /\ Len(Bounds) + 1 \in 1 .. Len(Bounds) + 1
    BY <2>1
  <2> QED
    BY <1>7, <1>8, <2>2, <2>3, <2>4, <2>5 DEF HistInv
<1> QED
  BY <1>4, <1>5, <1>6, <1>10, <1>11, <1>12, <1>13 DEF ProxyInv

\* Each step keeps every part, the earlier parts first.
LEMMA ProxyStep == ProxyInv /\ [Next]_vars => ProxyInv'
<1> SUFFICES ASSUME ProxyInv, [Next]_vars PROVE ProxyInv'
  OBVIOUS
<1>i. /\ TypeOK /\ HandlerInv /\ StreamInv /\ AnswerInv /\ ReportInv /\ SeriesInv
      /\ CountInv /\ SumInv /\ PageInv /\ HistInv
  BY DEF ProxyInv
<1>1. TypeOK'
  BY <1>i, ReportMeansFound, TypeStep
<1>2. HandlerInv'
  BY <1>i, HandlerStep
<1>3. StreamInv' /\ AnswerInv'
  BY <1>i, StreamStep, AnswerStep
<1>4. ReportInv' /\ SeriesInv'
  BY <1>i, ReportStep
<1>5. CountInv' /\ SumInv'
  BY <1>i, CountStep, SumStep
<1>6. PageInv'
  BY <1>i, <1>1, <1>2, <1>4, <1>5, PageStep
<1>7. HistInv'
  BY <1>i, HistStep
<1> QED
  BY <1>1, <1>2, <1>3, <1>4, <1>5, <1>6, <1>7 DEF ProxyInv

\* In every reachable state each request is where its handler's course has it,
\* and every counter is the number of requests it is about.
THEOREM ProxyInvariance == Spec => []ProxyInv
BY ProxyInit, ProxyStep, PTL DEF Spec

\* Every variable of the handlers and of the registry keeps its type, and no
\* label points past the counters.
THEOREM ProxyTypeCorrect == Spec => []TypeOK
<1>1. ProxyInv => TypeOK
  BY DEF ProxyInv
<1> QED
  BY <1>1, ProxyInvariance, PTL

\* A client is sent one status line, before any of the body, and never an
\* error after a 200.
THEOREM ClientsGetOneAnswer == Spec => []OneAnswer
<1>1. ProxyInv => OneAnswer
  BY AnswersAreRight DEF ProxyInv
<1> QED
  BY <1>1, ProxyInvariance, PTL

\* A stream is whole events and then [DONE], unless a write failed, after which
\* nothing is written.
THEOREM StreamsAreWellFormed == Spec => []StreamIsWellFormed
<1>1. ProxyInv => StreamIsWellFormed
  BY AnswersAreRight DEF ProxyInv
<1> QED
  BY <1>1, ProxyInvariance, PTL

\* A labelled counter shows every observation made of it, though requests find
\* it under the mutex and add to it outside.
THEOREM CountersMissNothing == Spec => []NoObservationLost
<1>1. ProxyInv => NoObservationLost
  BY DEF ProxyInv, CountInv, With, NoObservationLost
<1> QED
  BY <1>1, ProxyInvariance, PTL

\* A page read while requests report shows no outcome without the losses that
\* go with it: for every backend, no more cancellations and wins of others than
\* losses of the backend and runs that did without it.
THEOREM PagesAreOrdered == Spec => []OutcomesComeWithLosses
<1>1. ASSUME ProxyInv PROVE OutcomesComeWithLosses
  <2>1. ASSUME NEW b \in Backends, page.reads = "losses"
        PROVE  page.owed[b] <= LossesOf(b) + Cardinality(Without(b))
    <3>1. page.owed[b] <= LossSum(b) + Cardinality(Without(b))
      BY <1>1, <2>1 DEF ProxyInv, PageInv
    <3>2. LossesOf(b) = LossSum(b)
      BY LossesAreSummed
    <3> QED
      BY <3>1, <3>2
  <2> QED
    BY <2>1 DEF OutcomesComeWithLosses
<1> QED
  BY <1>1, ProxyInvariance, PTL

-----------------------------------------------------------------------------
(* The histogram and the counters as they are shown.                       *)

\* Every bucket shows the latencies within its bound, the last, _count and _sum
\* all of them.
THEOREM HistogramsAreExact == Spec => []HistogramIsExact
<1>1. ASSUME ProxyInv PROVE HistogramIsExact
  <2>1. /\ Len(Bounds) \in Nat /\ DOMAIN Bounds = 1 .. Len(Bounds)
        /\ DOMAIN hist.counts = 1 .. Len(Bounds) + 1
    <3>1. hist.counts \in [1 .. Len(Bounds) + 1 -> Nat]
      BY <1>1, ZenonT(30) DEF ProxyInv, TypeOK, MetricsTypeOK
    <3> QED
      BY <3>1, MetricsAssumption, LenProperties
  <2>2. HistInv /\ hist.count = Cardinality(Observed)
    BY <1>1 DEF ProxyInv, CountInv
  <2>3. ASSUME NEW i \in 1 .. Len(Bounds) + 1
        PROVE  Cumulative[i] = SumOf(hist.counts, 1 .. i)
    BY <2>1 DEF Cumulative, SumOf, MapThenSumSet, MapThenFoldSet
  <2>4. hist.sum = MapThenSumSet(LAMBDA r : lat[r], Observed)
    <3>1. hist.sum = SumOf(lat, Observed)
      BY <2>2 DEF HistInv
    <3> QED
      BY <3>1 DEF SumOf, MapThenSumSet, MapThenFoldSet
  <2>5. \A i \in DOMAIN Bounds :
          Cumulative[i] = Cardinality({r \in Observed : lat[r] <= Bounds[i]})
    <3>1. \A i \in DOMAIN Bounds : i \in 1 .. Len(Bounds) + 1
      BY <2>1
    <3> QED
      BY <2>1, <2>2, <2>3, <3>1 DEF HistInv, Within
  <2>6. Cumulative[Len(Bounds) + 1] = hist.count
    <3>1. Len(Bounds) + 1 \in 1 .. Len(Bounds) + 1
      BY <2>1
    <3> QED
      BY <2>2, <2>3, <3>1 DEF HistInv
  <2> QED
    BY <2>2, <2>4, <2>5, <2>6 DEF HistogramIsExact, Observed
<1> QED
  BY <1>1, ProxyInvariance, PTL

\* What a request that is done was sent, by its kind and how its run ended.
LEMMA SentByKind ==
    ASSUME ProxyInv, \A r \in Requests : phase[r] = "done", NEW r \in Requests
    PROVE  \E code \in {200, 400, 401, 405, 499, 500, 502, 503} :
             /\ \A C : r \in Sent(C) <=> code \in C
             /\ code = 200 <=> committed[r]
             /\ code = 499 <=> ret[r] = "ctx" /\ ~committed[r]
             /\ code \in {502, 503} <=> ret[r] \notin {"none", "ctx"} /\ ~committed[r]
             /\ code \in {400, 401, 405} <=> kind[r] = "refused"
<1>1. PICK code \in Answered(r) : status[r] = <<code>>
  BY DEF ProxyInv, AnswerInv
<1>2. \A C : r \in Sent(C) <=> code \in C
  <2>1. DOMAIN <<code>> = {1} /\ <<code>>[1] = code
    OBVIOUS
  <2> QED
    BY <1>1, <2>1 DEF Sent
<1>3. /\ kind[r] \in Kind /\ Refusals \subseteq {400, 401, 405}
      /\ ret[r] \in {"none", "ok", "allFailed", "noBackends", "ctx", "sink"}
      /\ committed[r] \in BOOLEAN
  <2>1. /\ kind \in [Requests -> Kinds] /\ committed \in [Requests -> BOOLEAN]
        /\ ret \in [Requests -> {"none", "ok", "allFailed", "noBackends", "ctx", "sink"}]
    BY ZenonT(30) DEF ProxyInv, TypeOK
  <2> QED
    BY <2>1, ProxyAssumption
<1>4. /\ committed[r] => kind[r] \in {"sse", "json"}
      /\ ret[r] = "none" <=> kind[r] \in {"refused", "noFlusher"}
      /\ ret[r] \in {"ok", "sink"} => committed[r]
  BY DEF ProxyInv, HandlerInv
<1>5. CASE kind[r] = "refused"
  <2>1. code \in {400, 401, 405}
    BY <1>1, <1>3, <1>5 DEF Answered
  <2> QED
    BY <1>2, <1>3, <1>4, <1>5, <2>1
<1>6. CASE kind[r] = "noFlusher"
  <2>1. code = 500
    BY <1>1, <1>6 DEF Answered
  <2> QED
    BY <1>2, <1>3, <1>4, <1>6, <2>1
<1>7. CASE kind[r] \in {"sse", "json"} /\ committed[r]
  <2>1. code = 200
    BY <1>1, <1>7 DEF Answered
  <2> QED
    BY <1>2, <1>3, <1>4, <1>7, <2>1
<1>8. CASE kind[r] \in {"sse", "json"} /\ ~committed[r]
  <2>1. code = ErrorStatus(r)
    BY <1>1, <1>8 DEF Answered
  <2>2. /\ code \in {499, 502, 503}
        /\ code = 499 <=> ret[r] = "ctx"
    BY <1>3, <2>1 DEF ErrorStatus
  <2> QED
    BY <1>2, <1>3, <1>4, <1>8, <2>2
<1> QED
  BY <1>3, <1>5, <1>6, <1>7, <1>8 DEF Kind

\* Once nothing is in progress the counters say what the clients were sent.
THEOREM CountersMatchAnswers == Spec => []AnswersMatchCounters
<1>1. ASSUME ProxyInv, \A r \in Requests : phase[r] = "done"
      PROVE  /\ hist.count = Cardinality(Sent({200}))
             /\ MapThenSumSet(WinsOf, Backends) = hist.count
             /\ totals.canceled = Cardinality(Sent({499}))
             /\ totals.failed = Cardinality(Sent({502, 503}))
             /\ totals.requests = Cardinality(Sent({200, 499, 500, 502, 503}))
  <2>1. \A r \in Requests :
          /\ committed[r] <=> winner[r] # 0
          /\ committed[r] <=> lat[r] # 0
          /\ todo[r] = <<>>
          /\ winner[r] \in 0 .. NB
          /\ committed[r] => ret[r] # "none" /\ kind[r] # "refused"
    <3>1. TypeOK /\ HandlerInv /\ ReportInv
      BY <1>1 DEF ProxyInv
    <3>2. winner \in [Requests -> 0 .. NB]
      BY <3>1, ZenonT(30) DEF TypeOK
    <3>3. ASSUME NEW r \in Requests
          PROVE  /\ committed[r] <=> winner[r] # 0
                 /\ committed[r] => ret[r] # "none" /\ kind[r] # "refused"
      BY <1>1, <3>1 DEF HandlerInv
    <3>4. ASSUME NEW r \in Requests
          PROVE  (lat[r] # 0 <=> committed[r]) /\ todo[r] = <<>>
      BY <1>1, <3>1 DEF ReportInv, ReportOf
    <3> QED
      BY <3>2, <3>3, <3>4
  <2>2. ASSUME NEW r \in Requests
        PROVE  /\ r \in Sent({200}) <=> r \in Observed
               /\ r \in Sent({499}) <=> r \in Judged("canceled")
               /\ r \in Sent({502, 503}) <=> r \in Judged("failed")
               /\ r \in Sent({200, 499, 500, 502, 503}) <=> r \in Asked
    <3>1. PICK code \in {200, 400, 401, 405, 499, 500, 502, 503} :
            /\ \A C : r \in Sent(C) <=> code \in C
            /\ code = 200 <=> committed[r]
            /\ code = 499 <=> ret[r] = "ctx" /\ ~committed[r]
            /\ code \in {502, 503} <=> ret[r] \notin {"none", "ctx"} /\ ~committed[r]
            /\ code \in {400, 401, 405} <=> kind[r] = "refused"
      BY <1>1, SentByKind
    <3>2. r \in Sent({200}) <=> r \in Observed
      BY <2>1, <3>1 DEF Observed
    <3>3. r \in Sent({499}) <=> r \in Judged("canceled")
      BY <1>1, <2>1, <3>1 DEF Judged, Verdict, ContextCanceled
    <3>4. r \in Sent({502, 503}) <=> r \in Judged("failed")
      BY <1>1, <2>1, <3>1 DEF Judged, Verdict, ContextCanceled
    <3>5. r \in Sent({200, 499, 500, 502, 503}) <=> r \in Asked
      BY <1>1, <3>1 DEF Asked
    <3> QED
      BY <3>2, <3>3, <3>4, <3>5
  <2>3. /\ Sent({200}) = Observed /\ Sent({499}) = Judged("canceled")
        /\ Sent({502, 503}) = Judged("failed")
        /\ Sent({200, 499, 500, 502, 503}) = Asked
    BY <2>2 DEF Sent, Observed, Judged, Asked
  <2>4. Won(Backends) = Observed
    <3>1. ASSUME NEW r \in Requests PROVE r \in Won(Backends) <=> r \in Observed
      <4>1. /\ \A b \in Backends : WinOf(b) \in added[r] => b = winner[r]
            /\ committed[r] => WinOf(winner[r]) \in added[r] \/ Owes(r, WinOf(winner[r]))
        BY <1>1 DEF ProxyInv, ReportInv, ReportOf
      <4>2. ~Owes(r, WinOf(winner[r]))
        BY <2>1 DEF Owes
      <4>3. \A b \in Backends : b # 0
        BY MetricsAssumption DEF Backends
      <4>4. winner[r] # 0 => winner[r] \in Backends
        BY <2>1, MetricsAssumption DEF Backends
      <4> QED
        BY <2>1, <4>1, <4>2, <4>3, <4>4 DEF Won, Observed
    <3> QED
      BY <3>1 DEF Won, Observed
  <2>5. MapThenSumSet(WinsOf, Backends) = Cardinality(Observed)
    <3>1. MapThenSumSet(WinsOf, Backends) = SumOf(WinCount, Backends)
      BY WinsAreSummed
    <3>2. SumOf(WinCount, Backends) = Cardinality(Won(Backends))
      BY <1>1 DEF ProxyInv, SumInv
    <3> QED
      BY <2>4, <3>1, <3>2
  <2>6. /\ hist.count = Cardinality(Observed)
        /\ totals["canceled"] = Cardinality(Judged("canceled"))
        /\ totals["failed"] = Cardinality(Judged("failed"))
        /\ totals.requests = Cardinality(Asked)
    BY <1>1 DEF ProxyInv, CountInv
  <2> QED
    BY <2>3, <2>5, <2>6
<1>2. ProxyInv => AnswersMatchCounters
  BY <1>1 DEF AnswersMatchCounters
<1> QED
  BY <1>2, ProxyInvariance, PTL

=============================================================================
