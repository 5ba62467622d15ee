----------------------------- MODULE HedgeMetrics -----------------------------
(***************************************************************************)
(* The registry of internal/metrics/metrics.go: counters the handlers add  *)
(* to, the first-token histogram, and the scrape that reads them while     *)
(* they change.                                                            *)
(*                                                                         *)
(* A labelled counter is found, or made, under a mutex and added to after  *)
(* it is unlocked: series maps labels to counters, value holds these.  The *)
(* histogram is changed and read under one lock.                           *)
(*                                                                         *)
(* A scrape reads family by family in the order of WriteTo.  Of its page   *)
(* only the families that bear on each other are kept.  A snapshot loads   *)
(* the counters of a family one by one; as they only grow, one read at its *)
(* end shows the most wins it can, one read at its start the fewest losses.*)
(***************************************************************************)
EXTENDS Integers, Sequences, FiniteSets, FiniteSetsExt

CONSTANTS
    NB,      \* configured backends
    Reasons, \* what a loss may be put down to
    Bounds   \* the histogram's upper bounds, without +Inf

Backends == 1 .. NB

ASSUME MetricsAssumption ==
    /\ NB \in Nat \ {0}
    /\ "error" \in Reasons /\ "win" \notin Reasons /\ IsFiniteSet(Reasons)
    /\ Bounds \in Seq(Nat)
    /\ \A i, j \in DOMAIN Bounds : i < j => Bounds[i] < Bounds[j]

VARIABLES
    series, \* Registry.wins and Registry.losses: labels to counters
    value,  \* the counters
    totals, \* the unlabelled counters
    hist,   \* Registry.firstTokenLatency: [counts, sum, count]
    page    \* a scrape under way: the family it reads next, and what it has read

metrics == <<series, value, totals, hist, page>>

-----------------------------------------------------------------------------
WinOf(b) == [backend |-> b, reason |-> "win"]
LossOf(b, reason) == [backend |-> b, reason |-> reason]
Labels == [backend : Backends, reason : Reasons \cup {"win"}]

Read(label) == IF series[label] = 0 THEN 0 ELSE value[series[label]]
WinsOf(b) == Read(WinOf(b))
LossesOf(b) == MapThenSumSet(LAMBDA reason : Read(LossOf(b, reason)), Reasons)

NewPage == [reads |-> "canceled", owed |-> [b \in Backends |-> 0]]

MetricsInit ==
    /\ series = [label \in Labels |-> 0] /\ value = <<>>
    /\ totals = [requests |-> 0, failed |-> 0, canceled |-> 0, redundant |-> 0]
    /\ hist = [counts |-> [i \in 1 .. Len(Bounds) + 1 |-> 0], sum |-> 0,
               count |-> 0]
    /\ page = NewPage

\* ObserveWin and ObserveLoss under their mutex: find the counter or make it.
MustInsert(label) == TRUE \* a slip: found by nobody, made by everybody
Missing(label) == series[label] = 0
LocateOrInsert(label) ==
    \/ /\ ~Missing(label)
       /\ UNCHANGED <<series, value>>
    \/ /\ Missing(label)
       /\ value' = Append(value, 0)
       /\ series' = [series EXCEPT ![label] = Len(value) + 1]

\* The Add after the unlock.
Increment(counter) == value' = [value EXCEPT ![counter] = @ + 1]

\* The bucket of a sample: SearchFloat64s, the first bound not below it.
StrictlyBelow(v) == \* a slip: a sample on a bound goes to the next bucket
    Min({i \in DOMAIN Bounds : v < Bounds[i]} \cup {Len(Bounds) + 1})
Bucket(v) == Min({i \in DOMAIN Bounds : v <= Bounds[i]} \cup {Len(Bounds) + 1})

ObserveFirstToken(v) ==
    hist' = [counts |-> [hist.counts EXCEPT ![Bucket(v)] = @ + 1],
             sum |-> hist.sum + v,
             count |-> hist.count + 1]

\* What a snapshot of the histogram shows for each bound, and last for +Inf.
Cumulative ==
    [i \in DOMAIN hist.counts |-> MapThenSumSet(LAMBDA j : hist.counts[j], 1 .. i)]

\* WriteTo: hedge_requests_canceled_total, then the wins, then the losses, which
\* end the page.
Scrape ==
    /\ page' = CASE page.reads = "canceled" ->
                      [reads |-> "wins",
                       owed |-> [b \in Backends |-> totals.canceled]]
                 [] page.reads = "wins" ->
                      [reads |-> "losses",
                       owed |-> [b \in Backends |->
                                   page.owed[b]
                                     + MapThenSumSet(WinsOf, Backends \ {b})]]
                 [] page.reads = "losses" -> NewPage
    /\ UNCHANGED <<series, value, totals, hist>>

-----------------------------------------------------------------------------
(* Properties.                                                             *)

MetricsTypeOK ==
    /\ series \in [Labels -> 0 .. Len(value)] /\ value \in Seq(Nat)
    /\ totals \in [{"requests", "failed", "canceled", "redundant"} -> Nat]
    /\ hist \in [counts : [1 .. Len(Bounds) + 1 -> Nat], sum : Nat, count : Nat]
    /\ page \in [reads : {"canceled", "wins", "losses"}, owed : [Backends -> Nat]]
=============================================================================
