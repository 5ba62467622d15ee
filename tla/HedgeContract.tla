---------------------------- MODULE HedgeContract ----------------------------
(***************************************************************************)
(* What Engine.Run promises its caller, with no word on how: a bounded     *)
(* number of upstream requests is open at once, at most one of them wins,  *)
(* the client is sent that one's chunks in order, nothing new is asked for *)
(* after that, and Run does not return while an upstream request is open.  *)
(***************************************************************************)
EXTENDS Integers, Sequences, FiniteSets

CONSTANTS NB, MaxChunks, Limits

VARIABLES
    limit,   \* the policy's bound on upstream requests open at once
    asked,   \* how many backends were asked, in order
    live,    \* those whose upstream request is open
    first,   \* the chunk that won, [idx, chunk]
    sent,    \* what the client was sent
    outcome  \* what Run returned

cvars == <<limit, asked, live, first, sent, outcome>>

Nobody == [idx |-> 0, chunk |-> 0]
Decided == first # Nobody

Init ==
    /\ limit \in Limits
    /\ asked = 0 /\ live = {}
    /\ first = Nobody /\ sent = <<>>
    /\ outcome = "pending"

\* Upstream requests are opened one after another, while nobody has won.
Ask ==
    /\ outcome = "pending" /\ ~Decided
    /\ asked < NB /\ Cardinality(live) < limit
    /\ asked' = asked + 1
    /\ live' = live \cup {asked + 1}
    /\ UNCHANGED <<limit, first, sent, outcome>>

\* An upstream request ends: refused, at its end, or cancelled.
Finish ==
    /\ \E i \in live : live' = live \ {i}
    /\ UNCHANGED <<limit, asked, first, sent, outcome>>

Win ==
    /\ outcome = "pending" /\ ~Decided
    /\ \E i \in 1 .. asked, k \in 1 .. MaxChunks :
         first' = [idx |-> i, chunk |-> k]
    /\ UNCHANGED <<limit, asked, live, sent, outcome>>

\* The winner's next chunk, whole and in order.
Send ==
    /\ outcome = "pending" /\ Decided
    /\ sent' = Append(sent, [first EXCEPT !.chunk = @ + Len(sent)])
    /\ UNCHANGED <<limit, asked, live, first, outcome>>

Return ==
    /\ outcome = "pending" /\ live = {}
    /\ \/ outcome' = "ok" /\ sent # <<>>
       \/ outcome' = "allFailed" /\ ~Decided
       \/ outcome' = "ctx"
       \/ outcome' = "sink" /\ Decided
    /\ UNCHANGED <<limit, asked, live, first, sent>>

Next == Ask \/ Finish \/ Win \/ Send \/ Return

Spec == Init /\ [][Next]_cvars
=============================================================================
