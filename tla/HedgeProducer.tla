---------------------------- MODULE HedgeProducer ----------------------------
(***************************************************************************)
(* The send contract of internal/backend/backend.go, as Engine.Run sees a  *)
(* Backend.Stream: a refusal, or a channel of capacity one on which the    *)
(* backend sends what it has to say, in order and without omission, and    *)
(* which it closes at the end or when its context is cancelled.  Either    *)
(* way it holds no upstream connection any more.  HedgeRun's producers     *)
(* (Dial, Produce and ProducerEnd there) are what this contract allows.    *)
(***************************************************************************)
EXTENDS Naturals, Sequences

CONSTANT Producers

VARIABLES
    want,      \* what each backend's upstream has to say
    state,     \* of the stream: unasked, starting, refused, open or closed
    sent,      \* how much of want was sent
    queue,     \* what the channel holds
    connected, \* whether an upstream connection is held
    cancelled  \* whether its context is cancelled

vars == <<want, state, sent, queue, connected, cancelled>>

Init ==
    /\ want \in [Producers -> Seq(Nat)]
    /\ state = [p \in Producers |-> "unasked"]
    /\ sent = [p \in Producers |-> 0]
    /\ queue = [p \in Producers |-> <<>>]
    /\ connected = [p \in Producers |-> FALSE]
    /\ cancelled \in [Producers -> BOOLEAN]

Ask(p) ==
    /\ state[p] = "unasked"
    /\ state' = [state EXCEPT ![p] = "starting"]
    /\ UNCHANGED <<want, sent, queue, connected, cancelled>>

Connect(p) ==
    /\ state[p] = "starting"
    /\ connected' = [connected EXCEPT ![p] = TRUE]
    /\ UNCHANGED <<want, state, sent, queue, cancelled>>

Refuse(p) ==
    /\ state[p] \in {"unasked", "starting"}
    /\ state' = [state EXCEPT ![p] = "refused"]
    /\ connected' = [connected EXCEPT ![p] = FALSE]
    /\ UNCHANGED <<want, sent, queue, cancelled>>

Open(p) ==
    /\ state[p] \in {"unasked", "starting"}
    /\ state' = [state EXCEPT ![p] = "open"]
    /\ connected' \in {connected, [connected EXCEPT ![p] = TRUE]}
    /\ UNCHANGED <<want, sent, queue, cancelled>>

Release(p) ==
    /\ state[p] = "open"
    /\ connected' = [connected EXCEPT ![p] = FALSE]
    /\ UNCHANGED <<want, state, sent, queue, cancelled>>

Send(p) ==
    /\ state[p] = "open"
    /\ queue[p] = <<>> /\ sent[p] < Len(want[p])
    /\ queue' = [queue EXCEPT ![p] = <<want[p][sent[p] + 1]>>]
    /\ sent' = [sent EXCEPT ![p] = @ + 1]
    /\ UNCHANGED <<want, state, connected, cancelled>>

Take(p) ==
    /\ queue[p] # <<>>
    /\ queue' = [queue EXCEPT ![p] = <<>>]
    /\ UNCHANGED <<want, state, sent, connected, cancelled>>

Close(p) ==
    /\ state[p] = "open" /\ ~connected[p]
    /\ cancelled[p] \/ sent[p] = Len(want[p])
    /\ state' = [state EXCEPT ![p] = "closed"]
    /\ UNCHANGED <<want, sent, queue, connected, cancelled>>

Cancel(p) ==
    /\ cancelled' = [cancelled EXCEPT ![p] = TRUE]
    /\ UNCHANGED <<want, state, sent, queue, connected>>

Next ==
    \E p \in Producers :
        \/ Ask(p) \/ Connect(p) \/ Refuse(p) \/ Open(p)
        \/ Send(p) \/ Take(p) \/ Release(p) \/ Close(p) \/ Cancel(p)

Spec == Init /\ [][Next]_vars

\* A cancelled stream ends, whether or not anyone still reads from it.
Ends ==
    \A p \in Producers :
        cancelled[p] /\ state[p] \in {"starting", "open"}
            ~> state[p] \in {"refused", "closed"}
=============================================================================
