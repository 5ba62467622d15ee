--------------------------- MODULE MCHedgeBackend ---------------------------
(***************************************************************************)
(* Constants for model-checking HedgeBackend: one stream of either kind,   *)
(* and the engine's fire-after timer on the same clock.                    *)
(***************************************************************************)
EXTENDS HedgeBackend

CONSTANTS p1, fire

MCTimers == {p1, fire}
MCProducers == {p1}

MCHTTPScripts ==
    {<<>>, <<"done">>, <<"chunk", "chunk">>, <<"skip", "chunk", "done">>,
     <<"chunk", "malformed", "chunk", "done", "chunk">>}

\* One delay or both, a truncated stream or a whole one, with a finish or not.
MCFakeScripts ==
    {f \in [startErr : {FALSE}, first : {0, 2}, inter : 0 .. 1, tokens : {0, 2},
            failAfter : 0 .. 2, emitFinish : BOOLEAN] : f.failAfter <= f.tokens}
      \cup {[startErr |-> TRUE, first |-> 0, inter |-> 0, tokens |-> 1,
             failAfter |-> 0, emitFinish |-> TRUE]}
=============================================================================
