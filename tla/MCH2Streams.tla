----------------------------- MODULE MCH2Streams -----------------------------
(***************************************************************************)
(* The two halves of an HTTP/2 server connection that touch every frame;   *)
(* `part' says which of them moves: the sending half with its windows and  *)
(* its scheduler, and the life of the streams.                             *)
(***************************************************************************)
EXTENDS H2Send, H2Streams

CONSTANT Parts  \* the parts a run looks at

VARIABLE part

mcvars == <<part, vars, hsvars>>

SendPart(A) == part = "send" /\ A /\ UNCHANGED <<part, hsvars>>
StreamsPart(A) == part = "streams" /\ A /\ UNCHANGED <<part, vars>>

MCInit ==
    /\ part \in Parts
    /\ Init /\ (part # "send" => peer.init = CHOOSE n \in InitWindows : TRUE)
    /\ HsInit /\ (part # "streams" => config = CHOOSE x \in Configs : TRUE)

MCNext == SendPart(Next) \/ StreamsPart(HsNext)

MCSpec == MCInit /\ [][MCNext]_mcvars

-----------------------------------------------------------------------------
(* Values of the constants                                                 *)

Prio(u, i) == [urgency |-> u, incremental |-> i]

\* An incremental stream above a non-incremental one, and its demotion.
MCMixed == {Prio(0, TRUE), Prio(1, FALSE)}
MCDemotion == {Prio(1, FALSE)}

\* Body bytes, the empty chunk that ends the stream (or carries trailers), and a
\* chunk whose last byte ends the stream.
MCChunks == {[len |-> 2, end_stream |-> FALSE], [len |-> 0, end_stream |-> TRUE],
             [len |-> 2, end_stream |-> TRUE]}

Config(n, upgrade, conforming) ==
    [max_concurrent |-> n, upgrade |-> upgrade, conforming |-> conforming]

\* A conforming client on a connection of either kind, with room for all its streams
\* and without, and any client without.
MCConfigs == {Config(2, FALSE, TRUE), Config(2, TRUE, TRUE), Config(1, FALSE, TRUE),
              Config(1, FALSE, FALSE)}

=============================================================================
