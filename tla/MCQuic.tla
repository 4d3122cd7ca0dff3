------------------------------- MODULE MCQuic -------------------------------
(***************************************************************************)
(* Three parts of QUIC and HTTP/3 that share no state, `part' says which   *)
(* of them moves: the packets of one transfer, with their timers and       *)
(* acknowledgements; the flow control and reassembly of its streams; the   *)
(* requests of one connection.                                             *)
(***************************************************************************)
EXTENDS QuicLoss, QuicStream, H3Conn

CONSTANT Parts  \* the parts a run looks at

VARIABLE part

mcvars == <<part, qlvars, qsvars, h3vars>>

Loss(A) == part = "loss" /\ A /\ UNCHANGED <<part, qsvars, h3vars>>
Stream(A) == part = "stream" /\ A /\ UNCHANGED <<part, qlvars, h3vars>>
Conn(A) == part = "conn" /\ A /\ UNCHANGED <<part, qlvars, qsvars>>

\* A part that does not move starts in one state.
Init ==
    /\ part \in Parts
    /\ QlInit /\ (part # "loss" => snd.len = 1)
    /\ QsInit /\ (part # "stream" => qsnd.who = "client") /\ (part # "stream" \/ qsnd.who = "handshake" => qsnd.len = 2)
    /\ H3Init /\ (part # "conn" => h3ask.flaw = "none")

Next == Loss(QlNext) \/ Stream(QsNext) \/ Conn(H3Next)

\* A stream that is not at its end sends its next chunk when it may.
Advances(s) == SendStreamChunk(s) /\ qsnd'.off # qsnd.off

\* The drivers poll with a timeout of a few milliseconds and tick on every turn; what the
\* network does not lose it delivers; workers finish and clocks run.
Spec ==
    /\ Init /\ [][Next]_mcvars
    /\ WF_mcvars(Loss(Tick)) /\ WF_mcvars(Loss(ReceivePackets)) /\ WF_mcvars(Loss(FlushAck))
    /\ WF_mcvars(Loss(ReceiveAck)) /\ WF_mcvars(Loss(Ages))
    /\ WF_mcvars(Stream(ReceiveFrames)) /\ WF_mcvars(Stream(Replenish)) /\ WF_mcvars(Stream(Credits))
    /\ WF_mcvars(Stream(SendCrypto)) /\ WF_mcvars(Stream(SendStreamAppend /\ qsnd'.off # qsnd.off)) /\ \A s \in QsStreams : WF_mcvars(Stream(Advances(s)))
    /\ WF_mcvars(Conn(ClientLoop)) /\ WF_mcvars(Conn(ServerLoop)) /\ WF_mcvars(Conn(Worker))
    /\ \A r \in HReqs : WF_mcvars(Conn(Late(r)))

-----------------------------------------------------------------------------
(***************************************************************************)
(* Nothing just stops, stated once for the part that moves: a transfer is  *)
(* delivered or fails, also when timers are early; the credit of a stream  *)
(* is given back until all of it is through; every caller is answered and  *)
(* the server's tasks come back.                                           *)
(***************************************************************************)
TransfersEnd ==
    <>[](CASE part = "loss" -> TransferEnded
           [] part = "stream" -> UploadEnded
           [] part = "conn" -> RequestsSettled)

-----------------------------------------------------------------------------
\* Two losses of a single packet, early timers on a stream of four; one loss out of four packets.
MCShort == {[chunks |-> 1, loss |-> 2, late |-> 2], [chunks |-> 4, loss |-> 0, late |-> 2]}
MCLossy == {[chunks |-> 4, loss |-> 1, late |-> 0]}
=============================================================================
