------------------------------ MODULE MCH2Live ------------------------------
(***************************************************************************)
(* Three parts of an HTTP/2 server connection whose progress is in         *)
(* question; `part' says which of them moves: the sender's scheduler, the  *)
(* receiver's credit, and the loop that drives a connection.               *)
(***************************************************************************)
EXTENDS H2Send, H2Recv, H2Driver

CONSTANTS Parts,  \* the parts a run looks at
          s1, s2

VARIABLE part

mcvars == <<part, vars, rxvars, drvars>>

SendPart(A) == part = "send" /\ A /\ UNCHANGED <<part, rxvars, drvars>>
RecvPart(A) == part = "recv" /\ A /\ UNCHANGED <<part, vars, drvars>>
DriverPart(A) == part = "driver" /\ A /\ UNCHANGED <<part, vars, rxvars>>

MCInit ==
    /\ part \in Parts
    /\ Init
    /\ RxInit /\ (part # "recv" => rxconfig = CHOOSE x \in RxConfigs : TRUE)
    /\ DrInit /\ (part # "driver" => drconfig = CHOOSE x \in DrConfigs : TRUE)

MCNext == SendPart(Next) \/ RecvPart(RxNext) \/ DriverPart(DrNext)

\* The fairness of the three modules, for the part that moves.
MCSpec ==
    /\ MCInit /\ [][MCNext]_mcvars
    /\ WF_mcvars(SendPart(Flush))
    /\ SF_mcvars(SendPart(conn_window <= 0 /\ \E n \in Increments : ConnWindowUpdate(n)))
    /\ \A s \in Streams :
          SF_mcvars(SendPart(send_window[s] <= 0 /\ \E n \in Increments : StreamWindowUpdate(s, n)))
    /\ WF_mcvars(RecvPart(Receive)) /\ WF_mcvars(RecvPart(PeerReceive))
    /\ \A s \in RxStreams : WF_mcvars(RecvPart(\E n \in 1..InitWindow : Release(s, n)))
    /\ WF_mcvars(DriverPart(Loop)) /\ WF_mcvars(DriverPart(TimePasses))
    /\ SF_mcvars(DriverPart(PollRead)) /\ SF_mcvars(DriverPart(PollFlush /\ FlushesKnown))
    /\ \A s \in DrStreams : WF_mcvars(DriverPart(Produce(s)))

-----------------------------------------------------------------------------
(***************************************************************************)
(* Nobody waits for ever, stated once for the part that moves:             *)
(* NoStarvation of emit_data_frames() and its scheduler, SenderUnblocked   *)
(* of release_data(), and WholeRequestAnswered of the driver's loop.       *)
(***************************************************************************)
Waits(i) ==
    CASE part = "send" -> Tracked(buckets, i)
      [] part = "recv" -> Blocked(<<s1, s2>>[i])
      [] part = "driver" -> Asked(i)
Served(i) ==
    CASE part = "send" -> Fed(i)
      [] part = "recv" -> Unblocked(<<s1, s2>>[i])
      [] part = "driver" -> Answered(i)
NobodyWaitsForEver == \A i \in {1, 2} : Waits(i) ~> Served(i)

-----------------------------------------------------------------------------
(* Values of the constants                                                 *)

Prio(u, i) == [urgency |-> u, incremental |-> i]

\* A non-incremental stream on each urgency; one-unit chunks, and an end on its own.
MCPlain == {Prio(0, FALSE), Prio(1, FALSE)}
MCBytes == {[len |-> 1, end_stream |-> FALSE], [len |-> 0, end_stream |-> TRUE]}

RxConfig(auto, resets, n) ==
    [auto_release_credit |-> auto, resets |-> resets, max_streams |-> n]

\* Two streams share the connection window under the automatic release, with resets
\* and without; one stream with resets released by the application.
MCRecv == {RxConfig(TRUE, FALSE, 2), RxConfig(TRUE, TRUE, 2), RxConfig(FALSE, TRUE, 1)}

\* The automatic release alone.
MCAuto == {RxConfig(TRUE, FALSE, 2)}

DrConfig(streams, answers, control, faults, timers) ==
    [streams |-> streams, chunks |-> 3 - streams, buffer |-> IF faults = {} THEN 2 ELSE 1,
     answers |-> answers, control |-> control,
     upgrade |-> "upgrade" \in faults, malformed |-> "malformed" \in faults,
     resets |-> "resets" \in faults, trailers |-> "trailers" \in faults,
     settings_timeout |-> timers, idle_timeout |-> timers, ping |-> timers]

\* Responses of every kind; a streaming response with resets and GOAWAY; two
\* streams that race resets, or stream side by side; an upgrade and requests that end
\* the connection; the timeouts with trailers and a client that goes away.
MCDriver ==
    {DrConfig(1, {"empty", "trailers", "bytes", "channel"}, {}, {}, FALSE),
     DrConfig(1, {"channel"}, {"goaway"}, {"resets"}, FALSE),
     DrConfig(2, {"bytes"}, {}, {"resets"}, FALSE),
     DrConfig(2, {"bytes", "channel"}, {}, {}, FALSE),
     DrConfig(2, {"empty", "huge"}, {"eof"}, {"upgrade", "malformed"}, FALSE),
     DrConfig(1, {"bytes"}, {"settings_ack", "eof"}, {"trailers"}, TRUE),
     DrConfig(1, {"channel"}, {}, {"trailers"}, TRUE)}
=============================================================================
