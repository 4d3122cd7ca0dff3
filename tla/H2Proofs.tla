------------------------------ MODULE H2Proofs ------------------------------
(***************************************************************************)
(* Proofs about H2Streams and H2Send for every number of streams, every    *)
(* configuration, every window and every peer.                             *)
(*                                                                         *)
(* The stream table (H2Streams), in layers, each proved inductive with the *)
(* help of the ones before it:                                             *)
(*   StreamTypes  types, with the frames under way and the events          *)
(*   RetryInv     what the client may send again was never processed: the  *)
(*                promises already made, those on their way to the client  *)
(*                and those the next GOAWAY will make                      *)
(*   ReopenInv    a conforming client does not open the stream of an       *)
(*                Upgrade again                                            *)
(*   OrderInv     the events of a stream are one message, and a stream     *)
(*                that can still receive has not seen its end              *)
(*                                                                         *)
(* The send side and its scheduler (H2Send), SendInv:                      *)
(*   BodyTypes, LinkTypes  types; windows are integers of either sign      *)
(*   Buffering    send_buffered is the sum of the queue, and only a stream *)
(*                that may send has a queue                                *)
(*   SchedOK      what is marked as scheduled has an entry in a bucket     *)
(*   Woken        body that both windows allow has an entry in a bucket    *)
(***************************************************************************)
EXTENDS H2Streams, H2Send, FiniteSetTheorems, TLAPS

StreamStates == {"none", "open", "half_closed_local", "half_closed_remote"}
Events == {"headers", "headers_end", "data", "data_end", "trailers", "rst"}
ToServer ==
    [type : {"HEADERS", "DATA", "TRAILERS", "RST_STREAM", "WINDOW_UPDATE"}, stream : HsStreams, end : BOOLEAN]
    \cup [type : {"GOAWAY"}, stream : {0}, end : {FALSE}]
ToClient ==
    [type : {"END_STREAM", "RST_STREAM", "REFUSED_STREAM"}, stream : HsStreams, end : BOOLEAN]
    \cup [type : {"GOAWAY"}, stream : 0..NStreams, end : BOOLEAN]

\* HsTypeOK with the frames, the events and the records it leaves open.
StreamTypes ==
    /\ config \in [max_concurrent : Nat \ {0}, upgrade : BOOLEAN, conforming : BOOLEAN]
    /\ table \in [HsStreams -> StreamStates]
    /\ last_peer \in 0..NStreams
    /\ ring \in Seq(HsStreams) /\ Len(ring) <= ClosedTrack
    /\ goaway \in BOOLEAN /\ hsclosed \in BOOLEAN
    /\ inbox \in Seq(ToServer)
    /\ outbox \in Seq(ToClient)
    /\ log \in [HsStreams -> Seq(Events)]
    /\ hspeer \in [state : [HsStreams -> {"idle", "open", "ended", "done"}],
                   goaway : BOOLEAN, retry : SUBSET HsStreams]

\* The application never saw a request on the stream, or only the one of an Upgrade.
Unprocessed(s) == log[s] = <<>> \/ (config.upgrade /\ s = 1)

\* A promise that the stream was not processed: it holds, and no later request can
\* break it because the id is behind last_peer_id or a GOAWAY has left.
Promised(s) == Unprocessed(s) /\ (goaway \/ s <= last_peer)

\* A frame to the client promises only what holds.
Honest(g) ==
    /\ g.type = "REFUSED_STREAM" => Promised(g.stream)
    /\ g.type = "GOAWAY" => goaway /\ \A s \in HsStreams : s > g.stream => Unprocessed(s)

RetryInv ==
    /\ \A s \in HsStreams : HsLive(s) => log[s] # <<>>
    /\ \A s \in HsStreams : s > last_peer => Unprocessed(s)
    /\ \A s \in hspeer.retry : Promised(s)
    /\ \A i \in DOMAIN outbox : Honest(outbox[i])

\* A conforming client does not open the stream of an Upgrade a second time.
ReopenInv ==
    config.upgrade /\ config.conforming =>
        /\ hspeer.state[1] # "idle"
        /\ \A i \in DOMAIN inbox : inbox[i].stream = 1 => inbox[i].type # "HEADERS"

\* The events of one stream.
InOrder(events) ==
    \A i \in DOMAIN events :
        /\ (events[i] \in Opens) <=> (i = 1)
        /\ events[i] \in {"data", "data_end"} => \A j \in 1..i - 1 : events[j] \notin EndEvents

OrderInv ==
    \A s \in HsStreams \ Reopened :
        /\ InOrder(log[s])
        /\ CanRecv(s) => \A i \in DOMAIN log[s] : log[s][i] \notin EndEvents

-----------------------------------------------------------------------------
(* The kinds of step the server takes *)

Sent(s) ==
    \/ outbox' = outbox
    \/ \E g \in ToClient :
          /\ outbox' = Append(outbox, g)
          /\ g.type = "REFUSED_STREAM" => g.stream = s /\ s > last_peer /\ (goaway \/ s = last_peer')
          /\ g.type = "GOAWAY" => g.stream = last_peer /\ goaway'

\* Nothing reaches the application; the stream may go, or its sending half end.
Silent(s) ==
    /\ \/ table' = table
       \/ table' = [table EXCEPT ![s] = "none"]
       \/ table[s] = "open" /\ table' = [table EXCEPT ![s] = "half_closed_local"]
    /\ UNCHANGED log
    /\ last_peer <= last_peer' /\ (goaway => goaway')
    /\ Sent(s)

\* A request begins.
Accepted(s) ==
    /\ inbox # <<>> /\ Head(inbox).type = "HEADERS" /\ Head(inbox).stream = s
    /\ ~HsLive(s) /\ ~goaway /\ s > last_peer /\ ~TooMany
    /\ last_peer' = s
    /\ \/ table' = [table EXCEPT ![s] = "open"] /\ log' = [log EXCEPT ![s] = Append(@, "headers")]
       \/ table' = [table EXCEPT ![s] = "half_closed_remote"] /\ log' = [log EXCEPT ![s] = Append(@, "headers_end")]
    /\ UNCHANGED <<goaway, outbox>>

\* A live stream's request goes on, or ends and cannot be received any more.
Delivered(s) ==
    /\ HsLive(s)
    /\ \/ CanRecv(s) /\ table' = table /\ log' = [log EXCEPT ![s] = Append(@, "data")]
       \/ /\ \E e \in {"data_end", "trailers"} :
                /\ e = "data_end" => CanRecv(s)
                /\ log' = [log EXCEPT ![s] = Append(@, e)]
          /\ \E st \in {"none", "half_closed_remote"} : table' = [table EXCEPT ![s] = st]
    /\ UNCHANGED <<last_peer, goaway, outbox>>

\* Live streams are reset by the client.
Cut(S) ==
    /\ \A s \in S : HsLive(s)
    /\ table' = [s \in HsStreams |-> IF s \in S THEN "none" ELSE table[s]]
    /\ log' = [s \in HsStreams |-> IF s \in S THEN Append(log[s], "rst") ELSE log[s]]
    /\ UNCHANGED <<last_peer, goaway, outbox>>

ServerStep(s) == Silent(s) \/ Accepted(s) \/ Delivered(s) \/ \E S \in SUBSET HsStreams : Cut(S)

-----------------------------------------------------------------------------
(* Types *)

\* The ring of closed ids stays within its capacity.
LEMMA RingType ==
    ASSUME NEW ids \in Seq(HsStreams)
    PROVE  LastClosed(ids) \in Seq(HsStreams) /\ Len(LastClosed(ids)) <= ClosedTrack
<1>1. CASE Len(ids) <= ClosedTrack
  BY <1>1 DEF LastClosed
<1>2. CASE ~(Len(ids) <= ClosedTrack)
  <2> DEFINE kept == [i \in 1..ClosedTrack |-> ids[Len(ids) - ClosedTrack + i]]
  <2>1. ClosedTrack \in Nat /\ Len(ids) \in Nat
    BY StreamsAssumption
  <2>2. \A i \in 1..ClosedTrack : ids[Len(ids) - ClosedTrack + i] \in HsStreams
    BY <1>2, <2>1
  <2>3. kept \in Seq(HsStreams) /\ Len(kept) = ClosedTrack
    BY <2>1, <2>2
  <2> QED BY <1>2, <2>1, <2>3 DEF LastClosed
<1> QED BY <1>1, <1>2

\* What close_stream() leaves has the right type.
LEMMA CloseType ==
    ASSUME StreamTypes, NEW s \in HsStreams, HsCloseStream(s)
    PROVE  /\ table' \in [HsStreams -> StreamStates]
           /\ ring' \in Seq(HsStreams) /\ Len(ring') <= ClosedTrack
<1>1. table' \in [HsStreams -> StreamStates]
  BY DEF StreamTypes, HsCloseStream, StreamStates
<1>2. Append(ring, s) \in Seq(HsStreams)
  BY DEF StreamTypes
<1> QED BY <1>1, <1>2, RingType DEF HsCloseStream, Remember

\* What the server does with one frame has the right type.
LEMMA ReceiveType ==
    ASSUME StreamTypes, Receive
    PROVE  StreamTypes'
<1> DEFINE f == Head(inbox)
<1> USE StreamsAssumption
<1>1. f \in ToServer /\ inbox' \in Seq(ToServer)
  BY DEF StreamTypes, Receive
<1>2. UNCHANGED <<config, hspeer>>
  BY DEF Receive
<1>3. f.type # "GOAWAY" => f.stream \in HsStreams
  BY <1>1 DEF ToServer
<1> DEFINE Typed ==
      /\ table' \in [HsStreams -> StreamStates]
      /\ last_peer' \in 0..NStreams
      /\ ring' \in Seq(HsStreams) /\ Len(ring') <= ClosedTrack
      /\ goaway' \in BOOLEAN /\ hsclosed' \in BOOLEAN
      /\ outbox' \in Seq(ToClient)
      /\ log' \in [HsStreams -> Seq(Events)]
<1>4. ASSUME HsConnError PROVE Typed
  <2>1. PICK g \in ToClient : g = Frame("GOAWAY", last_peer, FALSE)
    BY DEF StreamTypes, ToClient, Frame
  <2>2. outbox' \in {outbox, Append(outbox, g)}
    BY <1>4, <2>1, Zenon DEF HsConnError
  <2>3. outbox \in Seq(ToClient)
    BY DEF StreamTypes
  <2>4. Append(outbox, g) \in Seq(ToClient)
    BY <2>3
  <2>5. outbox' \in Seq(ToClient)
    BY <2>2, <2>3, <2>4, Zenon
  <2> QED BY <1>4, <2>5 DEF StreamTypes, HsConnError
<1>5. ASSUME NEW s \in HsStreams, NEW code \in {"RST_STREAM", "REFUSED_STREAM"}, StreamError(s, code),
             last_peer' \in 0..NStreams
      PROVE Typed
  BY <1>5, CloseType DEF StreamTypes, StreamError, ToClient, Frame
<1>6. ASSUME NEW s \in HsStreams, NEW e \in Events, Deliver(s, e) PROVE log' \in [HsStreams -> Seq(Events)]
  BY <1>6 DEF StreamTypes, Deliver
<1>7. CASE OnHeaders(f)
  <2> SUFFICES Typed
    BY <1>1, <1>2 DEF StreamTypes
  <2>1. f.stream \in HsStreams
    BY <1>3, <1>7 DEF OnHeaders
  <2>2. PICK bad \in BOOLEAN : IF HsLive(f.stream) THEN Trailers(f, bad) ELSE NewRequest(f, bad)
    BY <1>7 DEF OnHeaders
  <2>3. CASE Trailers(f, bad)
    <3>1. CASE StreamError(f.stream, "RST_STREAM") /\ UNCHANGED last_peer
      BY <2>1, <3>1, <1>5 DEF StreamTypes
    <3>2. CASE /\ Deliver(f.stream, "trailers")
               /\ HsCloseStream(f.stream)
               /\ UNCHANGED <<last_peer, goaway, hsclosed, outbox>>
      BY <2>1, <3>2, <1>6, CloseType DEF StreamTypes, Events
    <3>3. CASE /\ Deliver(f.stream, "trailers")
               /\ table' = [table EXCEPT ![f.stream] = "half_closed_remote"]
               /\ UNCHANGED <<ring, last_peer, goaway, hsclosed, outbox>>
      BY <2>1, <3>3, <1>6 DEF StreamTypes, Events, StreamStates
    <3> QED BY <2>3, <3>1, <3>2, <3>3 DEF Trailers
  <2>4. CASE NewRequest(f, bad)
    <3> DEFINE s == f.stream
    <3>1. CASE StreamError(s, "RST_STREAM") /\ last_peer' = IF s > last_peer THEN s ELSE last_peer
      BY <2>1, <3>1, <1>5 DEF StreamTypes, HsStreams
    <3>2. CASE StreamError(s, "REFUSED_STREAM") /\ UNCHANGED last_peer
      BY <2>1, <3>2, <1>5 DEF StreamTypes
    <3>3. CASE HsConnError
      BY <3>3, <1>4
    <3>4. CASE /\ last_peer' = s
               /\ outbox' = Append(outbox, Frame("REFUSED_STREAM", s, TRUE))
               /\ UNCHANGED <<table, ring, goaway, hsclosed, log>>
      BY <2>1, <3>4 DEF StreamTypes, ToClient, Frame, HsStreams
    <3>5. CASE /\ last_peer' = s
               /\ table' = [table EXCEPT ![s] = IF f.end THEN "half_closed_remote" ELSE "open"]
               /\ Deliver(s, IF f.end THEN "headers_end" ELSE "headers")
               /\ UNCHANGED <<ring, goaway, hsclosed, outbox>>
      <4>1. log' \in [HsStreams -> Seq(Events)]
        BY <2>1, <3>5, <1>6 DEF Events
      <4>2. table' \in [HsStreams -> StreamStates]
        BY <2>1, <3>5 DEF StreamTypes, StreamStates
      <4> QED BY <2>1, <3>5, <4>1, <4>2 DEF StreamTypes, HsStreams
    <3> QED BY <2>4, <3>1, <3>2, <3>3, <3>4, <3>5 DEF NewRequest
  <2> QED BY <2>2, <2>3, <2>4
<1>8. CASE OnData(f)
  <2> DEFINE s == f.stream
  <2>1. s \in HsStreams /\ UNCHANGED last_peer
    BY <1>3, <1>8 DEF OnData
  <2>2. CASE /\ outbox' = Append(outbox, Frame("RST_STREAM", s, TRUE))
             /\ UNCHANGED <<table, ring, goaway, hsclosed, log>>
    BY <2>1, <2>2, <1>1, <1>2 DEF StreamTypes, ToClient, Frame
  <2>3. CASE HsConnError
    BY <2>3, <1>4, <1>1, <1>2 DEF StreamTypes
  <2>4. CASE StreamError(s, "RST_STREAM")
    BY <2>1, <2>4, <1>5, <1>1, <1>2 DEF StreamTypes
  <2>5. CASE /\ Deliver(s, IF f.end THEN "data_end" ELSE "data")
             /\ HsCloseStream(s)
             /\ UNCHANGED <<goaway, hsclosed, outbox>>
    <3>1. log' \in [HsStreams -> Seq(Events)]
      BY <2>1, <2>5, <1>6 DEF Events
    <3> QED BY <2>1, <2>5, <3>1, CloseType, <1>1, <1>2 DEF StreamTypes
  <2>6. CASE /\ Deliver(s, IF f.end THEN "data_end" ELSE "data")
             /\ table' = [table EXCEPT ![s] = IF f.end THEN AfterEnd(@) ELSE @]
             /\ UNCHANGED <<ring, goaway, hsclosed, outbox>>
    <3>1. log' \in [HsStreams -> Seq(Events)]
      BY <2>1, <2>6, <1>6 DEF Events
    <3>2. table' \in [HsStreams -> StreamStates]
      BY <2>1, <2>6 DEF StreamTypes, StreamStates, AfterEnd
    <3> QED BY <2>1, <2>6, <3>1, <3>2, <1>1, <1>2 DEF StreamTypes
  <2> QED BY <1>8, <2>2, <2>3, <2>4, <2>5, <2>6 DEF OnData
<1>9. CASE OnRst(f)
  <2>1. f.stream \in HsStreams /\ UNCHANGED last_peer
    BY <1>3, <1>9 DEF OnRst
  <2>2. CASE Deliver(f.stream, "rst") /\ HsCloseStream(f.stream) /\ UNCHANGED <<goaway, hsclosed, outbox>>
    <3>1. log' \in [HsStreams -> Seq(Events)]
      BY <2>1, <2>2, <1>6 DEF Events
    <3> QED BY <2>1, <2>2, <3>1, CloseType, <1>1, <1>2 DEF StreamTypes
  <2>3. CASE UNCHANGED <<table, ring, goaway, hsclosed, outbox, log>>
    BY <2>1, <2>3, <1>1, <1>2 DEF StreamTypes
  <2>4. CASE HsConnError
    BY <2>4, <1>4, <1>1, <1>2 DEF StreamTypes
  <2> QED BY <1>9, <2>2, <2>3, <2>4 DEF OnRst
<1>10. CASE OnWindowUpdate(f)
  <2>1. CASE HsConnError
    BY <2>1, <1>4, <1>1, <1>2 DEF StreamTypes
  <2>2. CASE UNCHANGED <<table, last_peer, ring, goaway, hsclosed, outbox, log>>
    BY <2>2, <1>1, <1>2 DEF StreamTypes
  <2> QED BY <1>10, <2>1, <2>2 DEF OnWindowUpdate
<1>11. CASE OnGoaway(f)
  <2> DEFINE gone == {s \in HsStreams : HsLive(s) /\ s > f.stream}
  <2>1. gone \subseteq HsStreams /\ Cardinality(gone) \in Nat
    <3>1. IsFiniteSet(HsStreams)
      BY FS_Interval DEF HsStreams
    <3> QED BY <3>1, FS_Subset, FS_CardinalityType
  <2>2. PICK ids \in [1..Cardinality(gone) -> gone] : ring' = LastClosed(ring \o ids)
    BY <1>11 DEF OnGoaway
  <2>3. ring \o ids \in Seq(HsStreams)
    <3>1. ids \in [1..Cardinality(gone) -> HsStreams]
      BY <2>1
    <3>2. \A n \in Nat : [1..n -> HsStreams] \subseteq Seq(HsStreams)
      OBVIOUS
    <3>3. ids \in Seq(HsStreams)
      BY <3>1, <3>2, <2>1
    <3> QED BY <3>3 DEF StreamTypes
  <2>4. ring' \in Seq(HsStreams) /\ Len(ring') <= ClosedTrack
    BY <2>2, <2>3, RingType
  <2>5. table' \in [HsStreams -> StreamStates]
    BY <1>11 DEF OnGoaway, StreamTypes, StreamStates
  <2>6. log' \in [HsStreams -> Seq(Events)]
    BY <1>11 DEF OnGoaway, StreamTypes, Events
  <2> QED BY <1>11, <2>4, <2>5, <2>6, <1>1, <1>2 DEF OnGoaway, StreamTypes
<1> QED BY <1>7, <1>8, <1>9, <1>10, <1>11 DEF Receive

\* What the application's calls leave has the right type.
LEMMA ApplicationType ==
    ASSUME StreamTypes, NEW s \in HsStreams, Respond(s) \/ HsReset(s) \/ SendGoaway
    PROVE  StreamTypes'
<1>1. outbox \in Seq(ToClient)
  BY DEF StreamTypes
<1>2. \A g \in ToClient : Append(outbox, g) \in Seq(ToClient)
  BY <1>1
<1>3. CASE Respond(s)
  <2>1. outbox' \in Seq(ToClient)
    BY <1>2, <1>3 DEF Respond, ToClient, Frame
  <2>2. CASE table' = [table EXCEPT ![s] = "half_closed_local"] /\ UNCHANGED ring
    BY <1>3, <2>1, <2>2 DEF Respond, StreamTypes, StreamStates
  <2>3. CASE HsCloseStream(s)
    BY <1>3, <2>1, <2>3, CloseType DEF Respond, StreamTypes
  <2> QED BY <1>3, <2>2, <2>3 DEF Respond
<1>4. CASE HsReset(s)
  <2>1. outbox' \in Seq(ToClient)
    BY <1>2, <1>4 DEF HsReset, StreamError, ToClient, Frame
  <2>2. HsCloseStream(s)
    BY <1>4 DEF HsReset, StreamError
  <2> QED BY <1>4, <2>1, <2>2, CloseType DEF HsReset, StreamError, StreamTypes
<1>5. CASE SendGoaway
  <2>1. outbox' \in Seq(ToClient)
    <3>1. Frame("GOAWAY", last_peer, FALSE) \in ToClient
      BY DEF StreamTypes, ToClient, Frame
    <3> QED BY <1>2, <1>5, <3>1 DEF SendGoaway
  <2> QED BY <1>5, <2>1 DEF SendGoaway, StreamTypes
<1> QED BY <1>3, <1>4, <1>5

\* What the client does has the right type.
LEMMA ClientType ==
    ASSUME StreamTypes
    PROVE  /\ \A s \in HsStreams, type \in {"HEADERS", "DATA", "TRAILERS", "RST_STREAM", "WINDOW_UPDATE"},
                 e \in BOOLEAN : ClientSend(type, s, e) => StreamTypes'
           /\ ClientGoaway => StreamTypes'
           /\ ClientReceive => StreamTypes'
<1>1. ASSUME NEW s \in HsStreams, NEW type \in {"HEADERS", "DATA", "TRAILERS", "RST_STREAM", "WINDOW_UPDATE"},
             NEW e \in BOOLEAN, ClientSend(type, s, e)
      PROVE  StreamTypes'
  <2>1. Frame(type, s, e) \in ToServer
    BY DEF ToServer, Frame
  <2>2. inbox' \in Seq(ToServer)
    BY <1>1, <2>1 DEF ClientSend, StreamTypes
  <2>3. ClientState(type, hspeer.state[s], e) \in {"idle", "open", "ended", "done"}
    BY DEF ClientState, StreamTypes
  <2>4. hspeer' \in [state : [HsStreams -> {"idle", "open", "ended", "done"}],
                     goaway : BOOLEAN, retry : SUBSET HsStreams]
    BY <1>1, <2>3 DEF ClientSend, StreamTypes
  <2> QED BY <1>1, <2>2, <2>4 DEF ClientSend, StreamTypes
<1>2. ASSUME ClientGoaway PROVE StreamTypes'
  <2>1. Frame("GOAWAY", 0, FALSE) \in ToServer
    BY DEF ToServer, Frame
  <2>2. inbox' \in Seq(ToServer)
    BY <1>2, <2>1 DEF ClientGoaway, StreamTypes, Frame
  <2> QED BY <1>2, <2>2 DEF ClientGoaway, StreamTypes
<1>3. ASSUME ClientReceive PROVE StreamTypes'
  <2> DEFINE f == Head(outbox)
             Peers == [state : [HsStreams -> {"idle", "open", "ended", "done"}],
                       goaway : BOOLEAN, retry : SUBSET HsStreams]
  <2>1. f \in ToClient /\ outbox' \in Seq(ToClient)
    BY <1>3 DEF ClientReceive, StreamTypes
  <2>2. f.type \in {"GOAWAY", "REFUSED_STREAM", "RST_STREAM", "END_STREAM"}
    BY <2>1 DEF ToClient
  <2>3. f.type # "GOAWAY" => f.stream \in HsStreams
    BY <2>1 DEF ToClient
  <2>4. hspeer \in Peers
    BY DEF StreamTypes
  <2>5. hspeer' \in Peers
    <3>1. CASE f.type = "GOAWAY"
      BY <1>3, <3>1, <2>4 DEF ClientReceive
    <3>2. CASE f.type = "REFUSED_STREAM"
      BY <1>3, <3>2, <2>3, <2>4 DEF ClientReceive
    <3>3. CASE f.type = "RST_STREAM"
      BY <1>3, <3>3, <2>3, <2>4 DEF ClientReceive
    <3>4. CASE f.type = "END_STREAM"
      BY <1>3, <3>4, <2>3, <2>4 DEF ClientReceive
    <3> QED BY <2>2, <3>1, <3>2, <3>3, <3>4
  <2> QED BY <1>3, <2>1, <2>5 DEF ClientReceive, StreamTypes
<1> QED BY <1>1, <1>2, <1>3

\* The types hold at the start and every step keeps them.
LEMMA TypesInductive ==
    /\ HsInit => StreamTypes
    /\ StreamTypes /\ [HsNext]_hsvars => StreamTypes'
<1>1. HsInit => StreamTypes
  <2> SUFFICES ASSUME HsInit PROVE StreamTypes
    OBVIOUS
  <2>1. config \in [max_concurrent : Nat \ {0}, upgrade : BOOLEAN, conforming : BOOLEAN]
    BY StreamsAssumption DEF HsInit
  <2>2. table \in [HsStreams -> StreamStates] /\ log \in [HsStreams -> Seq(Events)]
    <3>1. <<>> \in Seq(Events) /\ <<"headers_end">> \in Seq(Events)
      BY DEF Events
    <3> QED BY <3>1 DEF HsInit, StreamStates
  <2>3. inbox \in Seq(ToServer) /\ outbox \in Seq(ToClient) /\ ring \in Seq(HsStreams)
    BY DEF HsInit
  <2>4. hspeer \in [state : [HsStreams -> {"idle", "open", "ended", "done"}],
                    goaway : BOOLEAN, retry : SUBSET HsStreams]
    BY DEF HsInit
  <2>5. last_peer \in 0..NStreams /\ Len(ring) <= ClosedTrack
    BY StreamsAssumption DEF HsInit
  <2> QED BY <2>1, <2>2, <2>3, <2>4, <2>5 DEF HsInit, StreamTypes
<1>2. ASSUME StreamTypes, [HsNext]_hsvars PROVE StreamTypes'
  <2>1. CASE Receive
    BY <1>2, <2>1, ReceiveType
  <2>2. CASE \E s \in HsStreams : Respond(s) \/ HsReset(s)
    BY <1>2, <2>2, ApplicationType
  <2>3. CASE SendGoaway
    <3>1. 1 \in HsStreams
      BY StreamsAssumption DEF HsStreams
    <3> QED BY <1>2, <2>3, <3>1, ApplicationType
  <2>4. CASE ClientGoaway \/ ClientReceive
    BY <1>2, <2>4, ClientType
  <2>5. CASE \E s \in HsStreams, type \in {"HEADERS", "DATA", "TRAILERS", "RST_STREAM", "WINDOW_UPDATE"},
                e \in BOOLEAN : ClientSend(type, s, e)
    BY <1>2, <2>5, ClientType
  <2>6. CASE UNCHANGED hsvars
    BY <1>2, <2>6 DEF hsvars, StreamTypes
  <2> QED BY <1>2, <2>1, <2>2, <2>3, <2>4, <2>5, <2>6 DEF HsNext
<1> QED BY <1>1, <1>2

-----------------------------------------------------------------------------
(* Every step of the server is of one of the kinds *)

\* conn_error() delivers nothing and its GOAWAY names last_peer_id.
LEMMA ConnErrorSilent ==
    ASSUME StreamTypes, NEW s \in HsStreams, HsConnError
    PROVE  Silent(s)
<1>1. PICK g \in ToClient : g = Frame("GOAWAY", last_peer, FALSE)
  BY DEF StreamTypes, ToClient, Frame
<1>2. g.type = "GOAWAY" /\ g.stream = last_peer
  BY <1>1 DEF Frame
<1>3. outbox' \in {outbox, Append(outbox, g)}
  BY <1>1, Zenon DEF HsConnError
<1>4. goaway' = TRUE /\ table' = table /\ last_peer' = last_peer /\ log' = log
  BY DEF HsConnError
<1>5. Sent(s)
  BY <1>2, <1>3, <1>4 DEF Sent
<1> QED BY <1>4, <1>5 DEF Silent, StreamTypes

\* stream_error() delivers nothing; a refusal is of a stream above last_peer_id.
LEMMA StreamErrorSilent ==
    ASSUME StreamTypes, NEW s \in HsStreams, NEW code \in {"RST_STREAM", "REFUSED_STREAM"},
           StreamError(s, code), last_peer' \in 0..NStreams, last_peer <= last_peer',
           code = "REFUSED_STREAM" => s > last_peer /\ goaway
    PROVE  Silent(s)
<1>1. PICK g \in ToClient : g = Frame(code, s, TRUE)
  BY DEF ToClient, Frame
<1>2. g.type = code /\ g.stream = s
  BY <1>1 DEF Frame
<1>3. outbox' = Append(outbox, g) /\ goaway' = goaway /\ log' = log
  BY <1>1 DEF StreamError
<1>4. table' = [table EXCEPT ![s] = "none"]
  BY DEF StreamError, HsCloseStream
<1>5. Sent(s)
  BY <1>2, <1>3 DEF Sent
<1> QED BY <1>3, <1>4, <1>5 DEF Silent

\* A header block begins a request, ends one, or is answered in silence.
LEMMA HeadersStep ==
    ASSUME StreamTypes, inbox # <<>>, OnHeaders(Head(inbox)), StreamTypes'
    PROVE  \E s \in HsStreams : ServerStep(s)
<1> DEFINE f == Head(inbox)
           s == f.stream
<1>1. f \in ToServer /\ f.type \in {"HEADERS", "TRAILERS"}
  BY DEF StreamTypes, OnHeaders
<1>2. s \in HsStreams
  BY <1>1 DEF ToServer
<1>3. PICK bad \in BOOLEAN :
        /\ f.type = "TRAILERS" /\ ~HsLive(s) => bad
        /\ IF HsLive(s) THEN Trailers(f, bad) ELSE NewRequest(f, bad)
  BY DEF OnHeaders
<1>4. last_peer \in Nat /\ s \in Nat /\ last_peer' \in 0..NStreams
  BY <1>2, StreamsAssumption DEF StreamTypes, HsStreams
<1>5. CASE HsLive(s)
  <2>1. Trailers(f, bad)
    BY <1>3, <1>5
  <2>2. CASE StreamError(s, "RST_STREAM") /\ UNCHANGED last_peer
    BY <1>2, <1>4, <2>2, StreamErrorSilent DEF ServerStep
  <2>3. CASE ~bad
    <3>1. log' = [log EXCEPT ![s] = Append(@, "trailers")] /\ UNCHANGED <<last_peer, goaway, outbox>>
      BY <2>1, <2>3 DEF Trailers, Deliver
    <3>2. \E st \in {"none", "half_closed_remote"} : table' = [table EXCEPT ![s] = st]
      BY <2>1, <2>3 DEF Trailers, HsCloseStream
    <3> QED BY <1>2, <1>5, <3>1, <3>2 DEF Delivered, ServerStep
  <2> QED BY <2>1, <2>2, <2>3 DEF Trailers
<1>6. CASE ~HsLive(s)
  <2>1. NewRequest(f, bad)
    BY <1>3, <1>6
  <2>2. CASE StreamError(s, "RST_STREAM") /\ last_peer' = IF s > last_peer THEN s ELSE last_peer
    BY <1>2, <1>4, <2>2, StreamErrorSilent DEF ServerStep
  <2>3. CASE AfterGoaway(s) /\ StreamError(s, "REFUSED_STREAM") /\ UNCHANGED last_peer
    BY <1>2, <1>4, <2>3, StreamErrorSilent DEF ServerStep, AfterGoaway
  <2>4. CASE HsConnError
    BY <1>2, <2>4, ConnErrorSilent DEF ServerStep
  <2>5. CASE /\ s > last_peer /\ last_peer' = s
             /\ outbox' = Append(outbox, Frame("REFUSED_STREAM", s, TRUE))
             /\ UNCHANGED <<table, ring, goaway, hsclosed, log>>
    <3>1. PICK g \in ToClient : g = Frame("REFUSED_STREAM", s, TRUE)
      BY <1>2 DEF ToClient, Frame
    <3>2. g.type = "REFUSED_STREAM" /\ g.stream = s
      BY <3>1 DEF Frame
    <3>3. outbox' = Append(outbox, g)
      BY <3>1, <2>5
    <3>4. Sent(s)
      BY <3>2, <3>3, <2>5 DEF Sent
    <3> QED BY <1>2, <1>4, <2>5, <3>4 DEF Silent, ServerStep
  <2>6. CASE /\ ~bad /\ ~AfterGoaway(s) /\ s > last_peer /\ ~TooMany
             /\ last_peer' = s
             /\ table' = [table EXCEPT ![s] = IF f.end THEN "half_closed_remote" ELSE "open"]
             /\ Deliver(s, IF f.end THEN "headers_end" ELSE "headers")
             /\ UNCHANGED <<ring, goaway, hsclosed, outbox>>
    <3>1. f.type = "HEADERS" /\ ~goaway
      BY <1>1, <1>3, <1>6, <2>6 DEF AfterGoaway
    <3>2. \/ table' = [table EXCEPT ![s] = "open"] /\ log' = [log EXCEPT ![s] = Append(@, "headers")]
          \/ table' = [table EXCEPT ![s] = "half_closed_remote"] /\ log' = [log EXCEPT ![s] = Append(@, "headers_end")]
      BY <2>6 DEF Deliver
    <3> QED BY <1>2, <1>6, <2>6, <3>1, <3>2 DEF Accepted, ServerStep
  <2> QED BY <2>1, <2>2, <2>3, <2>4, <2>5, <2>6 DEF NewRequest
<1> QED BY <1>5, <1>6

\* The other frames.
LEMMA FramesStep ==
    ASSUME StreamTypes, StreamTypes', inbox # <<>>, NEW f, f = Head(inbox),
           OnData(f) \/ OnRst(f) \/ OnWindowUpdate(f) \/ OnGoaway(f)
    PROVE  \E s \in HsStreams : ServerStep(s)
<1> DEFINE s == f.stream
<1>1. f \in ToServer
  BY DEF StreamTypes
<1>2. f.type # "GOAWAY" => s \in HsStreams
  BY <1>1 DEF ToServer
<1>3. last_peer \in 0..NStreams /\ NStreams \in Nat
  BY StreamsAssumption DEF StreamTypes
<1>4. 1 \in HsStreams
  BY StreamsAssumption DEF HsStreams
<1>5. CASE OnData(f)
  <2>1. s \in HsStreams /\ last_peer' = last_peer
    BY <1>2, <1>5 DEF OnData
  <2>2. CASE /\ outbox' = Append(outbox, Frame("RST_STREAM", s, TRUE))
             /\ UNCHANGED <<table, ring, goaway, hsclosed, log>>
    <3>1. PICK g \in ToClient : g = Frame("RST_STREAM", s, TRUE)
      BY <2>1 DEF ToClient, Frame
    <3>2. g.type = "RST_STREAM"
      BY <3>1 DEF Frame
    <3>3. outbox' = Append(outbox, g)
      BY <3>1, <2>2
    <3>4. Sent(s)
      BY <3>2, <3>3 DEF Sent
    <3> QED BY <1>3, <2>1, <2>2, <3>4 DEF Silent, ServerStep
  <2>3. CASE HsConnError
    BY <2>1, <2>3, ConnErrorSilent DEF ServerStep
  <2>4. CASE StreamError(s, "RST_STREAM")
    BY <1>3, <2>1, <2>4, StreamErrorSilent DEF ServerStep
  <2>5. CASE /\ CanRecv(s)
             /\ Deliver(s, IF f.end THEN "data_end" ELSE "data")
             /\ IF f.end /\ table[s] = "half_closed_local"
                THEN HsCloseStream(s)
                ELSE /\ table' = [table EXCEPT ![s] = IF f.end THEN AfterEnd(@) ELSE @]
                     /\ UNCHANGED ring
             /\ UNCHANGED <<goaway, hsclosed, outbox>>
    <3>1. HsLive(s)
      BY <2>5 DEF CanRecv, HsLive
    <3>2. CASE f.end
      <4>1. log' = [log EXCEPT ![s] = Append(@, "data_end")]
        BY <2>5, <3>2 DEF Deliver
      <4>2. \E st \in {"none", "half_closed_remote"} : table' = [table EXCEPT ![s] = st]
        BY <2>5, <3>2 DEF HsCloseStream, AfterEnd
      <4> QED BY <2>1, <2>5, <3>1, <4>1, <4>2 DEF Delivered, ServerStep
    <3>3. CASE ~f.end
      <4>1. log' = [log EXCEPT ![s] = Append(@, "data")]
        BY <2>5, <3>3 DEF Deliver
      <4>2. table' = table
        BY <2>1, <2>5, <3>3 DEF StreamTypes
      <4> QED BY <2>1, <2>5, <3>1, <4>1, <4>2 DEF Delivered, ServerStep
    <3> QED BY <3>2, <3>3
  <2> QED BY <1>5, <2>2, <2>3, <2>4, <2>5 DEF OnData
<1>6. CASE OnRst(f)
  <2>1. s \in HsStreams /\ last_peer' = last_peer
    BY <1>2, <1>6 DEF OnRst
  <2>2. CASE HsLive(s) /\ Deliver(s, "rst") /\ HsCloseStream(s) /\ UNCHANGED <<goaway, hsclosed, outbox>>
    <3>1. table' = [t \in HsStreams |-> IF t \in {s} THEN "none" ELSE table[t]]
      BY <2>1, <2>2 DEF HsCloseStream, StreamTypes
    <3>2. log' = [t \in HsStreams |-> IF t \in {s} THEN Append(log[t], "rst") ELSE log[t]]
      BY <2>1, <2>2 DEF Deliver, StreamTypes
    <3>3. Cut({s})
      BY <2>1, <2>2, <3>1, <3>2 DEF Cut
    <3> QED BY <2>1, <3>3 DEF ServerStep
  <2>3. CASE UNCHANGED <<table, ring, goaway, hsclosed, outbox, log>>
    BY <1>3, <2>1, <2>3 DEF Silent, Sent, ServerStep
  <2>4. CASE HsConnError
    BY <2>1, <2>4, ConnErrorSilent DEF ServerStep
  <2> QED BY <1>6, <2>2, <2>3, <2>4 DEF OnRst
<1>7. CASE OnWindowUpdate(f)
  <2>1. CASE HsConnError
    BY <1>4, <2>1, ConnErrorSilent DEF ServerStep
  <2>2. CASE UNCHANGED <<table, last_peer, ring, goaway, hsclosed, outbox, log>>
    BY <1>3, <1>4, <2>2 DEF Silent, Sent, ServerStep
  <2> QED BY <1>7, <2>1, <2>2 DEF OnWindowUpdate
<1>8. CASE OnGoaway(f)
  <2> DEFINE gone == {t \in HsStreams : HsLive(t) /\ t > f.stream}
  <2>1. Cut(gone)
    BY <1>8 DEF OnGoaway, Cut
  <2> QED BY <1>4, <2>1 DEF ServerStep
<1> QED BY <1>5, <1>6, <1>7, <1>8

\* The application's calls end the sending half of a stream, or the stream.
LEMMA ApplicationStep ==
    ASSUME StreamTypes, NEW s \in HsStreams, Respond(s) \/ HsReset(s) \/ SendGoaway
    PROVE  ServerStep(s)
<1>1. last_peer \in 0..NStreams /\ NStreams \in Nat
  BY StreamsAssumption DEF StreamTypes
<1>2. CASE Respond(s)
  <2>1. PICK g \in ToClient : g = Frame("END_STREAM", s, TRUE)
    BY DEF ToClient, Frame
  <2>2. g.type = "END_STREAM"
    BY <2>1 DEF Frame
  <2>3. outbox' = Append(outbox, g) /\ UNCHANGED <<last_peer, goaway, log>>
    BY <1>2, <2>1 DEF Respond
  <2>4. Sent(s)
    BY <2>2, <2>3 DEF Sent
  <2>5. \/ table' = [table EXCEPT ![s] = "none"]
        \/ table[s] = "open" /\ table' = [table EXCEPT ![s] = "half_closed_local"]
    BY <1>2 DEF Respond, HsCloseStream
  <2> QED BY <1>1, <2>3, <2>4, <2>5 DEF Silent, ServerStep
<1>3. CASE HsReset(s)
  BY <1>1, <1>3, StreamErrorSilent DEF HsReset, ServerStep
<1>4. CASE SendGoaway
  <2>1. PICK g \in ToClient : g = Frame("GOAWAY", last_peer, FALSE)
    BY DEF StreamTypes, ToClient, Frame
  <2>2. g.type = "GOAWAY" /\ g.stream = last_peer
    BY <2>1 DEF Frame
  <2>3. outbox' = Append(outbox, g) /\ goaway' = TRUE /\ UNCHANGED <<table, last_peer, log>>
    BY <1>4, <2>1 DEF SendGoaway
  <2>4. Sent(s)
    BY <2>2, <2>3 DEF Sent
  <2> QED BY <1>1, <2>3, <2>4 DEF Silent, ServerStep
<1> QED BY <1>2, <1>3, <1>4

\* A step is the server's or the client's.
LEMMA StepKinds ==
    ASSUME StreamTypes, StreamTypes', [HsNext]_hsvars
    PROVE  \/ /\ \E s \in HsStreams : ServerStep(s)
              /\ UNCHANGED <<config, hspeer>>
              /\ inbox' = inbox \/ (inbox # <<>> /\ inbox' = Tail(inbox))
           \/ ClientGoaway \/ ClientReceive
           \/ \E s \in HsStreams, type \in {"HEADERS", "DATA", "TRAILERS", "RST_STREAM", "WINDOW_UPDATE"},
                 e \in BOOLEAN : ClientSend(type, s, e)
           \/ UNCHANGED hsvars
<1>1. 1 \in HsStreams
  BY StreamsAssumption DEF HsStreams
<1>2. CASE Receive
  <2>1. inbox # <<>> /\ inbox' = Tail(inbox) /\ UNCHANGED <<config, hspeer>>
    BY <1>2 DEF Receive
  <2>2. \E s \in HsStreams : ServerStep(s)
    BY <1>2, <2>1, HeadersStep, FramesStep DEF Receive
  <2> QED BY <2>1, <2>2
<1>3. CASE \E s \in HsStreams : Respond(s) \/ HsReset(s)
  BY <1>3, ApplicationStep DEF Respond, HsReset
<1>4. CASE SendGoaway
  BY <1>1, <1>4, ApplicationStep DEF SendGoaway
<1> QED BY <1>2, <1>3, <1>4 DEF HsNext

-----------------------------------------------------------------------------
(* Promises to the client *)

\* A frame appended to the outbox is the only new one.
LEMMA AppendOne ==
    ASSUME StreamTypes, NEW g \in ToClient, outbox' = Append(outbox, g)
    PROVE  \A i \in DOMAIN outbox' : (i \in DOMAIN outbox /\ outbox'[i] = outbox[i]) \/ outbox'[i] = g
BY DEF StreamTypes

\* What a server's step leaves of the promises: Unprocessed is only lost by the
\* stream that is accepted, which no promise covers.
LEMMA ServerRetry ==
    ASSUME StreamTypes, StreamTypes', RetryInv, NEW s \in HsStreams, ServerStep(s), UNCHANGED <<config, hspeer>>
    PROVE  RetryInv'
<1> USE StreamsAssumption
<1>1. last_peer \in Nat /\ last_peer' \in Nat /\ HsStreams \subseteq Nat
  BY DEF StreamTypes, HsStreams
<1>2. \A t \in hspeer.retry : t \in HsStreams
  BY DEF StreamTypes
<1>3. \A i \in DOMAIN outbox : outbox[i].type = "REFUSED_STREAM" => outbox[i].stream \in HsStreams
  BY SMTT(60) DEF StreamTypes, ToClient
<1>4. CASE Silent(s)
  <2>1. \A t \in HsStreams : Unprocessed(t)' <=> Unprocessed(t)
    BY <1>4 DEF Silent, Unprocessed
  <2>2. \A t \in HsStreams : Promised(t) => Promised(t)'
    <3>1. last_peer <= last_peer' /\ (goaway => goaway')
      BY <1>4 DEF Silent
    <3>2. \A t \in HsStreams : t <= last_peer => t <= last_peer'
      BY <1>1, <3>1
    <3> QED BY <2>1, <3>1, <3>2 DEF Promised
  <2>3. \A t \in HsStreams : HsLive(t)' => log'[t] # <<>>
    BY <1>4 DEF Silent, HsLive, RetryInv, StreamTypes
  <2>4. \A t \in HsStreams : t > last_peer' => Unprocessed(t)'
    BY <1>1, <1>4, <2>1 DEF Silent, RetryInv
  <2>5. \A t \in hspeer'.retry : Promised(t)'
    BY <1>2, <2>2 DEF RetryInv
  <2>6. \A g \in ToClient : Honest(g) => Honest(g)'
    <3> SUFFICES ASSUME NEW g \in ToClient, Honest(g) PROVE Honest(g)'
      OBVIOUS
    <3>1. g.type = "REFUSED_STREAM" => g.stream \in HsStreams
      BY DEF ToClient
    <3> QED BY <1>4, <2>1, <2>2, <3>1 DEF Honest, Silent
  <2>7. ASSUME NEW i \in DOMAIN outbox' PROVE Honest(outbox[i])'
    <3>1. CASE i \in DOMAIN outbox /\ outbox'[i] = outbox[i]
      <4>1. PICK g \in ToClient : g = outbox[i]
        BY <3>1 DEF StreamTypes
      <4>2. Honest(g)'
        BY <2>6, <3>1, <4>1 DEF RetryInv
      <4> QED BY <3>1, <4>1, <4>2 DEF Honest, Promised, Unprocessed
    <3>2. CASE ~(i \in DOMAIN outbox /\ outbox'[i] = outbox[i])
      <4>1. PICK g \in ToClient :
              /\ outbox' = Append(outbox, g)
              /\ g.type = "REFUSED_STREAM" => g.stream = s /\ s > last_peer /\ (goaway \/ s = last_peer')
              /\ g.type = "GOAWAY" => g.stream = last_peer /\ goaway'
        BY <1>4, <3>2 DEF Silent, Sent
      <4>2. g.type = "REFUSED_STREAM" => Unprocessed(g.stream)' /\ (goaway' \/ g.stream <= last_peer')
        BY <1>1, <1>4, <2>1, <4>1 DEF RetryInv, Silent
      <4>3. g.type = "GOAWAY" => goaway' /\ \A t \in HsStreams : t > g.stream => Unprocessed(t)'
        BY <2>1, <4>1 DEF RetryInv
      <4>4. outbox'[i] = g
        BY <3>2, <4>1, AppendOne
      <4> QED BY <4>2, <4>3, <4>4 DEF Honest, Promised, Unprocessed
    <3> QED BY <3>1, <3>2
  <2> QED BY <2>3, <2>4, <2>5, <2>7 DEF RetryInv
<1>5. CASE Accepted(s)
  <2>1. ~goaway /\ s > last_peer /\ last_peer' = s /\ goaway' = goaway /\ outbox' = outbox
    BY <1>5 DEF Accepted
  <2>2. \A t \in HsStreams \ {s} : log'[t] = log[t] /\ table'[t] = table[t]
    BY <1>5 DEF Accepted, StreamTypes
  <2>3. \A t \in HsStreams \ {s} : Unprocessed(t)' <=> Unprocessed(t)
    BY <2>2 DEF Unprocessed
  <2>4. \A t \in HsStreams : Promised(t) => Promised(t)'
    BY <1>1, <2>1, <2>3 DEF Promised
  <2>5. log'[s] # <<>>
    BY <1>5 DEF Accepted, StreamTypes
  <2>6. \A t \in HsStreams : HsLive(t)' => log'[t] # <<>>
    BY <2>2, <2>5 DEF RetryInv, HsLive
  <2>7. \A t \in HsStreams : t > last_peer' => Unprocessed(t)'
    BY <1>1, <2>1, <2>3 DEF RetryInv
  <2>8. \A t \in hspeer'.retry : Promised(t)'
    BY <1>2, <2>4 DEF RetryInv
  <2>9. \A i \in DOMAIN outbox' : Honest(outbox[i])'
    BY <1>3, <2>1, <2>4 DEF RetryInv, Honest
  <2> QED BY <2>6, <2>7, <2>8, <2>9 DEF RetryInv
<1>6. CASE Delivered(s) \/ \E S \in SUBSET HsStreams : Cut(S)
  <2>1. UNCHANGED <<last_peer, goaway, outbox>>
    BY <1>6 DEF Delivered, Cut
  <2>2. \A t \in HsStreams : /\ HsLive(t)' => HsLive(t)
                             /\ log'[t] = log[t] \/ (HsLive(t) /\ log'[t] # <<>>)
    <3>1. CASE Delivered(s)
      <4>1. \A t \in HsStreams \ {s} : table'[t] = table[t] /\ log'[t] = log[t]
        BY <3>1 DEF Delivered, StreamTypes
      <4>2. \E e \in Events : log'[s] = Append(log[s], e)
        <5>1. \E e \in {"data", "data_end", "trailers"} : log' = [log EXCEPT ![s] = Append(@, e)]
          BY <3>1 DEF Delivered
        <5> QED BY <5>1 DEF StreamTypes, Events
      <4>3. HsLive(s) /\ log'[s] # <<>>
        <5>1. log[s] \in Seq(Events)
          BY DEF StreamTypes
        <5>2. log'[s] # <<>>
          BY <4>2, <5>1
        <5> QED BY <3>1, <5>2 DEF Delivered
      <4> QED BY <4>1, <4>3 DEF HsLive
    <3>2. ASSUME NEW S \in SUBSET HsStreams, Cut(S)
          PROVE \A t \in HsStreams : /\ HsLive(t)' => HsLive(t)
                                     /\ log'[t] = log[t] \/ (HsLive(t) /\ log'[t] # <<>>)
      <4> SUFFICES ASSUME NEW t \in HsStreams
                   PROVE /\ HsLive(t)' => HsLive(t)
                         /\ log'[t] = log[t] \/ (HsLive(t) /\ log'[t] # <<>>)
        OBVIOUS
      <4>1. CASE t \in S
        <5>1. HsLive(t) /\ log'[t] = Append(log[t], "rst")
          BY <3>2, <4>1 DEF Cut
        <5>2. log[t] \in Seq(Events)
          BY DEF StreamTypes
        <5> QED BY <5>1, <5>2
      <4>2. CASE t \notin S
        BY <3>2, <4>2 DEF Cut, HsLive
      <4> QED BY <4>1, <4>2
    <3> QED BY <1>6, <3>1, <3>2
  <2>3. \A t \in HsStreams : /\ Unprocessed(t)' <=> Unprocessed(t)
                             /\ HsLive(t)' => log'[t] # <<>>
    BY <2>2 DEF RetryInv, Unprocessed
  <2>4. \A t \in HsStreams : Promised(t) => Promised(t)'
    BY <2>1, <2>3 DEF Promised
  <2>5. \A t \in HsStreams : t > last_peer' => Unprocessed(t)'
    BY <2>1, <2>3 DEF RetryInv
  <2>6. \A t \in hspeer'.retry : Promised(t)'
    BY <1>2, <2>4 DEF RetryInv
  <2>7. \A i \in DOMAIN outbox' : Honest(outbox[i])'
    BY <1>3, <2>1, <2>3, <2>4 DEF RetryInv, Honest
  <2> QED BY <2>3, <2>5, <2>6, <2>7 DEF RetryInv
<1> QED BY <1>4, <1>5, <1>6 DEF ServerStep

\* The client adds to its retries only what a frame promised it.
LEMMA RetryInductive ==
    /\ HsInit => RetryInv
    /\ StreamTypes /\ StreamTypes' /\ RetryInv /\ [HsNext]_hsvars => RetryInv'
<1>1. HsInit => RetryInv
  <2> SUFFICES ASSUME HsInit PROVE RetryInv
    OBVIOUS
  <2>1. \A s \in HsStreams : (HsLive(s) => log[s] # <<>>) /\ Unprocessed(s)
    BY DEF HsInit, HsLive, Unprocessed
  <2> QED BY <2>1 DEF HsInit, RetryInv
<1>2. ASSUME StreamTypes, StreamTypes', RetryInv, [HsNext]_hsvars PROVE RetryInv'
  <2>1. CASE (\E s \in HsStreams : ServerStep(s)) /\ UNCHANGED <<config, hspeer>>
    BY <1>2, <2>1, ServerRetry
  <2>2. CASE /\ UNCHANGED <<config, table, last_peer, goaway, outbox, log>>
             /\ hspeer'.retry = hspeer.retry
    BY <1>2, <2>2 DEF RetryInv, Honest, Promised, Unprocessed, HsLive
  <2>3. ClientGoaway => UNCHANGED <<config, table, last_peer, goaway, outbox, log>> /\ hspeer'.retry = hspeer.retry
    BY <1>2 DEF ClientGoaway, StreamTypes
  <2>4. ASSUME NEW s \in HsStreams, NEW type, NEW e, ClientSend(type, s, e)
        PROVE  UNCHANGED <<config, table, last_peer, goaway, outbox, log>> /\ hspeer'.retry = hspeer.retry
    BY <1>2, <2>4 DEF ClientSend, StreamTypes
  <2>5. CASE ClientReceive
    <3>0. PICK f : f = Head(outbox)
      OBVIOUS
    <3>1. outbox # <<>> /\ outbox' = Tail(outbox) /\ UNCHANGED <<config, table, last_peer, goaway, log>>
      BY <2>5 DEF ClientReceive
    <3>2. f \in ToClient /\ Honest(f)
      BY <1>2, <3>0, <3>1 DEF StreamTypes, RetryInv
    <3>3. \A i \in DOMAIN outbox' : i + 1 \in DOMAIN outbox /\ outbox'[i] = outbox[i + 1]
      BY <1>2, <3>1 DEF StreamTypes
    <3>4. \A g : Honest(g) <=> Honest(g)'
      BY <3>1 DEF Honest, Promised, Unprocessed
    <3>5. \A i \in DOMAIN outbox' : Honest(outbox[i])'
      <4> SUFFICES ASSUME NEW i \in DOMAIN outbox' PROVE Honest(outbox[i])'
        OBVIOUS
      <4>1. Honest(outbox[i + 1])
        BY <1>2, <3>3 DEF RetryInv
      <4> QED BY <3>1, <3>3, <4>1 DEF Honest, Promised, Unprocessed
    <3>6. \A s \in hspeer'.retry : Promised(s)'
      <4>1. \A s \in hspeer.retry : Promised(s)'
        BY <1>2, <3>1 DEF RetryInv, Promised, Unprocessed
      <4>2. CASE f.type = "GOAWAY"
        <5>1. \A s \in hspeer'.retry : s \in hspeer.retry \/ (s \in HsStreams /\ s > f.stream)
          BY <1>2, <2>5, <3>0, <4>2 DEF ClientReceive, StreamTypes
        <5>2. goaway /\ \A s \in HsStreams : s > f.stream => Unprocessed(s)
          BY <3>2, <4>2 DEF Honest
        <5>3. \A s \in HsStreams : s > f.stream => Promised(s)'
          BY <3>1, <5>2 DEF Promised, Unprocessed
        <5> QED BY <4>1, <5>1, <5>3
      <4>3. CASE f.type = "REFUSED_STREAM"
        <5>1. \A s \in hspeer'.retry : s \in hspeer.retry \/ s = f.stream
          BY <1>2, <2>5, <3>0, <4>3 DEF ClientReceive, StreamTypes
        <5>2. Promised(f.stream)'
          BY <3>1, <3>2, <4>3 DEF Honest, Promised, Unprocessed
        <5> QED BY <4>1, <5>1, <5>2
      <4>4. CASE f.type \in {"RST_STREAM", "END_STREAM"}
        <5>1. hspeer'.retry = hspeer.retry
          BY <1>2, <2>5, <3>0, <4>4 DEF ClientReceive, StreamTypes
        <5> QED BY <4>1, <5>1
      <4>5. f.type \in {"GOAWAY", "REFUSED_STREAM", "RST_STREAM", "END_STREAM"}
        BY <3>2 DEF ToClient
      <4> QED BY <4>2, <4>3, <4>4, <4>5
    <3>7. \A s \in HsStreams : /\ HsLive(s)' => log'[s] # <<>>
                               /\ s > last_peer' => Unprocessed(s)'
      BY <1>2, <3>1 DEF RetryInv, Unprocessed, HsLive
    <3> QED BY <3>5, <3>6, <3>7 DEF RetryInv
  <2>6. CASE UNCHANGED hsvars
    BY <2>2, <2>6 DEF hsvars
  <2> QED BY <1>2, <2>1, <2>2, <2>3, <2>4, <2>5, <2>6, StepKinds
<1> QED BY <1>1, <1>2

-----------------------------------------------------------------------------
(* The order of the events *)

\* Stream 1 of an Upgrade is not opened again by a conforming client: it is never
\* idle in the client's view.
LEMMA ReopenInductive ==
    /\ HsInit => ReopenInv
    /\ StreamTypes /\ StreamTypes' /\ ReopenInv /\ [HsNext]_hsvars => ReopenInv'
<1>0. 1 \in HsStreams
  BY StreamsAssumption DEF HsStreams
<1>1. HsInit => ReopenInv
  BY <1>0 DEF HsInit, ReopenInv
<1>2. ASSUME StreamTypes, StreamTypes', ReopenInv, [HsNext]_hsvars PROVE ReopenInv'
  <2> SUFFICES ASSUME config'.upgrade, config'.conforming
               PROVE  /\ hspeer'.state[1] # "idle"
                      /\ \A i \in DOMAIN inbox' : inbox'[i].stream = 1 => inbox'[i].type # "HEADERS"
    BY DEF ReopenInv
  <2>1. config' = config
    BY <1>2, StepKinds DEF ClientGoaway, ClientReceive, ClientSend, hsvars
  <2>2. /\ hspeer.state[1] # "idle"
        /\ \A i \in DOMAIN inbox : inbox[i].stream = 1 => inbox[i].type # "HEADERS"
    BY <1>2, <2>1 DEF ReopenInv
  <2>3. CASE UNCHANGED hspeer /\ inbox' = inbox
    BY <2>2, <2>3
  <2>4. CASE UNCHANGED hspeer /\ inbox # <<>> /\ inbox' = Tail(inbox)
    <3>1. \A i \in DOMAIN inbox' : i + 1 \in DOMAIN inbox /\ inbox'[i] = inbox[i + 1]
      BY <1>2, <2>4 DEF StreamTypes
    <3> QED BY <2>2, <2>4, <3>1
  <2>5. CASE ClientGoaway
    <3>1. hspeer'.state = hspeer.state
      BY <1>2, <2>5 DEF ClientGoaway, StreamTypes
    <3>2. \A i \in DOMAIN inbox' : (i \in DOMAIN inbox /\ inbox'[i] = inbox[i]) \/ inbox'[i] = Frame("GOAWAY", 0, FALSE)
      BY <1>2, <2>5 DEF ClientGoaway, StreamTypes, Frame
    <3> QED BY <2>2, <3>1, <3>2 DEF Frame
  <2>6. CASE ClientReceive
    <3>1. inbox' = inbox
      BY <2>6 DEF ClientReceive
    <3>2. PICK f : f = Head(outbox)
      OBVIOUS
    <3>3. f.type \in {"GOAWAY", "REFUSED_STREAM", "RST_STREAM", "END_STREAM"}
      <4>1. outbox # <<>> /\ outbox \in Seq(ToClient)
        BY <1>2, <2>6 DEF ClientReceive, StreamTypes
      <4>2. f \in ToClient
        BY <3>2, <4>1
      <4> QED BY <4>2 DEF ToClient
    <3>4. hspeer'.state[1] \in {"done", hspeer.state[1]}
      <4>1. CASE f.type = "GOAWAY"
        BY <1>0, <1>2, <2>6, <3>2, <4>1 DEF ClientReceive, StreamTypes
      <4>2. CASE f.type = "REFUSED_STREAM"
        BY <1>0, <1>2, <2>6, <3>2, <4>2 DEF ClientReceive, StreamTypes
      <4>3. CASE f.type = "RST_STREAM"
        BY <1>0, <1>2, <2>6, <3>2, <4>3 DEF ClientReceive, StreamTypes
      <4>4. CASE f.type = "END_STREAM"
        BY <1>0, <1>2, <2>6, <3>2, <4>4 DEF ClientReceive, StreamTypes
      <4> QED BY <3>3, <4>1, <4>2, <4>3, <4>4
    <3> QED BY <2>2, <3>1, <3>4
  <2>7. ASSUME NEW s \in HsStreams, NEW type \in {"HEADERS", "DATA", "TRAILERS", "RST_STREAM", "WINDOW_UPDATE"},
               NEW e \in BOOLEAN, ClientSend(type, s, e)
        PROVE  /\ hspeer'.state[1] # "idle"
               /\ \A i \in DOMAIN inbox' : inbox'[i].stream = 1 => inbox'[i].type # "HEADERS"
    <3>1. ClientMay(type, s, e)
      BY <2>1, <2>7 DEF ClientSend
    <3>2. hspeer' = [hspeer EXCEPT !.state[s] = ClientState(type, @, e)]
      BY <2>1, <2>7 DEF ClientSend
    <3>3. type = "HEADERS" => s # 1
      BY <2>2, <3>1 DEF ClientMay
    <3>4. hspeer'.state[1] # "idle"
      <4>1. hspeer.state[1] # "idle" => ClientState(type, hspeer.state[1], e) # "idle"
        BY DEF ClientState
      <4> QED BY <1>0, <1>2, <2>2, <3>2, <4>1 DEF StreamTypes
    <3>5. \A i \in DOMAIN inbox' : (i \in DOMAIN inbox /\ inbox'[i] = inbox[i]) \/ inbox'[i] = Frame(type, s, e)
      BY <1>2, <2>7 DEF ClientSend, StreamTypes
    <3> QED BY <2>2, <3>3, <3>4, <3>5 DEF Frame
  <2>8. CASE UNCHANGED hsvars
    BY <2>3, <2>8 DEF hsvars
  <2> QED BY <1>2, <2>3, <2>4, <2>5, <2>6, <2>7, <2>8, StepKinds
<1> QED BY <1>1, <1>2

\* One more event keeps a message in order: headers open it, nothing else does, and
\* data does not follow its end.
LEMMA InOrderAppend ==
    ASSUME NEW events \in Seq(Events), NEW e \in Events, InOrder(events),
           e \in Opens <=> events = <<>>,
           e \in {"data", "data_end"} => \A i \in DOMAIN events : events[i] \notin EndEvents
    PROVE  InOrder(Append(events, e))
<1> DEFINE more == Append(events, e)
<1>1. /\ DOMAIN more = 1..Len(events) + 1 /\ more[Len(events) + 1] = e
      /\ \A i \in 1..Len(events) : more[i] = events[i]
      /\ DOMAIN events = 1..Len(events) /\ Len(events) \in Nat
  OBVIOUS
<1>2. ASSUME NEW i \in 1..Len(events)
      PROVE  /\ (more[i] \in Opens) <=> (i = 1)
             /\ more[i] \in {"data", "data_end"} => \A j \in 1..i - 1 : more[j] \notin EndEvents
  <2>1. \A j \in 1..i : more[j] = events[j]
    BY <1>1
  <2>2. /\ (events[i] \in Opens) <=> (i = 1)
        /\ events[i] \in {"data", "data_end"} => \A j \in 1..i - 1 : events[j] \notin EndEvents
    BY <1>1 DEF InOrder
  <2> HIDE DEF more
  <2> QED BY <1>1, <2>1, <2>2
<1>3. (e \in Opens) <=> (Len(events) + 1 = 1)
  BY <1>1
<1>4. e \in {"data", "data_end"} => \A j \in 1..Len(events) : more[j] \notin EndEvents
  BY <1>1
<1> HIDE DEF more
<1>5. InOrder(more)
  <2> SUFFICES ASSUME NEW i \in 1..Len(events) + 1
               PROVE  /\ (more[i] \in Opens) <=> (i = 1)
                      /\ more[i] \in {"data", "data_end"} => \A j \in 1..i - 1 : more[j] \notin EndEvents
    BY <1>1 DEF InOrder
  <2>1. CASE i \in 1..Len(events)
    BY <1>2, <2>1
  <2>2. CASE i = Len(events) + 1
    BY <1>1, <1>3, <1>4, <2>2
  <2> QED BY <1>1, <2>1, <2>2
<1> QED BY <1>5 DEF more

\* Every stream's events stay in order.
LEMMA OrderInductive ==
    /\ HsInit => OrderInv
    /\ StreamTypes /\ StreamTypes' /\ RetryInv /\ ReopenInv /\ OrderInv /\ [HsNext]_hsvars => OrderInv'
<1>1. HsInit => OrderInv
  BY DEF HsInit, OrderInv, InOrder, CanRecv, Opens, EndEvents
<1>2. ASSUME StreamTypes, StreamTypes', RetryInv, ReopenInv, OrderInv, [HsNext]_hsvars PROVE OrderInv'
  <2>1. config' = config
    BY <1>2, StepKinds DEF ClientGoaway, ClientReceive, ClientSend, hsvars
  <2>2. CASE UNCHANGED <<table, log>>
    BY <1>2, <2>1, <2>2 DEF OrderInv, CanRecv, Reopened
  <2>3. ASSUME NEW s \in HsStreams, ServerStep(s) PROVE OrderInv'
    <3> SUFFICES ASSUME NEW t \in HsStreams \ Reopened
                 PROVE  /\ InOrder(log'[t])
                        /\ CanRecv(t)' => \A i \in DOMAIN log'[t] : log'[t][i] \notin EndEvents
      BY <2>1 DEF OrderInv, InOrder, Reopened
    <3>1. /\ log[t] \in Seq(Events) /\ InOrder(log[t])
          /\ CanRecv(t) => \A i \in DOMAIN log[t] : log[t][i] \notin EndEvents
      BY <1>2 DEF StreamTypes, OrderInv
    <3>2. CASE log'[t] = log[t] /\ (CanRecv(t)' => CanRecv(t))
      BY <3>1, <3>2
    <3>3. CASE Silent(s)
      <4>1. CanRecv(t)' => CanRecv(t)
        BY <1>2, <3>3 DEF Silent, CanRecv, StreamTypes
      <4> QED BY <3>2, <3>3, <4>1 DEF Silent
    <3>4. CASE Accepted(s)
      <4>1. CASE t # s
        BY <1>2, <3>2, <3>4, <4>1 DEF Accepted, CanRecv, StreamTypes
      <4>2. CASE t = s
        <5>1. log[t] = <<>>
          <6>1. Unprocessed(t)
            BY <1>2, <3>4, <4>2 DEF Accepted, RetryInv
          <6>2. ~(config.upgrade /\ t = 1)
            <7>1. inbox # <<>> => Head(inbox) = inbox[1] /\ 1 \in DOMAIN inbox
              BY <1>2 DEF StreamTypes
            <7>2. Head(inbox).type = "HEADERS" /\ Head(inbox).stream = t /\ inbox # <<>>
              BY <3>4, <4>2 DEF Accepted
            <7>3. ~(config.upgrade /\ config.conforming /\ t = 1)
              BY <1>2, <7>1, <7>2 DEF ReopenInv
            <7> QED BY <7>3 DEF Reopened
          <6> QED BY <6>1, <6>2 DEF Unprocessed
        <5>2. \E e \in Opens : /\ log'[t] = Append(log[t], e)
                               /\ CanRecv(t)' => e = "headers"
          BY <1>2, <3>4, <4>2 DEF Accepted, Opens, CanRecv, StreamTypes
        <5>3. PICK e \in Opens : log'[t] = <<e>> /\ (CanRecv(t)' => e = "headers")
          BY <5>1, <5>2
        <5>4. DOMAIN log'[t] = {1} /\ log'[t][1] = e
          BY <5>3
        <5>5. InOrder(log'[t])
          BY <5>4 DEF InOrder, Opens
        <5>6. CanRecv(t)' => \A i \in DOMAIN log'[t] : log'[t][i] \notin EndEvents
          BY <5>3, <5>4 DEF EndEvents
        <5> QED BY <5>5, <5>6
      <4> QED BY <4>1, <4>2
    <3>5. CASE Delivered(s)
      <4>1. CASE t # s
        BY <1>2, <3>2, <3>5, <4>1 DEF Delivered, CanRecv, StreamTypes
      <4>2. CASE t = s
        <5>1. log[t] # <<>>
          BY <1>2, <3>5, <4>2 DEF Delivered, RetryInv
        <5>2. \E e \in {"data", "data_end", "trailers"} :
                 /\ log'[t] = Append(log[t], e)
                 /\ e # "trailers" => CanRecv(t)
                 /\ CanRecv(t)' => e = "data"
          <6>1. CASE CanRecv(s) /\ table' = table /\ log' = [log EXCEPT ![s] = Append(@, "data")]
            BY <1>2, <4>2, <6>1 DEF StreamTypes
          <6>2. CASE /\ \E e \in {"data_end", "trailers"} :
                           /\ e = "data_end" => CanRecv(s)
                           /\ log' = [log EXCEPT ![s] = Append(@, e)]
                     /\ \E st \in {"none", "half_closed_remote"} : table' = [table EXCEPT ![s] = st]
            <7>1. ~CanRecv(t)'
              BY <1>2, <4>2, <6>2 DEF StreamTypes, CanRecv
            <7> QED BY <1>2, <4>2, <6>2, <7>1 DEF StreamTypes
          <6> QED BY <3>5, <6>1, <6>2 DEF Delivered
        <5>3. PICK e \in {"data", "data_end", "trailers"} :
                 /\ log'[t] = Append(log[t], e)
                 /\ e # "trailers" => CanRecv(t)
                 /\ CanRecv(t)' => e = "data"
          BY <5>2
        <5>4. InOrder(log'[t])
          BY <3>1, <5>1, <5>3, InOrderAppend DEF Events, Opens
        <5>5. ASSUME CanRecv(t)' PROVE \A i \in DOMAIN log'[t] : log'[t][i] \notin EndEvents
          <6>1. e = "data" /\ e \notin EndEvents /\ CanRecv(t)
            BY <5>3, <5>5 DEF EndEvents
          <6>2. \A i \in DOMAIN log'[t] : (i \in DOMAIN log[t] /\ log'[t][i] = log[t][i]) \/ log'[t][i] = e
            BY <3>1, <5>3
          <6> QED BY <3>1, <6>1, <6>2
        <5> QED BY <5>4, <5>5
      <4> QED BY <4>1, <4>2
    <3>6. ASSUME NEW S \in SUBSET HsStreams, Cut(S)
          PROVE  /\ InOrder(log'[t])
                 /\ CanRecv(t)' => \A i \in DOMAIN log'[t] : log'[t][i] \notin EndEvents
      <4>1. CASE t \notin S
        BY <1>2, <3>2, <3>6, <4>1 DEF Cut, CanRecv
      <4>2. CASE t \in S
        <5>1. log'[t] = Append(log[t], "rst") /\ ~CanRecv(t)'
          BY <3>6, <4>2 DEF Cut, CanRecv
        <5>2. log[t] # <<>>
          BY <1>2, <3>6, <4>2 DEF Cut, RetryInv
        <5> QED BY <3>1, <5>1, <5>2, InOrderAppend DEF Events, Opens
      <4> QED BY <4>1, <4>2
    <3> QED BY <2>3, <3>3, <3>4, <3>5, <3>6 DEF ServerStep
  <2>4. ClientGoaway \/ ClientReceive \/ (\E s, type, e : ClientSend(type, s, e)) \/ UNCHANGED hsvars
            => UNCHANGED <<table, log>>
    BY DEF ClientGoaway, ClientReceive, ClientSend, hsvars
  <2> QED BY <1>2, <2>2, <2>3, <2>4, StepKinds
<1> QED BY <1>1, <1>2

-----------------------------------------------------------------------------
(* The limit on concurrent streams *)

\* A stream is only added while there is room, and the others never add one.
LEMMA ConcurrencyInductive ==
    /\ HsInit /\ StreamTypes => ConcurrencyBounded
    /\ StreamTypes /\ StreamTypes' /\ ConcurrencyBounded /\ [HsNext]_hsvars => ConcurrencyBounded'
<1> DEFINE Living == {s \in HsStreams : HsLive(s)}
<1>0. IsFiniteSet(HsStreams)
  BY StreamsAssumption, FS_Interval DEF HsStreams
<1>1. ASSUME HsInit, StreamTypes PROVE ConcurrencyBounded
  <2>1. Living \subseteq {1}
    BY <1>1 DEF HsInit, HsLive
  <2>2. IsFiniteSet({1}) /\ Cardinality({1}) = 1
    BY FS_Singleton
  <2>3. Cardinality(Living) <= 1 /\ Cardinality(Living) \in Nat
    BY <2>1, <2>2, FS_Subset, FS_CardinalityType
  <2>4. config.max_concurrent \in Nat \ {0}
    BY <1>1 DEF StreamTypes
  <2> QED BY <2>3, <2>4 DEF ConcurrencyBounded
<1>2. ASSUME StreamTypes, StreamTypes', ConcurrencyBounded, [HsNext]_hsvars PROVE ConcurrencyBounded'
  <2>1. config' = config /\ config.max_concurrent \in Nat
    BY <1>2, StepKinds DEF ClientGoaway, ClientReceive, ClientSend, hsvars, StreamTypes
  <2>2. IsFiniteSet(Living) /\ IsFiniteSet(Living') /\ Cardinality(Living) \in Nat /\ Cardinality(Living') \in Nat
    BY <1>0, FS_Subset, FS_CardinalityType
  <2>3. CASE Living' \subseteq Living
    <3>1. Cardinality(Living') <= Cardinality(Living)
      BY <2>2, <2>3, FS_Subset
    <3> QED BY <1>2, <2>1, <2>2, <3>1 DEF ConcurrencyBounded
  <2>4. ASSUME NEW s \in HsStreams, ServerStep(s) PROVE ConcurrencyBounded'
    <3>1. CASE Silent(s)
      <4>1. \A t \in HsStreams : HsLive(t)' => HsLive(t)
        BY <1>2, <3>1 DEF Silent, HsLive, StreamTypes
      <4> QED BY <2>3, <4>1
    <3>2. CASE Accepted(s)
      <4>1. Living' \subseteq Living \cup {s}
        BY <1>2, <3>2 DEF Accepted, HsLive, StreamTypes
      <4>2. s \notin Living /\ ~(Cardinality(Living) >= config.max_concurrent)
        BY <3>2 DEF Accepted, TooMany
      <4>3. IsFiniteSet(Living \cup {s}) /\ Cardinality(Living \cup {s}) = Cardinality(Living) + 1
        BY <2>2, <4>2, FS_AddElement
      <4>4. Cardinality(Living') <= Cardinality(Living) + 1
        BY <4>1, <4>3, FS_Subset
      <4>5. Cardinality(Living') <= config.max_concurrent
        BY <2>1, <2>2, <4>2, <4>4
      <4> QED BY <2>1, <4>5 DEF ConcurrencyBounded
    <3>3. CASE Delivered(s)
      <4>1. \A t \in HsStreams : HsLive(t)' => HsLive(t)
        BY <1>2, <3>3 DEF Delivered, HsLive, StreamTypes
      <4> QED BY <2>3, <4>1
    <3>4. CASE \E S \in SUBSET HsStreams : Cut(S)
      <4>1. \A t \in HsStreams : HsLive(t)' => HsLive(t)
        BY <3>4 DEF Cut, HsLive
      <4> QED BY <2>3, <4>1
    <3> QED BY <2>4, <3>1, <3>2, <3>3, <3>4 DEF ServerStep
  <2>5. ClientGoaway \/ ClientReceive \/ (\E s, type, e : ClientSend(type, s, e)) \/ UNCHANGED hsvars
            => table' = table
    BY DEF ClientGoaway, ClientReceive, ClientSend, hsvars
  <2>6. table' = table => Living' \subseteq Living
    BY DEF HsLive
  <2> QED BY <1>2, <2>3, <2>4, <2>5, <2>6, StepKinds
<1> QED BY <1>1, <1>2

-----------------------------------------------------------------------------
(* Theorems *)

\* The inductive invariant of a server connection's streams.
StreamInv == StreamTypes /\ RetryInv /\ ReopenInv /\ OrderInv /\ ConcurrencyBounded

\* For every number of streams, every configuration and every client.
LEMMA StreamInvHolds == HsSpec => []StreamInv
<1>1. HsInit => StreamInv
  BY TypesInductive, RetryInductive, ReopenInductive, OrderInductive, ConcurrencyInductive DEF StreamInv
<1>2. StreamInv /\ [HsNext]_hsvars => StreamInv'
  BY TypesInductive, RetryInductive, ReopenInductive, OrderInductive, ConcurrencyInductive DEF StreamInv
<1> QED BY <1>1, <1>2, PTL DEF HsSpec

\* finish_header_block() and conn_error() keep the promise of RFC 9113 section 6.8: a
\* request the client may send again, because its stream was refused or is above the
\* id of a GOAWAY, was never given to the application (the request of an h2c Upgrade
\* set aside).  The promises under way and those a later GOAWAY will make are part of
\* the invariant.
THEOREM RetriesAreSafe == HsSpec => []SafeRetry
<1>1. StreamInv => SafeRetry
  BY DEF StreamInv, RetryInv, Promised, Unprocessed, SafeRetry, Processed
<1> QED BY <1>1, StreamInvHolds, PTL

\* The streams of a server connection, whatever the client sends: the records are well
\* formed and the ring of closed ids is within its capacity, the live streams never
\* exceed SETTINGS_MAX_CONCURRENT_STREAMS, and the application is given one message per
\* stream, its headers first and no body after its end.
THEOREM StreamsStayInOrder == HsSpec => []StreamsInOrder
<1>1. StreamTypes => HsTypeOK
  BY DEF StreamTypes, HsTypeOK, StreamStates
<1>2. OrderInv => MessageOrder
  BY DEF OrderInv, InOrder, MessageOrder
<1>3. StreamInv => SafeRetry
  BY DEF StreamInv, RetryInv, Promised, Unprocessed, SafeRetry, Processed
<1>4. StreamInv => StreamsInOrder
  BY <1>1, <1>2, <1>3 DEF StreamInv, StreamsInOrder
<1> QED BY <1>4, StreamInvHolds, PTL


-----------------------------------------------------------------------------

Bucket == [non_incremental : Seq(Streams), incremental : Seq(Streams), deficit : 0..Quantum]
Buckets == [Urgencies -> Bucket]

\* d[i] is what the chunks after the i-th hold, n is what all of them hold.
Holds(q, n) ==
  \E d \in [0..Len(q) -> 0..n] :
    /\ d[0] = n /\ d[Len(q)] = 0
    /\ \A i \in 1..Len(q) : d[i - 1] = d[i] + q[i].len
    /\ \A i, j \in 0..Len(q) : i <= j => d[j] <= d[i]

BodyTypes ==
  /\ state \in [Streams -> {"none", "open", "half_closed_remote", "half_closed_local", "closed"}]
  /\ send_window \in [Streams -> Int] /\ buffered \in [Streams -> Nat]
  /\ send_done \in SUBSET Streams /\ priority \in [Streams -> Priorities] /\ queue \in [Streams -> Seq(Chunk)]

LinkTypes ==
  /\ conn_window \in Int /\ peer \in [init : InitWindows, frame : FrameSizes]
  /\ closed \in BOOLEAN /\ budget \in 0..FlushFrames /\ served \in Streams \cup {None}

\* send_buffered is the sum of the chunks queued, and only a stream that may send has any.
Buffering ==
  \A s \in Streams : /\ Holds(queue[s], buffered[s])
                     /\ state[s] \notin {"open", "half_closed_remote"} => queue[s] = <<>>

\* A scheduler state: what is marked as scheduled has an entry.
SchedOK(sch) ==
  /\ sch.buckets \in Buckets /\ sch.scheduled \in SUBSET Streams
  /\ \A s \in sch.scheduled : Tracked(sch.buckets, s)

\* BodyIsScheduled, with the state of the stream as parameters.
Sendable(st, q, w, cw) ==
  /\ st \in {"open", "half_closed_remote", "half_closed_local"}
  /\ \E i \in DOMAIN q : q[i].len > 0
  /\ w > 0 /\ cw > 0
Woken == \A s \in Streams : Sendable(state[s], queue[s], send_window[s], conn_window) => Tracked(buckets, s)

SendInv == BodyTypes /\ LinkTypes /\ Buffering /\ SchedOK(Sched) /\ Woken

LEMMA LeastNatural ==
    ASSUME NEW S \in SUBSET Nat, S # {}
    PROVE  Min(S) \in S
<1> DEFINE Below == {ss \in Nat \X Nat : ss[1] < ss[2]}
<1>1. IsWellFoundedOn(Below, Nat)
  BY NatLessThanWellFounded DEF OpToRel
<1>2. \A x, y \in Nat : <<y, x>> \notin Below => x <= y
  OBVIOUS
<1> HIDE DEF Below
<1>3. \E x \in S : \A y \in S : ~(<<y, x>> \in Below)
  BY <1>1, WFMin
<1>4. \E x \in S : \A y \in S : x <= y
  BY <1>2, <1>3
<1> QED BY <1>4 DEF Min

LEMMA AppendElements ==
    ASSUME NEW S, NEW q \in Seq(S), NEW e \in S
    PROVE  /\ Append(q, e) \in Seq(S) /\ e \in ToSet(Append(q, e))
           /\ \A x \in ToSet(q) : x \in ToSet(Append(q, e))
<1>1. Append(q, e) \in Seq(S)
  OBVIOUS
<1>2. Append(q, e)[Len(q) + 1] = e /\ Len(q) + 1 \in DOMAIN Append(q, e)
  OBVIOUS
<1>3. \A i \in DOMAIN q : i \in DOMAIN Append(q, e) /\ Append(q, e)[i] = q[i]
  OBVIOUS
<1> QED BY <1>1, <1>2, <1>3 DEF ToSet

LEMMA TailElements ==
    ASSUME NEW S, NEW q \in Seq(S), q # <<>>
    PROVE  /\ Head(q) \in S /\ Tail(q) \in Seq(S)
           /\ \A x \in ToSet(q) : x = Head(q) \/ x \in ToSet(Tail(q))
<1>1. Head(q) \in S /\ Tail(q) \in Seq(S) /\ Head(q) = q[1]
  OBVIOUS
<1>2. \A i \in DOMAIN q : i # 1 => i - 1 \in DOMAIN Tail(q) /\ Tail(q)[i - 1] = q[i]
  OBVIOUS
<1> QED BY <1>1, <1>2 DEF ToSet

LEMMA ConcatElements ==
    ASSUME NEW S, NEW p \in Seq(S), NEW q \in Seq(S)
    PROVE  /\ p \o q \in Seq(S)
           /\ \A x \in ToSet(p) : x \in ToSet(p \o q)
           /\ \A x \in ToSet(q) : x \in ToSet(p \o q)
<1>1. p \o q \in Seq(S) /\ Len(p \o q) = Len(p) + Len(q)
  OBVIOUS
<1>2. \A i \in DOMAIN p : i \in DOMAIN (p \o q) /\ (p \o q)[i] = p[i]
  OBVIOUS
<1>3. \A i \in DOMAIN q : Len(p) + i \in DOMAIN (p \o q) /\ (p \o q)[Len(p) + i] = q[i]
  OBVIOUS
<1> QED BY <1>1, <1>2, <1>3 DEF ToSet

LEMMA RemoveFirstElements ==
    ASSUME NEW S, NEW q \in Seq(S), NEW e \in ToSet(q)
    PROVE  /\ RemoveFirst(q, e) \in Seq(S)
           /\ \A x \in ToSet(q) : x # e => x \in ToSet(RemoveFirst(q, e))
<1>1. \E i \in 1..Len(q) : q[i] = e
  BY DEF ToSet
<1> DEFINE I == {i \in 1..Len(q) : q[i] = e}
<1>2. I \in SUBSET Nat /\ I # {}
  BY <1>1
<1>3. Min(I) \in I
  <2> HIDE DEF I
  <2> QED BY <1>2, LeastNatural
<1>4. PICK k \in 1..Len(q) : k = Min(I) /\ q[k] = e
  BY <1>3
<1>5. RemoveFirst(q, e) = SubSeq(q, 1, k - 1) \o SubSeq(q, k + 1, Len(q))
  BY <1>1, <1>2, <1>4 DEF RemoveFirst, RemoveAt, SelectInSeq
<1> DEFINE a == SubSeq(q, 1, k - 1)
           b == SubSeq(q, k + 1, Len(q))
<1>6. /\ a \in Seq(S) /\ Len(a) = k - 1 /\ \A i \in 1..(k - 1) : a[i] = q[i]
      /\ b \in Seq(S) /\ Len(b) = Len(q) - k /\ \A i \in 1..(Len(q) - k) : b[i] = q[k + i]
  <2>1. k \in Nat /\ k >= 1 /\ k <= Len(q) /\ Len(q) \in Nat
    BY <1>4
  <2>2. a \in Seq(S) /\ Len(a) = k - 1 /\ \A i \in 1..(k - 1) : a[i] = q[i]
    BY <2>1
  <2>3. b \in Seq(S) /\ Len(b) = Len(q) - k
    BY <2>1
  <2>4. \A i \in 1..(Len(q) - k) : b[i] = q[k + i]
    BY <2>1
  <2> QED BY <2>2, <2>3, <2>4
<1> HIDE DEF a, b
<1>7. a \o b \in Seq(S) /\ (\A x \in ToSet(a) : x \in ToSet(a \o b)) /\ (\A x \in ToSet(b) : x \in ToSet(a \o b))
  BY <1>6, ConcatElements
<1>8. ASSUME NEW x \in ToSet(q), x # e PROVE x \in ToSet(a) \/ x \in ToSet(b)
  <2>1. PICK i \in 1..Len(q) : q[i] = x
    BY DEF ToSet
  <2>2. i # k
    BY <1>4, <1>8, <2>1
  <2>3. CASE i < k
    <3>1. i \in DOMAIN a /\ a[i] = x
      BY <1>6, <2>1, <2>3
    <3> QED BY <3>1 DEF ToSet
  <2>4. CASE i > k
    <3>1. i - k \in DOMAIN b /\ b[i - k] = x
      BY <1>6, <2>1, <2>4
    <3> QED BY <3>1 DEF ToSet
  <2> QED BY <2>2, <2>3, <2>4
<1>9. RemoveFirst(q, e) = a \o b
  BY <1>5 DEF a, b
<1> QED BY <1>7, <1>8, <1>9

LEMMA BucketTypes ==
    ASSUME NEW b \in Buckets, NEW u \in Urgencies
    PROVE  /\ b[u] \in Bucket /\ b[u].non_incremental \in Seq(Streams) /\ b[u].incremental \in Seq(Streams)
           /\ b[u].deficit \in 0..Quantum
BY DEF Buckets, Bucket

\* One bucket is replaced: what it still holds stays tracked, and so do the others.
LEMMA OneBucket ==
    ASSUME NEW b \in Buckets, NEW u \in Urgencies, NEW r \in Bucket, NEW c, c = [b EXCEPT ![u] = r]
    PROVE  /\ c \in Buckets
           /\ \A t : t \in ToSet(r.non_incremental) \/ t \in ToSet(r.incremental) => Tracked(c, t)
           /\ \A t : /\ Tracked(b, t)
                     /\ t \in ToSet(b[u].non_incremental) => t \in ToSet(r.non_incremental)
                     /\ t \in ToSet(b[u].incremental) => t \in ToSet(r.incremental)
                     => Tracked(c, t)
<1>1. c \in Buckets /\ c[u] = r /\ \A v \in Urgencies : v # u => c[v] = b[v]
  BY DEF Buckets
<1> QED BY <1>1 DEF Tracked

LEMMA AddTracks ==
    ASSUME NEW b \in Buckets, NEW s \in Streams, NEW p \in Priority
    PROVE  /\ Add(b, s, p) \in Buckets /\ Tracked(Add(b, s, p), s)
           /\ \A t : Tracked(b, t) => Tracked(Add(b, s, p), t)
<1>1. PICK u \in Urgencies : u = p.urgency
  BY DEF Priority
<1>2. PICK x \in Bucket : x = b[u]
  BY BucketTypes
<1>3. x.non_incremental \in Seq(Streams) /\ x.incremental \in Seq(Streams) /\ x.deficit \in 0..Quantum
  BY DEF Bucket
<1>4. CASE p.incremental
  <2>1. PICK q \in Seq(Streams) : /\ q = Append(x.incremental, s) /\ s \in ToSet(q)
                                  /\ \A y \in ToSet(x.incremental) : y \in ToSet(q)
    BY <1>3, AppendElements
  <2>2. PICK r : r = [x EXCEPT !.incremental = q]
    OBVIOUS
  <2>3. r \in Bucket /\ r.incremental = q /\ r.non_incremental = x.non_incremental
    BY <2>2 DEF Bucket
  <2>4. Add(b, s, p) = [b EXCEPT ![u] = r]
    BY <1>1, <1>2, <1>4, <2>1, <2>2 DEF Add
  <2>5. \A t : /\ t \in ToSet(b[u].non_incremental) => t \in ToSet(r.non_incremental)
               /\ t \in ToSet(b[u].incremental) => t \in ToSet(r.incremental)
    BY <1>2, <2>1, <2>3
  <2> QED BY <2>1, <2>3, <2>4, <2>5, OneBucket
<1>5. CASE ~p.incremental
  <2>1. PICK q \in Seq(Streams) : /\ q = Append(x.non_incremental, s) /\ s \in ToSet(q)
                                  /\ \A y \in ToSet(x.non_incremental) : y \in ToSet(q)
    BY <1>3, AppendElements
  <2>2. PICK r : r = [x EXCEPT !.non_incremental = q]
    OBVIOUS
  <2>3. r \in Bucket /\ r.non_incremental = q /\ r.incremental = x.incremental
    BY <2>2 DEF Bucket
  <2>4. Add(b, s, p) = [b EXCEPT ![u] = r]
    BY <1>1, <1>2, <1>5, <2>1, <2>2 DEF Add
  <2> QED BY <1>2, <2>1, <2>3, <2>4, OneBucket
<1> QED BY <1>4, <1>5

\* remove() takes one entry of its stream and leaves every other stream where it is.
LEMMA RemoveKeeps ==
    ASSUME NEW b \in Buckets, NEW s
    PROVE  /\ RemoveStream(b, s) \in Buckets
           /\ \A t : t # s /\ Tracked(b, t) => Tracked(RemoveStream(b, s), t)
<1>1. CASE ~Tracked(b, s)
  BY <1>1 DEF RemoveStream
<1>2. CASE Tracked(b, s)
  <2> DEFINE U == {v \in Urgencies : s \in ToSet(b[v].non_incremental) \cup ToSet(b[v].incremental)}
  <2>1. U # {} /\ U \in SUBSET Nat
    BY <1>2, SchedulerAssumption DEF Tracked
  <2>2. Min(U) \in U
    <3> HIDE DEF U
    <3> QED BY <2>1, LeastNatural
  <2>3. PICK u \in Urgencies : u = Min(U) /\ s \in ToSet(b[u].non_incremental) \cup ToSet(b[u].incremental)
    BY <2>2
  <2>4. PICK x \in Bucket : x = b[u]
    BY BucketTypes
  <2>5. x.non_incremental \in Seq(Streams) /\ x.incremental \in Seq(Streams) /\ x.deficit \in 0..Quantum
    BY DEF Bucket
  <2>6. RemoveStream(b, s) = IF s \in ToSet(b[u].non_incremental)
                             THEN [b EXCEPT ![u].non_incremental = RemoveFirst(@, s)]
                             ELSE [b EXCEPT ![u].incremental = RemoveFirst(@, s)]
    BY <1>2, <2>3 DEF RemoveStream
  <2> HIDE DEF U
  <2>7. CASE s \in ToSet(x.non_incremental)
    <3>1. PICK q \in Seq(Streams) : /\ q = RemoveFirst(x.non_incremental, s)
                                    /\ \A y \in ToSet(x.non_incremental) : y # s => y \in ToSet(q)
      BY <2>5, <2>7, RemoveFirstElements
    <3>2. PICK r : r = [x EXCEPT !.non_incremental = q]
      OBVIOUS
    <3>3. r \in Bucket /\ r.non_incremental = q /\ r.incremental = x.incremental
      BY <3>2 DEF Bucket
    <3>4. RemoveStream(b, s) = [b EXCEPT ![u] = r]
      BY <2>4, <2>6, <2>7, <3>1, <3>2
    <3> QED BY <2>4, <3>1, <3>3, <3>4, OneBucket
  <2>8. CASE s \notin ToSet(x.non_incremental)
    <3>1. PICK q \in Seq(Streams) : /\ q = RemoveFirst(x.incremental, s)
                                    /\ \A y \in ToSet(x.incremental) : y # s => y \in ToSet(q)
      BY <2>3, <2>4, <2>5, <2>8, RemoveFirstElements
    <3>2. PICK r : r = [x EXCEPT !.incremental = q]
      OBVIOUS
    <3>3. r \in Bucket /\ r.incremental = q /\ r.non_incremental = x.non_incremental
      BY <3>2 DEF Bucket
    <3>4. RemoveStream(b, s) = [b EXCEPT ![u] = r]
      BY <2>4, <2>6, <2>8, <3>1, <3>2
    <3> QED BY <2>4, <3>1, <3>3, <3>4, OneBucket
  <2> QED BY <2>7, <2>8
<1> QED BY <1>1, <1>2

\* A pick is a stream or None, loses at most entries of that stream, and never
\* charges a bucket over its quantum.
Picks(b, pick) ==
  /\ pick.sid \in Streams \cup {None} /\ pick.buckets \in Buckets
  /\ \A t : t # pick.sid /\ Tracked(b, t) => Tracked(pick.buckets, t)

LEMMA ServePicks ==
    ASSUME NEW b \in Buckets, NEW want \in Nat, Servable(b, want) # {}
    PROVE  Picks(b, Serve(b, want)) /\ Serve(b, want).sid \in Streams
<1>1. Servable(b, want) \in SUBSET Nat
  BY SchedulerAssumption DEF Servable
<1>2. Min(Servable(b, want)) \in Servable(b, want)
  BY <1>1, LeastNatural
<1>3. PICK u \in Urgencies : u = Min(Servable(b, want))
                              /\ (b[u].incremental # <<>> \/ (b[u].non_incremental # <<>> /\ b[u].deficit + want <= Quantum))
  BY <1>2 DEF Servable
<1>4. PICK x \in Bucket : x = b[u]
  BY BucketTypes
<1>5. x.non_incremental \in Seq(Streams) /\ x.incremental \in Seq(Streams) /\ x.deficit \in 0..Quantum
  BY DEF Bucket
<1>6. Serve(b, want) = IF b[u].incremental # <<>>
        THEN [sid |-> Head(b[u].incremental),
              buckets |-> [b EXCEPT ![u].incremental = Append(Tail(@), Head(@))]]
        ELSE [sid |-> Head(b[u].non_incremental),
              buckets |-> [b EXCEPT ![u].non_incremental = Tail(@), ![u].deficit = @ + want]]
  BY <1>3 DEF Serve
<1>7. CASE x.incremental # <<>>
  <2>1. PICK h \in Streams : h = Head(x.incremental)
    BY <1>5, <1>7, TailElements
  <2>2. PICK q \in Seq(Streams) : q = Append(Tail(x.incremental), h) /\ \A y \in ToSet(x.incremental) : y # h => y \in ToSet(q)
    <3>1. Tail(x.incremental) \in Seq(Streams) /\ \A y \in ToSet(x.incremental) : y = h \/ y \in ToSet(Tail(x.incremental))
      BY <1>5, <1>7, <2>1, TailElements
    <3>2. /\ Append(Tail(x.incremental), h) \in Seq(Streams)
          /\ \A y \in ToSet(Tail(x.incremental)) : y \in ToSet(Append(Tail(x.incremental), h))
      BY <3>1, AppendElements
    <3> QED BY <3>1, <3>2
  <2>3. PICK r : r = [x EXCEPT !.incremental = q]
    OBVIOUS
  <2>4. r \in Bucket /\ r.incremental = q /\ r.non_incremental = x.non_incremental
    BY <2>3 DEF Bucket
  <2>5. PICK c : c = [b EXCEPT ![u] = r]
    OBVIOUS
  <2>6. Serve(b, want) = [sid |-> h, buckets |-> c]
    BY <1>4, <1>6, <1>7, <2>1, <2>2, <2>3, <2>5
  <2>7. c \in Buckets /\ \A t : t # h /\ Tracked(b, t) => Tracked(c, t)
    BY <1>4, <2>2, <2>4, <2>5, OneBucket
  <2>8. Serve(b, want).sid = h /\ Serve(b, want).buckets = c
    BY <2>6
  <2> QED BY <2>7, <2>8 DEF Picks
<1>8. CASE x.incremental = <<>>
  <2>1. x.non_incremental # <<>> /\ x.deficit + want <= Quantum
    BY <1>3, <1>4, <1>8
  <2>2. PICK d \in 0..Quantum : d = x.deficit + want
    BY <1>5, <2>1, SchedulerAssumption
  <2>3. PICK h \in Streams : h = Head(x.non_incremental)
    BY <1>5, <2>1, TailElements
  <2>4. PICK q \in Seq(Streams) : q = Tail(x.non_incremental) /\ \A y \in ToSet(x.non_incremental) : y # h => y \in ToSet(q)
    BY <1>5, <2>1, <2>3, TailElements
  <2>5. PICK r : r = [x EXCEPT !.non_incremental = q, !.deficit = d]
    OBVIOUS
  <2>6. r \in Bucket /\ r.non_incremental = q /\ r.incremental = x.incremental
    BY <2>5 DEF Bucket
  <2>7. PICK c : c = [b EXCEPT ![u] = r]
    OBVIOUS
  <2>8. Serve(b, want) = [sid |-> h, buckets |-> c]
    <3>1. [b EXCEPT ![u].non_incremental = q, ![u].deficit = d] = c
      BY <1>4, <2>5, <2>7 DEF Buckets
    <3> QED BY <1>4, <1>6, <1>8, <2>2, <2>3, <2>4, <3>1 DEF Buckets
  <2>9. c \in Buckets /\ \A t : t # h /\ Tracked(b, t) => Tracked(c, t)
    BY <1>4, <2>4, <2>6, <2>7, OneBucket
  <2>10. Serve(b, want).sid = h /\ Serve(b, want).buckets = c
    BY <2>8
  <2> QED BY <2>9, <2>10 DEF Picks
<1> QED BY <1>7, <1>8

LEMMA NextPicks ==
    ASSUME NEW b \in Buckets, NEW want \in Nat
    PROVE  Picks(b, NextStream(b, want))
<1>1. CASE Servable(b, want) # {}
  BY <1>1, ServePicks DEF NextStream
<1>2. CASE Servable(b, want) = {} /\ \A u \in Urgencies : b[u].non_incremental = <<>>
  BY <1>2 DEF NextStream, Picks
<1>3. CASE Servable(b, want) = {} /\ \E u \in Urgencies : b[u].non_incremental # <<>>
  <2>1. PICK r : r = ResetDeficits(b)
    OBVIOUS
  <2>2. r \in Buckets
    <3>1. 0 \in 0..Quantum
      BY SchedulerAssumption
    <3>2. \A u \in Urgencies : [b[u] EXCEPT !.deficit = 0] \in Bucket
      BY <3>1, BucketTypes DEF Bucket
    <3> QED BY <2>1, <3>2 DEF ResetDeficits, Buckets
  <2>3. \A u \in Urgencies : r[u].non_incremental = b[u].non_incremental /\ r[u].incremental = b[u].incremental
    BY <2>1, BucketTypes DEF ResetDeficits, Bucket
  <2>4. \A t : Tracked(b, t) => Tracked(r, t)
    BY <2>3 DEF Tracked
  <2>5. NextStream(b, want) = IF Servable(r, want) # {} THEN Serve(r, want) ELSE [sid |-> None, buckets |-> r]
    BY <1>3, <2>1 DEF NextStream
  <2>6. CASE Servable(r, want) # {}
    BY <2>2, <2>4, <2>5, <2>6, ServePicks DEF Picks
  <2>7. CASE Servable(r, want) = {}
    BY <2>2, <2>4, <2>5, <2>7 DEF Picks
  <2> QED BY <2>6, <2>7
<1> QED BY <1>1, <1>2, <1>3

\* InIdOrder lists a set of streams: the rank of an element is a bijection.
LEMMA InIdOrderLists ==
    ASSUME NEW S \in SUBSET Streams
    PROVE  InIdOrder(S) \in Seq(Streams) /\ \A s \in S : s \in ToSet(InIdOrder(S))
<1>1. S \in SUBSET Nat /\ IsFiniteSet(S)
  BY SendAssumption, FS_Subset
<1>2. PICK n \in Nat : n = Cardinality(S)
  BY <1>1, FS_CardinalityType
<1> DEFINE Under(s) == {t \in S : t < s}
<1>3. \A s \in S : Under(s) \in SUBSET S /\ s \notin Under(s) /\ IsFiniteSet(Under(s)) /\ Cardinality(Under(s)) \in Nat
  BY <1>1, FS_Subset, FS_CardinalityType
<1>4. \A s \in S : Cardinality(Under(s)) < n
  <2> TAKE s \in S
  <2>1. Under(s) # S
    BY <1>3
  <2>2. Cardinality(Under(s)) <= n /\ Cardinality(Under(s)) # n
    BY <1>1, <1>2, <1>3, <2>1, FS_Subset
  <2> QED BY <1>3, <2>2
<1>5. \A s, t \in S : s < t => Cardinality(Under(s)) < Cardinality(Under(t))
  <2> SUFFICES ASSUME NEW s \in S, NEW t \in S, s < t PROVE Cardinality(Under(s)) < Cardinality(Under(t))
    OBVIOUS
  <2>1. Under(s) \in SUBSET Under(t) /\ s \in Under(t) /\ s \notin Under(s)
    <3>1. \A x \in S : x \in Nat
      BY <1>1
    <3>2. \A x \in S : x < s => x < t
      BY <3>1
    <3> QED BY <3>1, <3>2
  <2>2. Cardinality(Under(s)) <= Cardinality(Under(t)) /\ Cardinality(Under(s)) # Cardinality(Under(t))
    BY <1>3, <2>1, FS_Subset
  <2> QED BY <1>3, <2>2
<1> DEFINE f == [s \in S |-> Cardinality(Under(s)) + 1]
<1>6. \A s \in S : f[s] = Cardinality(Under(s)) + 1 /\ f[s] \in 1..n
  BY <1>3, <1>4
<1>7. f \in [S -> 1..n]
  BY <1>6
<1> HIDE DEF f, Under
<1>8. \A s, t \in S : f[s] = f[t] => s = t
  <2> SUFFICES ASSUME NEW s \in S, NEW t \in S, f[s] = f[t] PROVE s = t
    OBVIOUS
  <2>1. Cardinality(Under(s)) = Cardinality(Under(t))
    BY <1>3, <1>6
  <2>2. ~(s < t) /\ ~(t < s)
    BY <1>3, <1>5, <2>1
  <2> QED BY <1>1, <2>2
<1>9. f \in Injection(S, 1..n)
  BY <1>7, <1>8 DEF Injection, IsInjective
<1>10. IsFiniteSet(1..n) /\ Cardinality(1..n) = n
  BY FS_Interval
<1>11. f \in Surjection(S, 1..n)
  BY <1>2, <1>9, <1>10, FS_Injection
<1>12. \A i \in 1..n : \E s \in S : f[s] = i
  BY <1>11 DEF Surjection
<1>13. \A i \in 1..n : InIdOrder(S)[i] \in S /\ Cardinality(Under(InIdOrder(S)[i])) = i - 1
  <2> TAKE i \in 1..n
  <2>1. PICK s \in S : f[s] = i
    BY <1>12
  <2>2. Cardinality(Under(s)) \in Nat /\ f[s] = Cardinality(Under(s)) + 1
    BY <1>3, <1>6
  <2>3. Cardinality(Under(s)) = i - 1
    BY <2>1, <2>2
  <2>4. InIdOrder(S)[i] = CHOOSE t \in S : Cardinality(Under(t)) = i - 1
    BY <1>2 DEF InIdOrder, Under
  <2> QED BY <2>3, <2>4
<1>14. InIdOrder(S) \in Seq(Streams) /\ DOMAIN InIdOrder(S) = 1..n
  <2> DEFINE g(i) == CHOOSE t \in S : Cardinality({x \in S : x < t}) = i - 1
  <2>1. InIdOrder(S) = [i \in 1..n |-> g(i)]
    BY <1>2 DEF InIdOrder
  <2> HIDE DEF g
  <2>2. DOMAIN InIdOrder(S) = 1..n /\ InIdOrder(S) \in [1..n -> Streams]
    BY <1>13, <2>1
  <2> QED BY <2>2
<1>15. ASSUME NEW s \in S PROVE s \in ToSet(InIdOrder(S))
  <2>1. PICK i \in 1..n : i = f[s]
    BY <1>6
  <2>2. InIdOrder(S)[i] \in S /\ f[InIdOrder(S)[i]] = i
    BY <1>6, <1>13, <2>1
  <2>3. InIdOrder(S)[i] = s
    BY <1>8, <2>1, <2>2
  <2> QED BY <1>14, <2>3 DEF ToSet
<1> QED BY <1>14, <1>15

\* One scheduler tracks whatever another one does.
Covers(b, c) == \A t : Tracked(b, t) => Tracked(c, t)

LEMMA MaybeScheduleCovers ==
    ASSUME NEW sch, SchedOK(sch), NEW s \in Streams, priority \in [Streams -> Priority], NEW q, NEW w
    PROVE  /\ SchedOK(MaybeSchedule(sch, s, q, w)) /\ Covers(sch.buckets, MaybeSchedule(sch, s, q, w).buckets)
           /\ q[s] # <<>> /\ Live(s) /\ w[s] > 0 => Tracked(MaybeSchedule(sch, s, q, w).buckets, s)
<1>1. CASE Due(sch, s, q, w)
  <2>1. PICK c : c = Add(sch.buckets, s, priority[s])
    OBVIOUS
  <2>2. c \in Buckets /\ Tracked(c, s) /\ \A t : Tracked(sch.buckets, t) => Tracked(c, t)
    BY <2>1, AddTracks DEF SchedOK
  <2>3. PICK n : n = [buckets |-> c, scheduled |-> sch.scheduled \cup {s}]
    OBVIOUS
  <2>4. n.buckets = c /\ n.scheduled = sch.scheduled \cup {s} /\ MaybeSchedule(sch, s, q, w) = n
    BY <1>1, <2>1, <2>3 DEF MaybeSchedule
  <2> QED BY <2>2, <2>4 DEF SchedOK, Covers
<1>2. CASE ~Due(sch, s, q, w)
  BY <1>2 DEF MaybeSchedule, Due, SchedOK, Covers
<1> QED BY <1>1, <1>2

LEMMA RescheduleCovers ==
    ASSUME SchedOK(Sched), priority \in [Streams -> Priority], NEW w
    PROVE  /\ SchedOK(RescheduleBuffered(w)) /\ Covers(buckets, RescheduleBuffered(w).buckets)
           /\ \A s \in Streams : buffered[s] > 0 /\ queue[s] # <<>> /\ Live(s) /\ w[s] > 0
                                   => Tracked(RescheduleBuffered(w).buckets, s)
<1> DEFINE due == {s \in Streams : buffered[s] > 0 /\ Due(Sched, s, queue, w)}
           joining(u, inc) == InIdOrder({s \in due : priority[s] = [urgency |-> u, incremental |-> inc]})
           new(u) == [buckets[u] EXCEPT !.incremental = @ \o joining(u, TRUE), !.non_incremental = @ \o joining(u, FALSE)]
           c == [u \in Urgencies |-> new(u)]
<1>1. RescheduleBuffered(w) = [buckets |-> c, scheduled |-> scheduled \cup due]
  BY DEF RescheduleBuffered
<1>2. buckets \in Buckets /\ scheduled \in SUBSET Streams /\ \A s \in scheduled : Tracked(buckets, s)
  BY DEF SchedOK, Sched
<1>3. \A u \in Urgencies, inc \in BOOLEAN :
        /\ joining(u, inc) \in Seq(Streams)
        /\ \A s \in due : priority[s] = [urgency |-> u, incremental |-> inc] => s \in ToSet(joining(u, inc))
  <2> TAKE u \in Urgencies, inc \in BOOLEAN
  <2> DEFINE S == {s \in due : priority[s] = [urgency |-> u, incremental |-> inc]}
  <2>1. S \in SUBSET Streams
    OBVIOUS
  <2>2. \A s \in due : priority[s] = [urgency |-> u, incremental |-> inc] => s \in S
    OBVIOUS
  <2> HIDE DEF S
  <2>3. InIdOrder(S) \in Seq(Streams) /\ \A s \in S : s \in ToSet(InIdOrder(S))
    BY <2>1, InIdOrderLists
  <2>4. joining(u, inc) = InIdOrder(S)
    BY DEF S
  <2> HIDE DEF joining, due
  <2> QED BY <2>2, <2>3, <2>4
<1> HIDE DEF joining
<1>4. \A u \in Urgencies :
        /\ new(u) \in Bucket
        /\ \A t : t \in ToSet(buckets[u].incremental) \/ t \in ToSet(joining(u, TRUE)) => t \in ToSet(new(u).incremental)
        /\ \A t : t \in ToSet(buckets[u].non_incremental) \/ t \in ToSet(joining(u, FALSE)) => t \in ToSet(new(u).non_incremental)
  <2> TAKE u \in Urgencies
  <2>1. PICK x \in Bucket : x = buckets[u]
    BY <1>2, BucketTypes
  <2>2. x.non_incremental \in Seq(Streams) /\ x.incremental \in Seq(Streams)
    BY DEF Bucket
  <2>3. PICK m \in Seq(Streams) : /\ m = x.incremental \o joining(u, TRUE)
                                  /\ \A t \in ToSet(x.incremental) : t \in ToSet(m)
                                  /\ \A t \in ToSet(joining(u, TRUE)) : t \in ToSet(m)
    BY <1>3, <2>2, ConcatElements, ZenonT(60)
  <2>4. PICK n \in Seq(Streams) : /\ n = x.non_incremental \o joining(u, FALSE)
                                  /\ \A t \in ToSet(x.non_incremental) : t \in ToSet(n)
                                  /\ \A t \in ToSet(joining(u, FALSE)) : t \in ToSet(n)
    BY <1>3, <2>2, ConcatElements, ZenonT(60)
  <2>5. new(u) = [x EXCEPT !.incremental = m, !.non_incremental = n]
    BY <2>1, <2>3, <2>4 DEF Bucket
  <2>6. PICK r : r = [x EXCEPT !.incremental = m, !.non_incremental = n]
    OBVIOUS
  <2>7. r \in Bucket /\ r.incremental = m /\ r.non_incremental = n
    BY <2>6 DEF Bucket
  <2>8. new(u) = r
    BY <2>5, <2>6
  <2> HIDE DEF new
  <2> QED BY <2>1, <2>3, <2>4, <2>7, <2>8
<1>5. c \in Buckets /\ \A u \in Urgencies : c[u] = new(u)
  BY <1>4 DEF Buckets
<1> HIDE DEF c, new, due
<1>6. Covers(buckets, c)
  BY <1>4, <1>5 DEF Covers, Tracked
<1>7. \A s \in due : Tracked(c, s)
  <2> TAKE s \in due
  <2>1. priority[s] \in Priority
    BY DEF due
  <2>2. PICK u \in Urgencies, inc \in BOOLEAN : priority[s] = [urgency |-> u, incremental |-> inc]
    BY <2>1 DEF Priority
  <2>3. s \in ToSet(joining(u, inc))
    BY <1>3, <2>2
  <2>4. s \in ToSet(c[u].incremental) \/ s \in ToSet(c[u].non_incremental)
    BY <1>4, <1>5, <2>2, <2>3
  <2> QED BY <2>4 DEF Tracked
<1>8. due \in SUBSET Streams
  BY DEF due
<1>9. RescheduleBuffered(w).buckets = c /\ RescheduleBuffered(w).scheduled = scheduled \cup due
  BY <1>1
<1>10. SchedOK(RescheduleBuffered(w))
  BY <1>2, <1>5, <1>6, <1>7, <1>8, <1>9 DEF SchedOK, Covers
<1>11. \A s \in Streams : buffered[s] > 0 /\ queue[s] # <<>> /\ Live(s) /\ w[s] > 0 => s \in due \/ s \in scheduled
  BY DEF due, Due, Sched
<1> QED BY <1>2, <1>6, <1>7, <1>9, <1>10, <1>11 DEF Covers

\* The sums over a queue, as the tables Holds asks for.
Table(q, n, d) ==
    /\ d \in [0..Len(q) -> 0..n]
    /\ d[0] = n /\ d[Len(q)] = 0
    /\ \A i \in 1..Len(q) : d[i - 1] = d[i] + q[i].len
    /\ \A i, j \in 0..Len(q) : i <= j => d[j] <= d[i]

LEMMA HoldsTable == \A q, n : Holds(q, n) <=> \E d : Table(q, n, d)
BY DEF Holds, Table

LEMMA HoldsNothing == Holds(<<>>, 0) /\ \A n \in Nat : Holds(<<>>, n) => n = 0
<1>1. Table(<<>>, 0, [i \in 0..0 |-> 0])
  BY DEF Table
<1>2. \A n \in Nat : Holds(<<>>, n) => n = 0
  BY DEF Holds
<1> QED BY <1>1, <1>2, HoldsTable

LEMMA HoldsBytes ==
    ASSUME NEW q \in Seq(Chunk), NEW n \in Nat, Holds(q, n), NEW i \in DOMAIN q, q[i].len > 0
    PROVE  n > 0
<1>1. PICK d : Table(q, n, d)
  BY HoldsTable
<1>2. i \in 1..Len(q) /\ q[i].len \in Nat
  <2>1. i \in 1..Len(q) /\ q[i] \in Chunk
    OBVIOUS
  <2> QED BY <2>1 DEF Chunk
<1>3. d[i - 1] \in Nat /\ d[i] \in Nat /\ d[i - 1] = d[i] + q[i].len /\ d[i - 1] <= n
  BY <1>1, <1>2 DEF Table
<1> QED BY <1>2, <1>3

LEMMA HoldsAppend ==
    ASSUME NEW q \in Seq(Chunk), NEW n \in Nat, Holds(q, n), NEW c \in Chunk
    PROVE  Holds(Append(q, c), n + c.len) /\ n + c.len \in Nat
<1>1. PICK d : Table(q, n, d)
  BY HoldsTable
<1>2. PICK k \in Nat : k = c.len
  BY DEF Chunk
<1>3. PICK l \in Nat : l = Len(q)
  OBVIOUS
<1>4. PICK a : a = Append(q, c)
  OBVIOUS
<1>5. Len(a) = l + 1 /\ a[l + 1] = c /\ \A i \in 1..l : a[i] = q[i]
  BY <1>3, <1>4
<1>6. /\ \A i \in 0..l : d[i] \in 0..n /\ d[i] \in Nat
      /\ d[0] = n /\ d[l] = 0
      /\ \A i \in 1..l : d[i - 1] = d[i] + q[i].len
      /\ \A i, j \in 0..l : i <= j => d[j] <= d[i]
  BY <1>1, <1>3 DEF Table
<1>7. PICK e : e = [i \in 0..(l + 1) |-> IF i = l + 1 THEN 0 ELSE d[i] + k]
  OBVIOUS
<1>8. e[l + 1] = 0 /\ \A i \in 0..l : e[i] = d[i] + k
  BY <1>7
<1>9. e \in [0..(l + 1) -> 0..(n + k)]
  <2>1. \A i \in 0..(l + 1) : (IF i = l + 1 THEN 0 ELSE d[i] + k) \in 0..(n + k)
    BY <1>6
  <2> QED BY <1>7, <2>1
<1>10. \A i \in 1..(l + 1) : e[i - 1] = e[i] + a[i].len
  <2> TAKE i \in 1..(l + 1)
  <2>1. CASE i = l + 1
    BY <1>2, <1>5, <1>6, <1>8, <2>1
  <2>2. CASE i \in 1..l
    <3>1. d[i - 1] = d[i] + q[i].len /\ i - 1 \in 0..l /\ i \in 0..l /\ d[i] \in Nat /\ a[i] = q[i]
      BY <1>5, <1>6, <2>2
    <3>2. q[i] \in Chunk
      BY <1>3, <2>2
    <3>3. q[i].len \in Nat
      BY <3>2 DEF Chunk
    <3> QED BY <1>8, <3>1, <3>3
  <2> QED BY <2>1, <2>2
<1>11. \A i, j \in 0..(l + 1) : i <= j => e[j] <= e[i]
  <2> SUFFICES ASSUME NEW i \in 0..(l + 1), NEW j \in 0..(l + 1), i <= j PROVE e[j] <= e[i]
    OBVIOUS
  <2>1. CASE j = l + 1
    BY <1>8, <1>9, <2>1
  <2>2. CASE j # l + 1
    <3>1. i \in 0..l /\ j \in 0..l
      BY <2>2
    <3>2. d[j] <= d[i] /\ d[i] \in Nat /\ d[j] \in Nat
      BY <1>6, <3>1
    <3> QED BY <1>8, <3>1, <3>2
  <2> QED BY <2>1, <2>2
<1>12. Table(a, n + k, e)
  <2>1. e[0] = n + k /\ e[Len(a)] = 0
    BY <1>5, <1>6, <1>8
  <2> QED BY <1>5, <1>9, <1>10, <1>11, <2>1 DEF Table
<1> QED BY <1>2, <1>4, <1>12, HoldsTable

LEMMA HoldsTail ==
    ASSUME NEW q \in Seq(Chunk), NEW n \in Nat, Holds(q, n), q # <<>>
    PROVE  /\ Head(q) \in Chunk /\ Head(q).len \in Nat /\ Tail(q) \in Seq(Chunk)
           /\ Head(q).len <= n /\ Holds(Tail(q), n - Head(q).len)
<1>1. PICK d : Table(q, n, d)
  BY HoldsTable
<1>2. PICK l \in Nat : l = Len(q) - 1
  OBVIOUS
<1>3. PICK t \in Seq(Chunk) : t = Tail(q)
  BY TailElements
<1>4. Head(q) \in Chunk /\ Head(q) = q[1] /\ Len(q) = l + 1 /\ Len(t) = l /\ \A i \in 1..l : t[i] = q[i + 1]
  BY <1>2, <1>3
<1>5. PICK k \in Nat : k = Head(q).len
  BY <1>4 DEF Chunk
<1>6. /\ \A i \in 0..(l + 1) : d[i] \in Nat
      /\ d[0] = n /\ d[l + 1] = 0
      /\ \A i \in 1..(l + 1) : d[i - 1] = d[i] + q[i].len
      /\ \A i, j \in 0..(l + 1) : i <= j => d[j] <= d[i]
  BY <1>1, <1>4 DEF Table
<1>7. d[1] \in Nat /\ n = d[1] + k
  <2>1. 1 \in 1..(l + 1) /\ d[1 - 1] = d[1] + q[1].len
    BY <1>6
  <2> QED BY <1>4, <1>5, <1>6, <2>1
<1>8. PICK e : e = [i \in 0..l |-> d[i + 1]]
  OBVIOUS
<1>9. e \in [0..l -> 0..(n - k)]
  <2>1. \A i \in 0..l : d[i + 1] \in 0..(n - k)
    BY <1>6, <1>7
  <2> QED BY <1>8, <2>1
<1>10. e[0] = n - k /\ e[l] = 0
  BY <1>6, <1>7, <1>8
<1>11. \A i \in 1..l : e[i - 1] = e[i] + t[i].len
  <2> TAKE i \in 1..l
  <2>1. d[(i + 1) - 1] = d[i + 1] + q[i + 1].len
    BY <1>6
  <2>2. e[i] = d[i + 1] /\ e[i - 1] = d[(i + 1) - 1] /\ t[i] = q[i + 1]
    BY <1>4, <1>8
  <2> QED BY <2>1, <2>2
<1>12. \A i, j \in 0..l : i <= j => e[j] <= e[i]
  BY <1>6, <1>8
<1>13. Table(t, n - k, e)
  BY <1>4, <1>9, <1>10, <1>11, <1>12 DEF Table
<1> QED BY <1>3, <1>4, <1>5, <1>7, <1>13, HoldsTable, SMTT(60)

LEMMA HoldsShrunk ==
    ASSUME NEW q \in Seq(Chunk), NEW n \in Nat, Holds(q, n), q # <<>>, NEW f \in Nat, f <= Head(q).len
    PROVE  /\ f <= n /\ <<[Head(q) EXCEPT !.len = @ - f]>> \o Tail(q) \in Seq(Chunk)
           /\ Holds(<<[Head(q) EXCEPT !.len = @ - f]>> \o Tail(q), n - f)
<1>1. PICK d : Table(q, n, d)
  BY HoldsTable
<1>2. PICK l \in Nat : l = Len(q) - 1
  OBVIOUS
<1>3. PICK h \in Chunk : h = Head(q)
  OBVIOUS
<1>4. PICK k \in Nat : k = h.len
  BY DEF Chunk
<1>5. k - f \in Nat
  BY <1>3, <1>4
<1>6. PICK g : g = [h EXCEPT !.len = k - f]
  OBVIOUS
<1>7. g \in Chunk /\ g.len = k - f
  BY <1>5, <1>6 DEF Chunk
<1>8. PICK a : a = <<g>> \o Tail(q)
  OBVIOUS
<1>9. /\ a \in Seq(Chunk) /\ Len(a) = l + 1 /\ a[1] = g /\ Len(q) = l + 1 /\ h = q[1]
      /\ \A i \in 2..(l + 1) : a[i] = q[i]
  BY <1>2, <1>3, <1>7, <1>8
<1>10. /\ \A i \in 0..(l + 1) : d[i] \in Nat
       /\ d[0] = n /\ d[l + 1] = 0
       /\ \A i \in 1..(l + 1) : d[i - 1] = d[i] + q[i].len
       /\ \A i, j \in 0..(l + 1) : i <= j => d[j] <= d[i]
  BY <1>1, <1>9 DEF Table
<1>11. d[1] \in Nat /\ n = d[1] + k
  <2>1. 1 \in 1..(l + 1) /\ d[1 - 1] = d[1] + q[1].len
    BY <1>10
  <2> QED BY <1>4, <1>9, <1>10, <2>1
<1>12. PICK e : e = [i \in 0..(l + 1) |-> IF i = 0 THEN n - f ELSE d[i]]
  OBVIOUS
<1>13. e[0] = n - f /\ \A i \in 1..(l + 1) : e[i] = d[i]
  BY <1>12
<1>14. n - f \in Nat /\ \A i \in 1..(l + 1) : d[i] <= n - f
  BY <1>5, <1>10, <1>11
<1>15. e \in [0..(l + 1) -> 0..(n - f)]
  <2>1. \A i \in 0..(l + 1) : (IF i = 0 THEN n - f ELSE d[i]) \in 0..(n - f)
    BY <1>10, <1>14
  <2> QED BY <1>12, <2>1
<1>16. \A i \in 1..(l + 1) : e[i - 1] = e[i] + a[i].len
  <2> TAKE i \in 1..(l + 1)
  <2>1. CASE i = 1
    BY <1>5, <1>7, <1>9, <1>11, <1>13, <2>1
  <2>2. CASE i # 1
    BY <1>9, <1>10, <1>13, <2>2
  <2> QED BY <2>1, <2>2
<1>17. \A i, j \in 0..(l + 1) : i <= j => e[j] <= e[i]
  <2> SUFFICES ASSUME NEW i \in 0..(l + 1), NEW j \in 0..(l + 1), i <= j PROVE e[j] <= e[i]
    OBVIOUS
  <2>1. CASE i = 0
    BY <1>13, <1>14, <2>1
  <2>2. CASE i # 0
    BY <1>10, <1>13, <2>2
  <2> QED BY <2>1, <2>2
<1>18. Table(a, n - f, e)
  BY <1>9, <1>10, <1>13, <1>15, <1>16, <1>17 DEF Table
<1>19. <<[Head(q) EXCEPT !.len = @ - f]>> \o Tail(q) = a
  BY <1>3, <1>4, <1>6, <1>8
<1>20. Holds(a, n - f) /\ f <= n
  BY <1>14, <1>18, HoldsTable
<1> QED BY <1>9, <1>19, <1>20

LEMMA PriorityTypes == Priorities \in SUBSET Priority /\ DefaultPriority \in Priorities
BY SendAssumption DEF DefaultPriority

LEMMA SendEnough == SendInv => SendStateKept
<1> SUFFICES ASSUME SendInv PROVE SendStateKept
  OBVIOUS
<1>1. BodyTypes /\ LinkTypes /\ Buffering /\ Woken /\ SchedOK(Sched)
  BY DEF SendInv
<1>2. buckets \in Buckets /\ scheduled \in SUBSET Streams /\ \A s \in scheduled : Tracked(buckets, s)
  BY <1>1 DEF SchedOK, Sched
<1>3. \A u \in Urgencies : buckets[u].deficit <= Quantum
  <2> TAKE u \in Urgencies
  <2>1. buckets[u].deficit \in 0..Quantum /\ Quantum \in Nat
    BY <1>2, BucketTypes, SchedulerAssumption
  <2> QED BY <2>1
<1>4. TypeOK
  BY <1>1, <1>2, <1>3 DEF BodyTypes, LinkTypes, TypeOK
<1>5. BodyIsScheduled
  BY <1>1 DEF Woken, Sendable, BodyIsScheduled, Live, HasBytes
<1>6. ScheduledIsTracked
  BY <1>2 DEF ScheduledIsTracked
<1>7. EndAfterBody
  <2> SUFFICES ASSUME NEW s \in Streams, state[s] = "half_closed_local" PROVE queue[s] = <<>> /\ buffered[s] = 0
    BY DEF EndAfterBody
  <2>1. queue[s] = <<>> /\ Holds(queue[s], buffered[s]) /\ buffered[s] \in Nat
    BY <1>1 DEF Buffering, BodyTypes
  <2> QED BY <2>1, HoldsNothing
<1> QED BY <1>4, <1>5, <1>6, <1>7 DEF SendStateKept

LEMMA SendStart == Init => SendInv
<1> SUFFICES ASSUME Init PROVE SendInv
  OBVIOUS
<1>1. BodyTypes
  BY PriorityTypes DEF Init, BodyTypes
<1>l. LinkTypes
  <2>1. ConnWindow \in Int /\ FlushFrames \in Nat
    BY SendAssumption
  <2>2. closed \in BOOLEAN /\ peer \in [init : InitWindows, frame : FrameSizes]
    BY Zenon DEF Init
  <2>3. conn_window \in Int /\ budget \in 0..FlushFrames /\ served \in Streams \cup {None}
    BY <2>1 DEF Init
  <2> QED BY <2>2, <2>3 DEF LinkTypes
<1>2. Buffering
  BY HoldsNothing DEF Init, Buffering
<1>3. buckets \in Buckets /\ scheduled = {}
  <2>1. [non_incremental |-> <<>>, incremental |-> <<>>, deficit |-> 0] \in Bucket
    BY SchedulerAssumption DEF Bucket
  <2> QED BY <2>1 DEF Init, EmptyBuckets, Buckets
<1>4. SchedOK(Sched)
  BY <1>3 DEF SchedOK, Sched
<1>5. Woken
  BY DEF Init, Woken, Sendable
<1> QED BY <1>1, <1>l, <1>2, <1>4, <1>5 DEF SendInv

\* close_stream(): the entries of other streams stay.
LEMMA ClosingKeeps ==
    ASSUME SendInv, NEW s \in Streams, NEW b \in Buckets, \A t : t # s /\ Tracked(buckets, t) => Tracked(b, t),
           CloseStream(s, b), LinkTypes', conn_window' <= conn_window
    PROVE  SendInv'
<1>1. BodyTypes /\ LinkTypes /\ Buffering /\ Woken /\ SchedOK(Sched)
  BY DEF SendInv
<1>2. BodyTypes'
  BY <1>1, PriorityTypes DEF BodyTypes, CloseStream
<1>3. Buffering'
  <2>1. ASSUME NEW t \in Streams
        PROVE  Holds(queue'[t], buffered'[t]) /\ (state'[t] \notin {"open", "half_closed_remote"} => queue'[t] = <<>>)
    <3>1. CASE t = s
      BY <1>1, <3>1, HoldsNothing DEF BodyTypes, CloseStream
    <3>2. CASE t # s
      BY <1>1, <3>2 DEF BodyTypes, CloseStream, Buffering
    <3> QED BY <3>1, <3>2
  <2> QED BY <2>1 DEF Buffering
<1>4. PICK c : c = RemoveStream(b, s)
  OBVIOUS
<1>5. c \in Buckets /\ \A t : t # s /\ Tracked(b, t) => Tracked(c, t)
  BY <1>4, RemoveKeeps
<1>6. buckets' = c /\ scheduled' = scheduled \ {s}
  BY <1>4 DEF CloseStream, SchedIs, Deschedule
<1>7. SchedOK(Sched)'
  BY <1>1, <1>5, <1>6 DEF SchedOK, Sched
<1>8. Woken'
  <2>1. ASSUME NEW t \in Streams, Sendable(state'[t], queue'[t], send_window'[t], conn_window') PROVE Tracked(c, t)
    <3>1. t # s
      BY <1>1, <2>1 DEF BodyTypes, CloseStream, Sendable
    <3>2. state'[t] = state[t] /\ queue'[t] = queue[t] /\ send_window'[t] = send_window[t]
      BY <1>1, <3>1 DEF BodyTypes, CloseStream
    <3>3. conn_window > 0
      BY <1>1, <2>1 DEF LinkTypes, Sendable
    <3>4. Tracked(buckets, t)
      BY <1>1, <2>1, <3>2, <3>3 DEF Woken, Sendable
    <3> QED BY <1>5, <3>1, <3>4
  <2> QED BY <1>6, <2>1 DEF Woken
<1> QED BY <1>2, <1>3, <1>7, <1>8 DEF SendInv

\* A step that leaves bodies and windows alone and loses no entry.
LEMMA SchedulerStep ==
    ASSUME SendInv, UNCHANGED streamVars, LinkTypes', conn_window' <= conn_window,
           buckets' \in Buckets, NEW s, scheduled' = scheduled \ {s},
           \A t : t # s /\ Tracked(buckets, t) => Tracked(buckets', t),
           s \in Streams => ~Sendable(state[s], queue[s], send_window[s], conn_window)
    PROVE  SendInv'
<1>1. BodyTypes /\ LinkTypes /\ Buffering /\ Woken /\ SchedOK(Sched)
  BY DEF SendInv
<1>2. BodyTypes' /\ Buffering'
  BY <1>1 DEF BodyTypes, Buffering, streamVars
<1>3. SchedOK(Sched)'
  BY <1>1 DEF SchedOK, Sched
<1>4. Woken'
  <2>1. ASSUME NEW t \in Streams, Sendable(state[t], queue[t], send_window[t], conn_window') PROVE Tracked(buckets', t)
    <3>1. conn_window > 0
      BY <1>1, <2>1 DEF LinkTypes, Sendable
    <3>2. Sendable(state[t], queue[t], send_window[t], conn_window)
      BY <2>1, <3>1 DEF Sendable
    <3> QED BY <1>1, <3>2 DEF Woken
  <2> QED BY <2>1 DEF Woken, streamVars
<1> QED BY <1>2, <1>3, <1>4 DEF SendInv

LEMMA SendHeadersStep ==
    ASSUME SendInv, NEW s \in Streams, SendHeaders(s)
    PROVE  SendInv'
<1>1. BodyTypes /\ LinkTypes /\ Buffering /\ Woken /\ SchedOK(Sched)
  BY DEF SendInv
<1>2. LinkTypes' /\ conn_window' <= conn_window
  BY <1>1 DEF LinkTypes, SendHeaders
<1>3. CASE CloseStream(s, buckets)
  BY <1>1, <1>2, <1>3, ClosingKeeps DEF SchedOK, Sched
<1>4. CASE /\ state' = [state EXCEPT ![s] = "half_closed_local"] /\ send_done' = send_done \cup {s}
           /\ UNCHANGED <<send_window, buffered, priority, queue, schedVars>>
  <2>1. queue[s] = <<>> /\ conn_window' = conn_window
    BY DEF SendHeaders
  <2>2. BodyTypes'
    BY <1>1, <1>4 DEF BodyTypes
  <2>3. Buffering'
    BY <1>1, <1>4, <2>1 DEF BodyTypes, Buffering
  <2>4. SchedOK(Sched)'
    BY <1>1, <1>4 DEF SchedOK, Sched, schedVars
  <2>5. ASSUME NEW t \in Streams, Sendable(state'[t], queue[t], send_window[t], conn_window) PROVE Tracked(buckets, t)
    <3>1. t # s
      BY <2>1, <2>5 DEF Sendable
    <3> QED BY <1>1, <1>4, <2>5, <3>1 DEF Woken, BodyTypes
  <2>6. Woken'
    BY <1>4, <2>1, <2>5 DEF Woken, schedVars
  <2> QED BY <1>2, <2>2, <2>3, <2>4, <2>6 DEF SendInv
<1> QED BY <1>3, <1>4 DEF SendHeaders

LEMMA EnqueueStep ==
    ASSUME SendInv, NEW s \in Streams, NEW c \in Chunks, Enqueue(s, c)
    PROVE  SendInv'
<1>1. BodyTypes /\ LinkTypes /\ Buffering /\ Woken /\ SchedOK(Sched) /\ priority \in [Streams -> Priority]
  BY PriorityTypes DEF SendInv, BodyTypes
<1>2. LinkTypes' /\ conn_window' = conn_window
  BY <1>1 DEF LinkTypes, Enqueue
<1>3. c \in Chunk
  BY SendAssumption
<1>4. PICK q \in Seq(Chunk) : q = queue[s]
  BY <1>1 DEF BodyTypes
<1>5. PICK n \in Nat : n = buffered[s]
  BY <1>1 DEF BodyTypes
<1>6. Append(q, c) \in Seq(Chunk) /\ Holds(Append(q, c), n + c.len) /\ n + c.len \in Nat
  <2>1. Holds(q, n)
    BY <1>1, <1>4, <1>5 DEF Buffering
  <2> QED BY <1>3, <2>1, HoldsAppend
<1>7. /\ queue' = [queue EXCEPT ![s] = Append(q, c)] /\ buffered' = [buffered EXCEPT ![s] = n + c.len]
      /\ send_done' \in SUBSET Streams /\ state' = state /\ send_window' = send_window /\ priority' = priority
      /\ state[s] \in {"open", "half_closed_remote"}
  BY <1>1, <1>4, <1>5 DEF Enqueue, BodyTypes, CanSend
<1>8. BodyTypes'
  BY <1>1, <1>6, <1>7 DEF BodyTypes
<1>9. Buffering'
  BY <1>1, <1>6, <1>7 DEF Buffering, BodyTypes
<1>10. PICK sch : sch = MaybeSchedule(Sched, s, queue', send_window)
  OBVIOUS
<1>11. /\ SchedOK(sch) /\ Covers(buckets, sch.buckets)
       /\ queue'[s] # <<>> /\ Live(s) /\ send_window[s] > 0 => Tracked(sch.buckets, s)
  <2>1. PICK r : r = queue'
    OBVIOUS
  <2>2. sch = MaybeSchedule(Sched, s, r, send_window) /\ Sched.buckets = buckets
    BY <1>10, <2>1 DEF Sched
  <2> QED BY <1>1, <2>1, <2>2, MaybeScheduleCovers
<1>12. buckets' = sch.buckets /\ scheduled' = sch.scheduled
  BY <1>10 DEF Enqueue, SchedIs
<1>13. SchedOK(Sched)'
  BY <1>11, <1>12 DEF SchedOK, Sched
<1>14. ASSUME NEW t \in Streams, Sendable(state[t], queue'[t], send_window[t], conn_window) PROVE Tracked(sch.buckets, t)
  <2>1. CASE t = s
    <3>1. queue'[s] # <<>> /\ Live(s) /\ send_window[s] > 0
      BY <1>14, <2>1 DEF Sendable, Live
    <3> QED BY <1>11, <2>1, <3>1
  <2>2. CASE t # s
    <3>1. queue'[t] = queue[t]
      BY <1>1, <1>7, <2>2 DEF BodyTypes
    <3> QED BY <1>1, <1>11, <1>14, <3>1 DEF Woken, Covers
  <2> QED BY <2>1, <2>2
<1>15. Woken'
  BY <1>2, <1>7, <1>12, <1>14 DEF Woken
<1> QED BY <1>2, <1>8, <1>9, <1>13, <1>15 DEF SendInv

LEMMA ResetStep ==
    ASSUME SendInv, NEW s \in Streams, Reset(s)
    PROVE  SendInv'
<1>1. LinkTypes /\ SchedOK(Sched)
  BY DEF SendInv
<1>2. LinkTypes' /\ conn_window' <= conn_window
  BY <1>1 DEF LinkTypes, Reset
<1> QED BY <1>1, <1>2, ClosingKeeps DEF Reset, SchedOK, Sched

LEMMA PeerHeadersStep ==
    ASSUME SendInv, NEW s \in Streams, NEW end \in BOOLEAN, NEW p \in Priorities, PeerHeaders(s, end, p)
    PROVE  SendInv'
<1>1. BodyTypes /\ LinkTypes /\ Buffering /\ Woken /\ SchedOK(Sched)
  BY DEF SendInv
<1>2. LinkTypes' /\ conn_window' = conn_window
  BY <1>1 DEF LinkTypes, PeerHeaders
<1>3. PICK st \in {"open", "half_closed_remote"} : state' = [state EXCEPT ![s] = st]
  BY DEF PeerHeaders
<1>4. /\ send_window' = [send_window EXCEPT ![s] = peer.init] /\ priority' = [priority EXCEPT ![s] = p]
      /\ buffered' = buffered /\ send_done' = send_done /\ queue' = queue /\ buckets' = buckets /\ scheduled' = scheduled
      /\ state[s] = "none"
  BY DEF PeerHeaders, schedVars
<1>5. peer.init \in Int
  <2>1. peer.init \in InitWindows
    BY <1>1 DEF LinkTypes
  <2>2. \A x \in InitWindows : x \in Int
    BY SendAssumption
  <2> QED BY <2>1, <2>2
<1>6. BodyTypes'
  BY <1>1, <1>3, <1>4, <1>5 DEF BodyTypes
<1>7. queue[s] = <<>>
  BY <1>1, <1>4 DEF Buffering
<1>8. Buffering'
  BY <1>1, <1>3, <1>4, <1>7 DEF Buffering, BodyTypes
<1>9. SchedOK(Sched)'
  BY <1>1, <1>4 DEF SchedOK, Sched
<1>10. ASSUME NEW t \in Streams, Sendable(state'[t], queue[t], send_window'[t], conn_window) PROVE Tracked(buckets, t)
  <2>1. t # s
    BY <1>7, <1>10 DEF Sendable
  <2> QED BY <1>1, <1>3, <1>4, <1>10, <2>1 DEF Woken, BodyTypes
<1>11. Woken'
  BY <1>2, <1>4, <1>10 DEF Woken
<1> QED BY <1>2, <1>6, <1>8, <1>9, <1>11 DEF SendInv

LEMMA PeerEndStep ==
    ASSUME SendInv, NEW s \in Streams, PeerEnd(s)
    PROVE  SendInv'
<1>1. BodyTypes /\ LinkTypes /\ Buffering /\ Woken /\ SchedOK(Sched)
  BY DEF SendInv
<1>2. LinkTypes' /\ conn_window' = conn_window /\ conn_window' <= conn_window
  BY <1>1 DEF LinkTypes, PeerEnd
<1>3. CASE CloseStream(s, buckets)
  BY <1>1, <1>2, <1>3, ClosingKeeps DEF SchedOK, Sched
<1>4. CASE /\ state[s] = "open" /\ state' = [state EXCEPT ![s] = "half_closed_remote"]
           /\ UNCHANGED <<send_window, buffered, send_done, priority, queue, schedVars>>
  <2>1. BodyTypes'
    BY <1>1, <1>4 DEF BodyTypes
  <2>2. Buffering'
    BY <1>1, <1>4 DEF BodyTypes, Buffering
  <2>3. SchedOK(Sched)'
    BY <1>1, <1>4 DEF SchedOK, Sched, schedVars
  <2>4. ASSUME NEW t \in Streams, Sendable(state'[t], queue[t], send_window[t], conn_window) PROVE Tracked(buckets, t)
    BY <1>1, <1>4, <2>4 DEF Woken, BodyTypes, Sendable
  <2>5. Woken'
    BY <1>2, <1>4, <2>4 DEF Woken, schedVars
  <2> QED BY <1>2, <2>1, <2>2, <2>3, <2>5 DEF SendInv
<1> QED BY <1>3, <1>4 DEF PeerEnd

\* conn_error() changes nothing the invariant speaks of.
LEMMA ConnErrorStep ==
    ASSUME SendInv, ConnError, served' = None, budget' = budget
    PROVE  SendInv'
<1>1. LinkTypes /\ SchedOK(Sched)
  BY DEF SendInv
<1>2. LinkTypes' /\ conn_window' <= conn_window
  <2>1. closed' \in BOOLEAN
    BY DEF ConnError
  <2> QED BY <1>1, <2>1 DEF LinkTypes, ConnError
<1>3. UNCHANGED streamVars /\ buckets' = buckets /\ scheduled' = scheduled
  BY DEF ConnError, schedVars
<1>4. scheduled' = scheduled \ {None} /\ buckets' \in Buckets /\ None \notin Streams
  BY <1>1, <1>3, SchedulerAssumption DEF SchedOK, Sched
<1> QED BY <1>2, <1>3, <1>4, SchedulerStep

\* The loop of maybe_schedule() after new credit of the connection or of every stream.
LEMMA RescheduledStep ==
    ASSUME SendInv, NEW w \in [Streams -> Int], send_window' = w,
           UNCHANGED <<state, buffered, send_done, priority, queue>>,
           SchedIs(RescheduleBuffered(w)), LinkTypes'
    PROVE  SendInv'
<1>1. BodyTypes /\ LinkTypes /\ Buffering /\ Woken /\ SchedOK(Sched) /\ priority \in [Streams -> Priority]
  BY PriorityTypes DEF SendInv, BodyTypes
<1>2. BodyTypes' /\ Buffering'
  BY <1>1 DEF BodyTypes, Buffering
<1>3. PICK sch : sch = RescheduleBuffered(w)
  OBVIOUS
<1>4. /\ SchedOK(sch) /\ Covers(buckets, sch.buckets)
      /\ \A s \in Streams : buffered[s] > 0 /\ queue[s] # <<>> /\ Live(s) /\ w[s] > 0 => Tracked(sch.buckets, s)
  BY <1>1, <1>3, RescheduleCovers
<1>5. buckets' = sch.buckets /\ scheduled' = sch.scheduled
  BY <1>3 DEF SchedIs
<1>6. SchedOK(Sched)'
  BY <1>4, <1>5 DEF SchedOK, Sched
<1>7. ASSUME NEW t \in Streams, NEW cw, Sendable(state[t], queue[t], w[t], cw) PROVE Tracked(sch.buckets, t)
  <2>1. queue[t] # <<>> /\ Live(t) /\ w[t] > 0
    BY <1>7 DEF Sendable, Live
  <2>2. PICK i \in DOMAIN queue[t] : queue[t][i].len > 0
    BY <1>7 DEF Sendable
  <2>3. queue[t] \in Seq(Chunk) /\ buffered[t] \in Nat /\ Holds(queue[t], buffered[t])
    BY <1>1 DEF BodyTypes, Buffering
  <2>4. buffered[t] > 0
    BY <2>2, <2>3, HoldsBytes
  <2> QED BY <1>4, <2>1, <2>4
<1>8. Woken'
  BY <1>5, <1>7 DEF Woken
<1> QED BY <1>2, <1>6, <1>8 DEF SendInv

LEMMA ConnWindowUpdateStep ==
    ASSUME SendInv, NEW n \in Increments, ConnWindowUpdate(n)
    PROVE  SendInv'
<1>1. BodyTypes /\ LinkTypes
  BY DEF SendInv
<1>2. CASE ConnError
  BY <1>2, ConnErrorStep DEF ConnWindowUpdate
<1>3. CASE /\ conn_window' = conn_window + n /\ SchedIs(RescheduleBuffered(send_window))
           /\ UNCHANGED <<streamVars, peer, closed>>
  <2>1. n \in Int
    BY SendAssumption
  <2>2. LinkTypes'
    BY <1>1, <1>3, <2>1 DEF LinkTypes, ConnWindowUpdate
  <2>3. send_window' = send_window /\ send_window \in [Streams -> Int]
        /\ UNCHANGED <<state, buffered, send_done, priority, queue>>
    BY <1>1, <1>3 DEF BodyTypes, streamVars
  <2> QED BY <1>3, <2>2, <2>3, RescheduledStep
<1> QED BY <1>2, <1>3 DEF ConnWindowUpdate

LEMMA PeerSettingsStep ==
    ASSUME SendInv, NEW new \in [init : InitWindows, frame : FrameSizes], PeerSettings(new)
    PROVE  SendInv'
<1>1. BodyTypes /\ LinkTypes
  BY DEF SendInv
<1> DEFINE moved == [s \in Streams |-> IF Live(s) THEN send_window[s] + (new.init - peer.init) ELSE send_window[s]]
<1>2. CASE ConnError
  BY <1>2, ConnErrorStep DEF PeerSettings
<1>3. CASE /\ send_window' = moved /\ peer' = new /\ SchedIs(RescheduleBuffered(moved))
           /\ UNCHANGED <<state, buffered, send_done, priority, queue, conn_window, closed>>
  <2>1. LinkTypes'
    BY <1>1, <1>3 DEF LinkTypes, PeerSettings
  <2>2. new.init \in Int /\ peer.init \in Int
    <3>1. new.init \in InitWindows /\ peer.init \in InitWindows
      BY <1>1 DEF LinkTypes
    <3>2. \A x \in InitWindows : x \in Int
      BY SendAssumption
    <3> QED BY <3>1, <3>2
  <2>3. moved \in [Streams -> Int]
    <3>1. \A s \in Streams : send_window[s] \in Int /\ send_window[s] + (new.init - peer.init) \in Int
      BY <1>1, <2>2 DEF BodyTypes
    <3> QED BY <3>1
  <2> HIDE DEF moved
  <2> QED BY <1>3, <2>1, <2>3, RescheduledStep
<1> QED BY <1>2, <1>3 DEF PeerSettings

LEMMA StreamWindowUpdateStep ==
    ASSUME SendInv, NEW s \in Streams, NEW n \in Increments, StreamWindowUpdate(s, n)
    PROVE  SendInv'
<1>1. BodyTypes /\ LinkTypes /\ Buffering /\ Woken /\ SchedOK(Sched) /\ priority \in [Streams -> Priority]
  BY PriorityTypes DEF SendInv, BodyTypes
<1>2. CASE ConnError
  BY <1>2, ConnErrorStep DEF StreamWindowUpdate
<1>3. CASE /\ send_window' = [send_window EXCEPT ![s] = @ + n]
           /\ SchedIs(MaybeSchedule(Sched, s, queue, send_window'))
           /\ UNCHANGED <<state, buffered, send_done, priority, queue, conn_window, peer, closed>>
  <2>1. n \in Int
    BY SendAssumption
  <2>2. LinkTypes'
    BY <1>1, <1>3 DEF LinkTypes, StreamWindowUpdate
  <2>3. BodyTypes' /\ Buffering'
    BY <1>1, <1>3, <2>1 DEF BodyTypes, Buffering
  <2>4. PICK w : w = send_window'
    OBVIOUS
  <2>5. PICK sch : sch = MaybeSchedule(Sched, s, queue, w)
    OBVIOUS
  <2>6. /\ SchedOK(sch) /\ Covers(buckets, sch.buckets)
        /\ queue[s] # <<>> /\ Live(s) /\ w[s] > 0 => Tracked(sch.buckets, s)
    <3>1. Sched.buckets = buckets
      BY DEF Sched
    <3> QED BY <1>1, <2>5, <3>1, MaybeScheduleCovers
  <2>7. buckets' = sch.buckets /\ scheduled' = sch.scheduled
    BY <1>3, <2>4, <2>5 DEF SchedIs
  <2>8. SchedOK(Sched)'
    BY <2>6, <2>7 DEF SchedOK, Sched
  <2>9. ASSUME NEW t \in Streams, Sendable(state[t], queue[t], w[t], conn_window) PROVE Tracked(sch.buckets, t)
    <3>1. CASE t = s
      <4>1. queue[s] # <<>> /\ Live(s) /\ w[s] > 0
        BY <2>9, <3>1 DEF Sendable, Live
      <4> QED BY <2>6, <3>1, <4>1
    <3>2. CASE t # s
      <4>1. w[t] = send_window[t]
        BY <1>1, <1>3, <2>4, <3>2 DEF BodyTypes
      <4> QED BY <1>1, <2>6, <2>9, <4>1 DEF Woken, Covers
    <3> QED BY <3>1, <3>2
  <2>10. Woken'
    BY <1>3, <2>4, <2>7, <2>9 DEF Woken
  <2> QED BY <2>2, <2>3, <2>8, <2>10 DEF SendInv
<1> QED BY <1>2, <1>3 DEF StreamWindowUpdate

LEMMA PriorityUpdateStep ==
    ASSUME SendInv, NEW s \in Streams, NEW p \in Updates, PriorityUpdate(s, p)
    PROVE  SendInv'
<1>1. BodyTypes /\ LinkTypes /\ Buffering /\ Woken /\ SchedOK(Sched)
  BY DEF SendInv
<1>2. p \in Priorities /\ p \in Priority
  BY PriorityTypes, SendAssumption
<1>3. LinkTypes' /\ conn_window' = conn_window
  BY <1>1 DEF LinkTypes, PriorityUpdate
<1>4. /\ priority' = [priority EXCEPT ![s] = p] /\ scheduled' = scheduled /\ buckets' = Update(buckets, s, priority[s], p)
      /\ UNCHANGED <<state, send_window, buffered, send_done, queue>>
  BY DEF PriorityUpdate
<1>5. BodyTypes' /\ Buffering'
  BY <1>1, <1>2, <1>4 DEF BodyTypes, Buffering
<1>6. buckets' \in Buckets /\ Covers(buckets, buckets')
  <2>1. CASE priority[s] = p
    BY <1>1, <1>4, <2>1 DEF Update, SchedOK, Sched, Covers
  <2>2. CASE priority[s] # p
    <3>1. PICK c : c = RemoveStream(buckets, s)
      OBVIOUS
    <3>2. c \in Buckets /\ \A t : t # s /\ Tracked(buckets, t) => Tracked(c, t)
      BY <1>1, <3>1, RemoveKeeps DEF SchedOK, Sched
    <3>3. Add(c, s, p) \in Buckets /\ Tracked(Add(c, s, p), s) /\ \A t : Tracked(c, t) => Tracked(Add(c, s, p), t)
      BY <1>2, <3>2, AddTracks
    <3>4. buckets' = Add(c, s, p)
      BY <1>4, <2>2, <3>1 DEF Update
    <3> QED BY <3>2, <3>3, <3>4 DEF Covers
  <2> QED BY <2>1, <2>2
<1>7. SchedOK(Sched)'
  BY <1>1, <1>4, <1>6 DEF SchedOK, Sched, Covers
<1>8. Woken'
  BY <1>1, <1>3, <1>4, <1>6 DEF Woken, Covers
<1> QED BY <1>3, <1>5, <1>7, <1>8 DEF SendInv

LEMMA FlushStartStep ==
    ASSUME SendInv, FlushStart
    PROVE  SendInv'
<1>1. LinkTypes /\ SchedOK(Sched)
  BY DEF SendInv
<1>2. LinkTypes' /\ conn_window' <= conn_window
  <2>1. FlushFrames \in 0..FlushFrames
    BY SendAssumption
  <2> QED BY <1>1, <2>1 DEF LinkTypes, FlushStart
<1>3. UNCHANGED streamVars /\ buckets' = buckets /\ scheduled' = scheduled
  BY DEF FlushStart, schedVars
<1>4. scheduled' = scheduled \ {None} /\ buckets' \in Buckets /\ None \notin Streams
  BY <1>1, <1>3, SchedulerAssumption DEF SchedOK, Sched
<1> QED BY <1>2, <1>3, <1>4, SchedulerStep

\* The pick of emit_data_frames().
LEMMA PickMade ==
    ASSUME SendInv
    PROVE  Picks(buckets, NextStream(buckets, peer.frame)) /\ peer.frame \in Nat \ {0}
<1>1. buckets \in Buckets
  BY DEF SendInv, SchedOK, Sched
<1>2. peer.frame \in Nat \ {0}
  BY SendAssumption DEF SendInv, LinkTypes
<1> QED BY <1>1, <1>2, NextPicks

LEMMA EmitNothingStep ==
    ASSUME SendInv, EmitNothing
    PROVE  SendInv'
<1>1. LinkTypes /\ SchedOK(Sched) /\ scheduled \in SUBSET Streams /\ None \notin Streams
  BY SchedulerAssumption DEF SendInv, SchedOK, Sched
<1>2. PICK pick : pick = NextStream(buckets, peer.frame)
  OBVIOUS
<1>3. Picks(buckets, pick)
  BY <1>2, PickMade
<1>4. /\ pick.sid = None /\ buckets' = pick.buckets /\ UNCHANGED streamVars /\ scheduled' = scheduled
      /\ budget' = 0 /\ served' = None /\ conn_window' = conn_window /\ peer' = peer /\ closed' = closed
  BY <1>2 DEF EmitNothing
<1>5. LinkTypes' /\ conn_window' <= conn_window
  BY <1>1, <1>4, SendAssumption DEF LinkTypes
<1>6. buckets' \in Buckets /\ \A t : t # None /\ Tracked(buckets, t) => Tracked(buckets', t)
  BY <1>3, <1>4 DEF Picks
<1>7. scheduled' = scheduled \ {None}
  BY <1>1, <1>4
<1> QED BY <1>1, <1>4, <1>5, <1>6, <1>7, SchedulerStep

LEMMA EmitSkipStep ==
    ASSUME SendInv, EmitSkip
    PROVE  SendInv'
<1>1. LinkTypes
  BY DEF SendInv
<1>2. PICK pick : pick = NextStream(buckets, peer.frame)
  OBVIOUS
<1>3. Picks(buckets, pick)
  BY <1>2, PickMade
<1>4. PICK s : s = pick.sid
  OBVIOUS
<1>5. /\ SchedIs(Deschedule([buckets |-> pick.buckets, scheduled |-> scheduled], s)) /\ UNCHANGED streamVars
      /\ budget > 0 /\ budget' = budget - 1 /\ served' = None /\ conn_window' = conn_window /\ peer' = peer /\ closed' = closed
      /\ ~Live(s) \/ send_window[s] <= 0 \/ conn_window <= 0 \/ queue[s] = <<>>
  BY <1>2, <1>4 DEF EmitSkip
<1>6. LinkTypes' /\ conn_window' <= conn_window
  BY <1>1, <1>5, SendAssumption DEF LinkTypes
<1>7. buckets' = RemoveStream(pick.buckets, s) /\ scheduled' = scheduled \ {s}
  BY <1>5 DEF SchedIs, Deschedule
<1>8. PICK b \in Buckets : b = pick.buckets
  BY <1>3 DEF Picks
<1>9. RemoveStream(b, s) \in Buckets /\ \A t : t # s /\ Tracked(b, t) => Tracked(RemoveStream(b, s), t)
  BY RemoveKeeps
<1>10. buckets' \in Buckets /\ \A t : t # s /\ Tracked(buckets, t) => Tracked(buckets', t)
  BY <1>3, <1>4, <1>7, <1>8, <1>9 DEF Picks
<1>11. s \in Streams => ~Sendable(state[s], queue[s], send_window[s], conn_window)
  <2> SUFFICES ASSUME s \in Streams, Sendable(state[s], queue[s], send_window[s], conn_window) PROVE FALSE
    OBVIOUS
  <2>1. Live(s) /\ send_window[s] > 0 /\ conn_window > 0 /\ queue[s] # <<>>
    BY DEF Sendable, Live
  <2>2. send_window[s] \in Int /\ conn_window \in Int
    BY DEF SendInv, BodyTypes, LinkTypes
  <2> QED BY <1>5, <2>1, <2>2
<1> QED BY <1>5, <1>6, <1>7, <1>10, <1>11, SchedulerStep

LEMMA LeastOfFour ==
    ASSUME NEW a \in Int, NEW b \in Int, NEW c \in Int, NEW d \in Int,
           NEW S, S = {a, b, c, d}, NEW m, m = Min(S)
    PROVE  m \in {a, b, c, d} /\ m <= a /\ m <= b /\ m <= c /\ m <= d
<1>1. \E y \in {a, b, c, d} : \A x \in {a, b, c, d} : y <= x
  <2>1. CASE a <= b /\ a <= c /\ a <= d
    BY <2>1
  <2>2. CASE b <= a /\ b <= c /\ b <= d
    BY <2>2
  <2>3. CASE c <= a /\ c <= b /\ c <= d
    BY <2>3
  <2>4. CASE d <= a /\ d <= b /\ d <= c
    BY <2>4
  <2> QED BY <2>1, <2>2, <2>3, <2>4
<1>2. m \in {a, b, c, d} /\ \A x \in {a, b, c, d} : m <= x
  BY <1>1 DEF Min
<1> QED BY <1>2

\* A DATA frame fits both windows, the peer's frame size and its chunk.
LEMMA FrameFits ==
    ASSUME SendInv, NEW s \in Streams, send_window[s] > 0, conn_window > 0, queue[s] # <<>>
    PROVE  /\ FrameLen(s) \in Nat /\ FrameLen(s) <= send_window[s] /\ FrameLen(s) <= conn_window
           /\ Head(queue[s]).len \in Nat /\ FrameLen(s) <= Head(queue[s]).len
<1>1. send_window[s] \in Int /\ conn_window \in Int /\ queue[s] \in Seq(Chunk)
  BY DEF SendInv, BodyTypes, LinkTypes
<1>2. peer.frame \in Nat \ {0}
  BY PickMade
<1>3. Head(queue[s]) \in Chunk
  BY <1>1, TailElements
<1>4. Head(queue[s]).len \in Nat
  BY <1>3 DEF Chunk
<1>5. /\ FrameLen(s) \in {send_window[s], conn_window, peer.frame, Head(queue[s]).len}
      /\ FrameLen(s) <= send_window[s] /\ FrameLen(s) <= conn_window /\ FrameLen(s) <= Head(queue[s]).len
  <2>1. PICK a \in Int, b \in Int, c \in Int, d \in Int :
             a = send_window[s] /\ b = conn_window /\ c = peer.frame /\ d = Head(queue[s]).len
    BY <1>1, <1>2, <1>4
  <2>2. FrameLen(s) = Min({a, b, c, d})
    BY <2>1 DEF FrameLen
  <2>3. PICK m : m = FrameLen(s)
    OBVIOUS
  <2>4. PICK S : S = {a, b, c, d}
    OBVIOUS
  <2>5. m \in {a, b, c, d} /\ m <= a /\ m <= b /\ m <= d
    <3>1. m = Min(S)
      BY <2>2, <2>3, <2>4
    <3> QED BY <2>4, <3>1, LeastOfFour, ZenonT(60)
  <2> QED BY <2>1, <2>3, <2>5
<1> QED BY <1>1, <1>2, <1>4, <1>5

\* What stays queued is what the frame leaves of it.
LEMMA RestHolds ==
    ASSUME SendInv, NEW s \in Streams, send_window[s] > 0, conn_window > 0, queue[s] # <<>>
    PROVE  /\ Rest(s) \in Seq(Chunk) /\ FrameLen(s) <= buffered[s] /\ Holds(Rest(s), buffered[s] - FrameLen(s))
           /\ Ends(s) => Rest(s) = <<>>
<1>1. PICK q \in Seq(Chunk) : q = queue[s]
  BY DEF SendInv, BodyTypes
<1>2. PICK n \in Nat : n = buffered[s] /\ Holds(q, n)
  BY <1>1 DEF SendInv, BodyTypes, Buffering
<1>3. PICK f \in Nat : f = FrameLen(s) /\ f <= Head(q).len
  BY <1>1, FrameFits
<1>4. CASE f = Head(q).len
  <2>1. Rest(s) = Tail(q)
    BY <1>1, <1>3, <1>4 DEF Rest
  <2>2. Tail(q) \in Seq(Chunk) /\ f <= n /\ Holds(Tail(q), n - f)
    BY <1>1, <1>2, <1>4, HoldsTail
  <2> QED BY <1>1, <1>2, <1>3, <2>1, <2>2 DEF Ends
<1>5. CASE f # Head(q).len
  <2>1. PICK r : r = <<[Head(q) EXCEPT !.len = @ - f]>> \o Tail(q)
    OBVIOUS
  <2>2. Rest(s) = r
    BY <1>1, <1>3, <1>5, <2>1 DEF Rest
  <2>3. r \in Seq(Chunk) /\ f <= n /\ Holds(r, n - f)
    BY <1>1, <1>2, <1>3, <2>1, HoldsShrunk
  <2> QED BY <1>1, <1>2, <1>3, <1>5, <2>2, <2>3 DEF Ends
<1> QED BY <1>4, <1>5

LEMMA EmitFrameStep ==
    ASSUME SendInv, EmitFrame
    PROVE  SendInv' /\ conn_window' >= 0 /\ served' \in Streams /\ send_window'[served'] >= 0
<1>1. BodyTypes /\ LinkTypes /\ Buffering /\ Woken /\ SchedOK(Sched) /\ priority \in [Streams -> Priority]
  BY PriorityTypes DEF SendInv, BodyTypes
<1>2. PICK pick : pick = NextStream(buckets, peer.frame)
  OBVIOUS
<1>3. Picks(buckets, pick)
  BY <1>2, PickMade
<1>4. PICK s \in Streams : s = pick.sid
  BY <1>2, <1>3 DEF Picks, EmitFrame
<1>5. PICK b \in Buckets : b = pick.buckets /\ \A t : t # s /\ Tracked(buckets, t) => Tracked(b, t)
  BY <1>3, <1>4 DEF Picks
<1>6. send_window[s] > 0 /\ conn_window > 0 /\ queue[s] # <<>> /\ Live(s)
  BY <1>2, <1>4 DEF EmitFrame
<1>7. PICK f \in Nat : f = FrameLen(s) /\ f <= send_window[s] /\ f <= conn_window
  BY <1>6, FrameFits
<1>8. PICK r \in Seq(Chunk) : r = Rest(s) /\ f <= buffered[s] /\ Holds(r, buffered[s] - f) /\ (Ends(s) => r = <<>>)
  BY <1>6, <1>7, RestHolds
<1>9. /\ conn_window' = conn_window - f /\ budget > 0 /\ budget' = budget - 1 /\ served' = s /\ peer' = peer /\ closed' = closed
  BY <1>2, <1>4, <1>7 DEF EmitFrame
<1>10. LinkTypes' /\ conn_window' <= conn_window /\ conn_window' >= 0
  BY <1>1, <1>7, <1>9, SendAssumption DEF LinkTypes
<1> DEFINE q == [queue EXCEPT ![s] = r]
           w == [send_window EXCEPT ![s] = @ - f]
           popped == [buckets |-> b, scheduled |-> scheduled \ {s}]
           stays == /\ send_window' = w /\ buffered' = [buffered EXCEPT ![s] = @ - f] /\ queue' = q
                    /\ ~Ends(s) \/ state[s] # "half_closed_remote"
                    /\ state' = IF Ends(s) /\ state[s] = "open" THEN [state EXCEPT ![s] = "half_closed_local"] ELSE state
                    /\ SchedIs(IF r = <<>> THEN Deschedule(popped, s) ELSE MaybeSchedule(popped, s, q, w))
                    /\ UNCHANGED <<send_done, priority>>
<1>11. CloseStream(s, b) \/ stays
  BY <1>2, <1>4, <1>5, <1>7, <1>8 DEF EmitFrame
<1>12. CASE CloseStream(s, b)
  <2>1. SendInv'
    BY <1>5, <1>10, <1>12, ClosingKeeps
  <2>2. send_window'[s] = 0
    BY <1>1, <1>12 DEF CloseStream, BodyTypes
  <2> QED BY <1>9, <1>10, <2>1, <2>2
<1>13. CASE stays
  <2>1. /\ q \in [Streams -> Seq(Chunk)] /\ q[s] = r /\ \A t \in Streams : t # s => q[t] = queue[t]
        /\ w \in [Streams -> Int] /\ w[s] = send_window[s] - f /\ \A t \in Streams : t # s => w[t] = send_window[t]
    BY <1>1 DEF BodyTypes
  <2>2. buffered[s] - f \in Nat /\ w[s] >= 0
    BY <1>1, <1>7, <1>8, <2>1 DEF BodyTypes
  <2>3. SchedOK(popped) /\ popped.buckets = b /\ popped.scheduled = scheduled \ {s}
    <3>1. scheduled \in SUBSET Streams /\ \A t \in scheduled : Tracked(buckets, t)
      BY <1>1 DEF SchedOK, Sched
    <3>2. popped.buckets = b /\ popped.scheduled = scheduled \ {s}
      OBVIOUS
    <3> HIDE DEF popped
    <3> QED BY <1>5, <3>1, <3>2 DEF SchedOK
  <2> HIDE DEF q, w, popped
  <2>4. /\ send_window' = w /\ buffered' = [buffered EXCEPT ![s] = buffered[s] - f] /\ queue' = q
        /\ send_done' = send_done /\ priority' = priority
    BY <1>13
  <2>5. state[s] \in {"open", "half_closed_remote"}
    BY <1>1, <1>6 DEF Buffering, BodyTypes
  <2>6. PICK st : /\ state' = [state EXCEPT ![s] = st] /\ st \in {"open", "half_closed_remote", "half_closed_local"}
                  /\ (st = "half_closed_local" => r = <<>>)
    <3>1. CASE Ends(s) /\ state[s] = "open"
      BY <1>8, <1>13, <3>1
    <3>2. CASE ~(Ends(s) /\ state[s] = "open")
      <4>1. state' = state /\ state = [state EXCEPT ![s] = state[s]]
        BY <1>1, <1>13, <3>2 DEF BodyTypes
      <4> QED BY <2>5, <4>1
    <3> QED BY <3>1, <3>2
  <2>7. BodyTypes'
    BY <1>1, <2>1, <2>2, <2>4, <2>6 DEF BodyTypes
  <2>8. Buffering'
    <3>1. ASSUME NEW t \in Streams
          PROVE  Holds(queue'[t], buffered'[t]) /\ (state'[t] \notin {"open", "half_closed_remote"} => queue'[t] = <<>>)
      <4>1. CASE t = s
        BY <1>1, <1>8, <2>1, <2>4, <2>6, <4>1 DEF BodyTypes
      <4>2. CASE t # s
        BY <1>1, <2>1, <2>4, <2>6, <4>2 DEF BodyTypes, Buffering
      <4> QED BY <4>1, <4>2
    <3> QED BY <3>1 DEF Buffering
  <2>9. PICK sch : SchedIs(sch) /\ sch = IF r = <<>> THEN Deschedule(popped, s) ELSE MaybeSchedule(popped, s, q, w)
    BY <1>13
  <2>10. /\ SchedOK(sch) /\ \A t : t # s /\ Tracked(b, t) => Tracked(sch.buckets, t)
         /\ r # <<>> /\ w[s] > 0 => Tracked(sch.buckets, s)
    <3>1. CASE r = <<>>
      <4>1. RemoveStream(b, s) \in Buckets /\ \A t : t # s /\ Tracked(b, t) => Tracked(RemoveStream(b, s), t)
        BY RemoveKeeps
      <4>2. sch.buckets = RemoveStream(b, s) /\ sch.scheduled = scheduled \ {s}
        BY <2>3, <2>9, <3>1 DEF Deschedule
      <4> QED BY <2>3, <3>1, <4>1, <4>2 DEF SchedOK
    <3>2. CASE r # <<>>
      <4>1. sch = MaybeSchedule(popped, s, q, w)
        BY <2>9, <3>2
      <4>2. /\ SchedOK(sch) /\ Covers(b, sch.buckets)
            /\ q[s] # <<>> /\ Live(s) /\ w[s] > 0 => Tracked(sch.buckets, s)
        BY <1>1, <2>3, <4>1, MaybeScheduleCovers
      <4> QED BY <1>6, <2>1, <4>2 DEF Covers
    <3> QED BY <3>1, <3>2
  <2>11. buckets' = sch.buckets /\ scheduled' = sch.scheduled
    BY <2>9 DEF SchedIs
  <2>12. SchedOK(Sched)'
    BY <2>10, <2>11 DEF SchedOK, Sched
  <2>13. ASSUME NEW t \in Streams, Sendable(state'[t], q[t], w[t], conn_window') PROVE Tracked(sch.buckets, t)
    <3>1. CASE t = s
      BY <2>1, <2>10, <2>13, <3>1 DEF Sendable
    <3>2. CASE t # s
      <4>1. state'[t] = state[t] /\ q[t] = queue[t] /\ w[t] = send_window[t]
        BY <1>1, <2>1, <2>6, <3>2 DEF BodyTypes
      <4>2. Sendable(state[t], queue[t], send_window[t], conn_window)
        BY <1>6, <2>13, <4>1 DEF Sendable
      <4> QED BY <1>1, <1>5, <2>10, <3>2, <4>2 DEF Woken
    <3> QED BY <3>1, <3>2
  <2>14. Woken'
    BY <2>4, <2>11, <2>13 DEF Woken
  <2>15. SendInv'
    BY <1>10, <2>7, <2>8, <2>12, <2>14 DEF SendInv
  <2> QED BY <1>9, <1>10, <2>2, <2>4, <2>15
<1> QED BY <1>11, <1>12, <1>13

LEMMA SendNext ==
    ASSUME SendInv, Next
    PROVE  SendInv' /\ (served' # None => conn_window' >= 0 /\ send_window'[served'] >= 0)
<1>1. CASE Application
  <2>1. SendInv'
    BY <1>1, SendHeadersStep, EnqueueStep, ResetStep DEF Application
  <2>2. served' = None
    BY <1>1 DEF Application, SendHeaders, Enqueue, Reset
  <2> QED BY <2>1, <2>2
<1>2. CASE Peer
  <2>1. SendInv'
    BY <1>2, PeerHeadersStep, PeerEndStep, StreamWindowUpdateStep, PriorityUpdateStep, ConnWindowUpdateStep, PeerSettingsStep DEF Peer
  <2>2. served' = None
    BY <1>2 DEF Peer, PeerHeaders, PeerEnd, StreamWindowUpdate, PriorityUpdate, ConnWindowUpdate, PeerSettings
  <2> QED BY <2>1, <2>2
<1>3. CASE FlushStart \/ EmitNothing \/ EmitSkip
  <2>1. SendInv'
    BY <1>3, FlushStartStep, EmitNothingStep, EmitSkipStep
  <2>2. served' = None
    BY <1>3 DEF FlushStart, EmitNothing, EmitSkip
  <2> QED BY <2>1, <2>2
<1>4. CASE EmitFrame
  BY <1>4, EmitFrameStep
<1> QED BY <1>1, <1>2, <1>3, <1>4 DEF Next, Flush

LEMMA SendStutter == SendInv /\ UNCHANGED vars => SendInv'
BY DEF SendInv, BodyTypes, LinkTypes, Buffering, SchedOK, Sched, Woken, vars

\* The sending half of a connection (send_data, maybe_schedule, emit_data_frames): for all
\* streams, windows, frame sizes and priorities, a body that both windows let through is in
\* the scheduler, what is marked as scheduled is in it too, and END_STREAM leaves last.
THEOREM SendStateStaysKept == Spec => []SendStateKept
<1>1. SendInv /\ [Next]_vars => SendInv'
  BY SendNext, SendStutter
<1> QED BY <1>1, SendStart, SendEnough, PTL DEF Spec

\* No frame takes a window below zero, whatever SETTINGS and WINDOW_UPDATEs came before it
\* (emit_data_frames clamps to both windows).
THEOREM WindowsNeverOverspent == Spec => NeverOverspends
<1>1. SendInv /\ [Next]_vars => SendInv'
  BY SendNext, SendStutter
<1>2. SendInv /\ [Next]_vars => [served' # None => conn_window' >= 0 /\ send_window'[served'] >= 0]_vars
  BY SendNext DEF vars
<1> QED BY <1>1, <1>2, SendStart, PTL DEF Spec, NeverOverspends
=============================================================================
