------------------------------ MODULE H2Streams ------------------------------
(***************************************************************************)
(* The stream table of a server's courierust_h2::Connection: which streams *)
(* exist, which are remembered as recently closed, which the application   *)
(* was given, and what GOAWAY and REFUSED_STREAM promised the client.      *)
(*                                                                         *)
(* The client and the server exchange frames over two FIFO channels.  A    *)
(* conforming client sends what RFC 9113 allows in the state it sees;      *)
(* another sends any frame on any stream.  Header blocks arrive whole and  *)
(* bodies are only their frames; credit is the subject of H2Send and       *)
(* H2Recv.  Stream k stands for the k-th client stream, id 2k - 1.         *)
(***************************************************************************)
EXTENDS Naturals, Sequences, FiniteSets, SequencesExt

CONSTANTS NStreams,       \* client streams, opened in order
          Configs,        \* the configurations to explore, see `config'
          ClosedTrack,    \* capacity of recently_closed, 2048 in the code
          MaxFlight,      \* bound: frames on their way to the server
          MaxOut,         \* bound: frames on their way to the client
          MaxEvents       \* bound: events of one stream

ASSUME StreamsAssumption ==
    /\ {NStreams, ClosedTrack, MaxFlight, MaxOut, MaxEvents} \subseteq Nat \ {0}
    /\ Configs \subseteq [max_concurrent : Nat \ {0}, upgrade : BOOLEAN, conforming : BOOLEAN]

HsStreams == 1..NStreams

VARIABLES config,     \* SETTINGS_MAX_CONCURRENT_STREAMS of the server, whether the
                      \* connection began as an h2c Upgrade on stream 1, and
                      \* whether the client conforms; never changes
          table,      \* live streams and their state; "none": no record
          last_peer,  \* StreamMap::last_peer_id
          ring,       \* recently_closed
          goaway,     \* goaway_sent
          hsclosed,     \* Connection::closed
          inbox,      \* frames from the client
          outbox,     \* frames to the client
          log,        \* per stream, the events handed to the application
          hspeer        \* the client's view

hsvars == <<config, table, last_peer, ring, goaway, hsclosed, inbox, outbox, log, hspeer>>

Frame(t, s, e) == [type |-> t, stream |-> s, end |-> e]

HsLive(s) == table[s] # "none"

HsInit ==
    /\ config \in Configs
    /\ table = [s \in HsStreams |-> IF config.upgrade /\ s = 1 THEN "half_closed_remote" ELSE "none"]
    /\ last_peer = 0
    /\ ring = <<>>
    /\ goaway = FALSE
    /\ hsclosed = FALSE
    /\ inbox = <<>>
    /\ outbox = <<>>
    /\ log = [s \in HsStreams |-> IF config.upgrade /\ s = 1 THEN <<"headers_end">> ELSE <<>>]
    /\ hspeer = [state |-> [s \in HsStreams |-> IF config.upgrade /\ s = 1 THEN "ended" ELSE "idle"],
               goaway |-> FALSE,
               retry |-> {}]

-----------------------------------------------------------------------------
(* The server's bookkeeping *)

\* The ring forgets its oldest entries.
LastClosed(ids) == IF Len(ids) <= ClosedTrack THEN ids
                   ELSE [i \in 1..ClosedTrack |-> ids[Len(ids) - ClosedTrack + i]]

Remember(s) == LastClosed(Append(ring, s))

\* close_stream(): also run for ids that have no record.
HsCloseStream(s) ==
    /\ table' = [table EXCEPT ![s] = "none"]
    /\ ring' = Remember(s)

Deliver(s, e) == log' = [log EXCEPT ![s] = Append(@, e)]

\* conn_error(): GOAWAY unless one was sent, and the connection is closed.
HsConnError ==
    /\ outbox' = IF goaway THEN outbox ELSE Append(outbox, Frame("GOAWAY", last_peer, FALSE))
    /\ goaway' = TRUE
    /\ hsclosed' = TRUE
    /\ UNCHANGED <<table, last_peer, ring, log>>

\* stream_error(): RST_STREAM and close_stream().
StreamError(s, code) ==
    /\ outbox' = Append(outbox, Frame(code, s, TRUE))
    /\ HsCloseStream(s)
    /\ UNCHANGED <<goaway, hsclosed, log>>

-----------------------------------------------------------------------------
(* process_frame() *)

AfterEnd(st) == IF st = "open" THEN "half_closed_remote" ELSE "none"

\* Faulty variant: a GOAWAY does not end the admission of new requests.
AfterGoawayNever(s) == FALSE

\* The test that keeps the promise of a GOAWAY already sent.
AfterGoaway(s) == goaway /\ s > last_peer

TooMany == Cardinality({t \in HsStreams : HsLive(t)}) >= config.max_concurrent

\* finish_header_block() for an id without a record.  `bad` is the outcome of
\* validate_header_block().
NewRequest(f, bad) ==
    LET s == f.stream
    IN  \/ /\ bad
           /\ StreamError(s, "RST_STREAM")
           /\ last_peer' = IF s > last_peer THEN s ELSE last_peer
        \/ /\ ~bad /\ AfterGoaway(s)
           /\ StreamError(s, "REFUSED_STREAM")
           /\ UNCHANGED last_peer
        \/ /\ ~bad /\ ~AfterGoaway(s) /\ s <= last_peer
           /\ HsConnError
        \/ /\ ~bad /\ ~AfterGoaway(s) /\ s > last_peer /\ TooMany
           /\ last_peer' = s
           /\ outbox' = Append(outbox, Frame("REFUSED_STREAM", s, TRUE))
           /\ UNCHANGED <<table, ring, goaway, hsclosed, log>>
        \/ /\ ~bad /\ ~AfterGoaway(s) /\ s > last_peer /\ ~TooMany
           /\ last_peer' = s
           /\ table' = [table EXCEPT ![s] = IF f.end THEN "half_closed_remote" ELSE "open"]
           /\ Deliver(s, IF f.end THEN "headers_end" ELSE "headers")
           /\ UNCHANGED <<ring, goaway, hsclosed, outbox>>

\* finish_header_block() for a stream whose headers were delivered: trailers,
\* whatever the state of the stream.
Trailers(f, bad) ==
    LET s == f.stream
    IN  \/ /\ bad
           /\ StreamError(s, "RST_STREAM")
           /\ UNCHANGED last_peer
        \/ /\ ~bad
           /\ Deliver(s, "trailers")
           /\ IF table[s] = "half_closed_local"
              THEN HsCloseStream(s)
              ELSE /\ table' = [table EXCEPT ![s] = "half_closed_remote"]
                   /\ UNCHANGED ring
           /\ UNCHANGED <<last_peer, goaway, hsclosed, outbox>>

\* A trailer block carries no :method, so without a record it is malformed; a
\* conforming client sends no malformed request.
OnHeaders(f) ==
    /\ f.type \in {"HEADERS", "TRAILERS"}
    /\ \E bad \in BOOLEAN :
          /\ f.type = "TRAILERS" /\ ~HsLive(f.stream) => bad
          /\ config.conforming /\ bad => f.type = "TRAILERS" /\ ~HsLive(f.stream)
          /\ IF HsLive(f.stream) THEN Trailers(f, bad) ELSE NewRequest(f, bad)

\* Faulty variant: closed streams are not remembered.
RecentlyClosedNever(s) == FALSE

RecentlyClosed(s) == s \in ToSet(ring)

CanRecv(s) == table[s] \in {"open", "half_closed_local"}

OnData(f) ==
    LET s == f.stream
    IN  /\ f.type = "DATA"
        /\ UNCHANGED last_peer
        /\ \/ /\ ~HsLive(s) /\ RecentlyClosed(s)
              /\ outbox' = Append(outbox, Frame("RST_STREAM", s, TRUE))
              /\ UNCHANGED <<table, ring, goaway, hsclosed, log>>
           \/ /\ ~HsLive(s) /\ ~RecentlyClosed(s)
              /\ HsConnError
           \/ /\ HsLive(s) /\ ~CanRecv(s)
              /\ StreamError(s, "RST_STREAM")
           \/ /\ CanRecv(s)
              /\ Deliver(s, IF f.end THEN "data_end" ELSE "data")
              /\ IF f.end /\ table[s] = "half_closed_local"
                 THEN HsCloseStream(s)
                 ELSE /\ table' = [table EXCEPT ![s] = IF f.end THEN AfterEnd(@) ELSE @]
                      /\ UNCHANGED ring
              /\ UNCHANGED <<goaway, hsclosed, outbox>>

OnRst(f) ==
    LET s == f.stream
    IN  /\ f.type = "RST_STREAM"
        /\ UNCHANGED last_peer
        /\ \/ /\ HsLive(s)
              /\ Deliver(s, "rst")
              /\ HsCloseStream(s)
              /\ UNCHANGED <<goaway, hsclosed, outbox>>
           \/ /\ ~HsLive(s) /\ (RecentlyClosed(s) \/ s <= last_peer)
              /\ UNCHANGED <<table, ring, goaway, hsclosed, outbox, log>>
           \/ /\ ~HsLive(s) /\ ~RecentlyClosed(s) /\ s > last_peer
              /\ HsConnError

\* WINDOW_UPDATE of a stream: only the test for an idle stream matters here.
OnWindowUpdate(f) ==
    /\ f.type = "WINDOW_UPDATE"
    /\ IF HsLive(f.stream) \/ f.stream <= last_peer \/ RecentlyClosed(f.stream)
       THEN UNCHANGED <<table, last_peer, ring, goaway, hsclosed, outbox, log>>
       ELSE HsConnError /\ UNCHANGED last_peer

\* GOAWAY of the client, which names no client stream (id 0): every stream above
\* the id is closed, and no RST_STREAM is sent for it.
OnGoaway(f) ==
    LET gone == {s \in HsStreams : HsLive(s) /\ s > f.stream}
    IN  /\ f.type = "GOAWAY"
        /\ table' = [s \in HsStreams |-> IF s \in gone THEN "none" ELSE table[s]]
        /\ log' = [s \in HsStreams |-> IF s \in gone THEN Append(log[s], "rst") ELSE log[s]]
        /\ \E ids \in [1..Cardinality(gone) -> gone] :
              /\ \A i, j \in DOMAIN ids : i < j => ids[i] < ids[j]
              /\ ring' = LastClosed(ring \o ids)
        /\ UNCHANGED <<last_peer, goaway, hsclosed, outbox>>

Receive ==
    /\ ~hsclosed /\ inbox # <<>>
    /\ inbox' = Tail(inbox)
    /\ LET f == Head(inbox)
       IN  OnHeaders(f) \/ OnData(f) \/ OnRst(f) \/ OnWindowUpdate(f) \/ OnGoaway(f)
    /\ UNCHANGED <<config, hspeer>>

-----------------------------------------------------------------------------
(* The application *)

\* A complete response: send_headers() with END_STREAM, or send_data() whose last
\* frame has left (H2Send).
Respond(s) ==
    /\ ~hsclosed /\ ~goaway /\ table[s] \in {"open", "half_closed_remote"}
    /\ outbox' = Append(outbox, Frame("END_STREAM", s, TRUE))
    /\ \/ /\ table[s] = "open"
          /\ table' = [table EXCEPT ![s] = "half_closed_local"]
          /\ UNCHANGED ring
       \/ /\ table[s] = "half_closed_remote"
          /\ HsCloseStream(s)
    /\ UNCHANGED <<config, last_peer, goaway, hsclosed, inbox, log, hspeer>>

\* send_rst()
HsReset(s) ==
    /\ ~hsclosed /\ HsLive(s)
    /\ StreamError(s, "RST_STREAM")
    /\ UNCHANGED <<config, last_peer, inbox, hspeer>>

SendGoaway ==
    /\ ~hsclosed /\ ~goaway
    /\ goaway' = TRUE
    /\ outbox' = Append(outbox, Frame("GOAWAY", last_peer, FALSE))
    /\ UNCHANGED <<config, table, last_peer, ring, hsclosed, inbox, log, hspeer>>

-----------------------------------------------------------------------------
(* The client *)

ClientMay(type, s, e) ==
    \/ /\ type = "HEADERS" /\ hspeer.state[s] = "idle" /\ ~hspeer.goaway
       /\ \A t \in HsStreams : t < s => hspeer.state[t] # "idle"
    \/ type = "DATA" /\ hspeer.state[s] = "open"
    \/ type = "TRAILERS" /\ hspeer.state[s] = "open" /\ e
    \/ type = "RST_STREAM" /\ hspeer.state[s] \in {"open", "ended"} /\ e
    \/ type = "WINDOW_UPDATE" /\ hspeer.state[s] \in {"open", "ended"} /\ ~e

ClientState(type, st, e) ==
    CASE type = "RST_STREAM"    -> "done"
      [] type = "WINDOW_UPDATE" -> st
      [] OTHER                  -> IF e THEN "ended" ELSE "open"

ClientSend(type, s, e) ==
    /\ Len(inbox) < MaxFlight
    /\ config.conforming => ClientMay(type, s, e)
    /\ inbox' = Append(inbox, Frame(type, s, e))
    /\ hspeer' = IF config.conforming THEN [hspeer EXCEPT !.state[s] = ClientState(type, @, e)]
               ELSE hspeer
    /\ UNCHANGED <<config, table, last_peer, ring, goaway, hsclosed, outbox, log>>

\* At most one, with the client done opening streams.
ClientGoaway ==
    /\ Len(inbox) < MaxFlight /\ ~hspeer.goaway
    /\ inbox' = Append(inbox, Frame("GOAWAY", 0, FALSE))
    /\ hspeer' = [hspeer EXCEPT !.goaway = TRUE]
    /\ UNCHANGED <<config, table, last_peer, ring, goaway, hsclosed, outbox, log>>

\* Streams above the id of a GOAWAY, and refused ones, are safe to send again on
\* another connection: courierust_client does so.
ClientReceive ==
    /\ outbox # <<>>
    /\ outbox' = Tail(outbox)
    /\ LET f == Head(outbox)
           above == {t \in HsStreams : t > f.stream /\ hspeer.state[t] # "idle"}
       IN  hspeer' =
            CASE f.type = "GOAWAY" ->
                   [hspeer EXCEPT !.goaway = TRUE,
                                !.retry = @ \cup above,
                                !.state = [t \in HsStreams |->
                                             IF t \in above THEN "done" ELSE hspeer.state[t]]]
              [] f.type = "REFUSED_STREAM" ->
                   [hspeer EXCEPT !.retry = @ \cup {f.stream}, !.state[f.stream] = "done"]
              [] f.type = "RST_STREAM" -> [hspeer EXCEPT !.state[f.stream] = "done"]
              [] f.type = "END_STREAM" ->
                   [hspeer EXCEPT !.state[f.stream] = IF @ = "ended" THEN "done" ELSE @]
    /\ UNCHANGED <<config, table, last_peer, ring, goaway, hsclosed, inbox, log>>

-----------------------------------------------------------------------------

HsNext ==
    \/ Receive \/ SendGoaway \/ ClientGoaway \/ ClientReceive
    \/ \E s \in HsStreams :
          \/ Respond(s) \/ HsReset(s)
          \/ \E type \in {"HEADERS", "DATA", "TRAILERS", "RST_STREAM", "WINDOW_UPDATE"},
                e \in BOOLEAN : ClientSend(type, s, e)

HsSpec == HsInit /\ [][HsNext]_hsvars

\* The state constraint of the runs.
Bounded == Len(outbox) <= MaxOut /\ \A s \in HsStreams : Len(log[s]) <= MaxEvents

-----------------------------------------------------------------------------
(* Properties *)

HsTypeOK ==
    /\ table \in [HsStreams -> {"none", "open", "half_closed_local", "half_closed_remote"}]
    /\ last_peer \in 0..NStreams
    /\ ring \in Seq(HsStreams) /\ Len(ring) <= ClosedTrack
    /\ {goaway, hsclosed} \subseteq BOOLEAN
    /\ hspeer.state \in [HsStreams -> {"idle", "open", "ended", "done"}]
    /\ hspeer.retry \subseteq HsStreams

Processed == {s \in HsStreams : log[s] # <<>>}

\* finish_header_block(): "Running one anyway would execute a non-idempotent request
\* twice": a request the client may send again, because the stream was refused or
\* is above the id of our GOAWAY, was never given to the application.  The request
\* of an h2c Upgrade is set aside: last_peer_id does not count it, so a GOAWAY
\* sent before the next stream names it as unprocessed.
SafeRetry == Processed \cap hspeer.retry \subseteq (IF config.upgrade THEN {1} ELSE {})

\* Ids whose HEADERS arrived and of which nothing is kept, neither a record nor an
\* entry of recently_closed.  finish_header_block() makes them when it refuses a
\* stream for concurrency, close_stream() when the ring drops its oldest entry.
Unremembered ==
    {s \in HsStreams : /\ hspeer.state[s] # "idle" /\ ~HsLive(s) /\ s \notin ToSet(ring)
                       /\ \A i \in DOMAIN inbox : inbox[i].type = "HEADERS" => inbox[i].stream # s}
RefusedForRoom(s) == log[s] = <<>> /\ s <= last_peer

\* Comment of recently_closed: frames of a stream we already closed are "not a
\* connection error that would tear down unrelated streams".  A client that keeps to
\* the protocol loses the connection in two cases only: its DATA crossed our refusal
\* of the stream for concurrency, which recently_closed does not record, or was on its
\* way while as many streams were closed as the ring holds.
ConformingClientKept ==
    config.conforming /\ hsclosed =>
        \E s \in Unremembered : RefusedForRoom(s) \/ Len(ring) = ClosedTrack

\* SETTINGS_MAX_CONCURRENT_STREAMS bounds the live streams whatever the client does.
ConcurrencyBounded == Cardinality({s \in HsStreams : HsLive(s)}) <= config.max_concurrent

Opens == {"headers", "headers_end"}
EndEvents == {"headers_end", "data_end", "trailers"}

\* The application sees a well-formed message per stream whatever the client sends:
\* headers first and once, and no body after its end.  The stream of an h2c Upgrade is
\* set aside for a client that does not conform: last_peer_id does not count it, so
\* such a client may open it once more.
Reopened == IF config.upgrade /\ ~config.conforming THEN {1} ELSE {}
MessageOrder ==
    \A s \in HsStreams \ Reopened : \A i \in DOMAIN log[s] :
        /\ (log[s][i] \in Opens) <=> (i = 1)
        /\ log[s][i] \in {"data", "data_end"} => \A j \in 1..i - 1 : log[s][j] \notin EndEvents

\* What holds of the streams whatever the client sends.
StreamsInOrder == HsTypeOK /\ ConcurrencyBounded /\ MessageOrder /\ SafeRetry

=============================================================================
