------------------------------ MODULE ClientH2 ------------------------------
(***************************************************************************)
(* driver() of courierust_client/h2.rs: the thread that owns one HTTP/2    *)
(* connection of the client.  Callers queue requests on a channel and wait *)
(* for a reply; the driver defers what the peer's stream limit does not    *)
(* allow, feeds streaming request bodies, and turns the frames of a poll   *)
(* into replies and body chunks.                                           *)
(***************************************************************************)
EXTENDS Naturals, Sequences, FiniteSets, SequencesExt

CONSTANTS CdRequests,    \* the requests, 1..n
          CdUploads,     \* those with a streaming body
          CdLimit,       \* SETTINGS_MAX_CONCURRENT_STREAMS of the peer, 0: unlimited
          CdDeferred,    \* MAX_DEFERRED
          CdChunks,      \* bound: chunks of a body, either way
          CdWire         \* bound: frames of the server in flight

ASSUME CdAssumption ==
    /\ IsFiniteSet(CdRequests) /\ CdRequests = 1..Cardinality(CdRequests)
    /\ CdUploads \subseteq CdRequests /\ CdLimit \in Nat /\ CdDeferred \in Nat

VARIABLES drv,      \* the driver: pc, goaway, closed
          rxq,      \* commands in the channel
          deferred, \* commands waiting for a stream
          opened,   \* the request of each stream, in the order of their ids
          pend,     \* streams whose response is awaited
          bodies,   \* streams whose body is fed
          held,     \* streams with a pending_chunk
          user,     \* per request: reply, body, chunks, as its caller sees them
          app,      \* per request: chunks put into its body channel, and whether it is open
          srv,      \* per stream: what the server received and sent
          wire,     \* frames of the server not yet polled
          events    \* events not yet drained

cdvars == <<drv, rxq, deferred, opened, pend, bodies, held, user, app, srv, wire, events>>

Streams == CdRequests
Frame(t, s, n) == [type |-> t, stream |-> s, chunk |-> n]

CdInit ==
    /\ drv = [pc |-> "cmds", goaway |-> FALSE, closed |-> FALSE]
    /\ rxq = <<>> /\ deferred = <<>> /\ opened = <<>>
    /\ pend = {} /\ bodies = {} /\ held = {}
    /\ user = [r \in CdRequests |-> [reply |-> "idle", body |-> "none", got |-> 0]]
    /\ app = [r \in CdRequests |-> [made |-> 0, left |-> 0, open |-> r \in CdUploads]]
    /\ srv = [s \in Streams |-> [rx |-> 0, rxend |-> FALSE, state |-> "none", sent |-> 0]]
    /\ wire = <<>> /\ events = <<>>

CdGoto(l) == drv' = [drv EXCEPT !.pc = l]
Request(s) == opened[s]

\* The driver lets go of streams: what a caller still waits for is an error when the
\* channels were told, and the end of the body when the sender was only dropped.
Ended(u, told) ==
    [u EXCEPT !.reply = IF @ = "waiting" THEN "error" ELSE @,
              !.body = IF @ = "open" THEN (IF told THEN "error" ELSE "end") ELSE @]
Finish(rs, told) == user' = [r \in CdRequests |-> IF r \in rs THEN Ended(user[r], told) ELSE user[r]]
Of(ss) == {Request(s) : s \in ss}

-----------------------------------------------------------------------------
(* Commands *)

Submit(r) ==
    /\ user[r].reply = "idle" /\ drv.pc \in {"cmds", "retry", "exit"}
    /\ IF drv.pc = "exit" THEN user' = [user EXCEPT ![r].reply = "gone"] /\ UNCHANGED rxq
                          ELSE user' = [user EXCEPT ![r].reply = "waiting"] /\ rxq' = Append(rxq, r)
    /\ UNCHANGED <<drv, deferred, opened, pend, bodies, held, app, srv, wire, events>>

LimitReached == CdLimit # 0 /\ Cardinality(pend) >= CdLimit

\* handle_cmd() without a free stream, after a GOAWAY, and with a stream.
Handle(r) ==
    \/ /\ drv.goaway
       /\ Finish({r}, TRUE)
       /\ UNCHANGED <<opened, pend, bodies, srv>>
    \/ /\ ~drv.goaway /\ ~LimitReached
       /\ opened' = Append(opened, r)
       /\ pend' = pend \union {Len(opened) + 1}
       /\ bodies' = IF r \in CdUploads THEN bodies \union {Len(opened) + 1} ELSE bodies
       /\ srv' = [srv EXCEPT ![Len(opened) + 1].state = "asked",
                             ![Len(opened) + 1].rxend = r \notin CdUploads]
       /\ UNCHANGED user

\* retry_deferred(): in order, until the limit is met again.
RetryDeferred ==
    /\ drv.pc \in {"cmds", "retry"} /\ deferred # <<>> /\ ~LimitReached
    /\ deferred' = Tail(deferred)
    /\ Handle(Head(deferred))
    /\ UNCHANGED <<drv, rxq, held, app, wire, events>>

\* rx.try_recv(), once nothing deferred can be opened.
TakeCmd ==
    /\ drv.pc = "cmds" /\ rxq # <<>> /\ (deferred = <<>> \/ LimitReached)
    /\ rxq' = Tail(rxq)
    /\ \/ Handle(Head(rxq)) /\ UNCHANGED deferred
       \/ /\ ~drv.goaway /\ LimitReached
          /\ IF Len(deferred) < CdDeferred
               THEN deferred' = Append(deferred, Head(rxq)) /\ UNCHANGED user
               ELSE Finish({Head(rxq)}, TRUE) /\ UNCHANGED deferred
          /\ UNCHANGED <<opened, pend, bodies, srv>>
    /\ UNCHANGED <<drv, held, app, wire, events>>

\* open_request(), send_headers() or send_data() fails: the caller is told, no stream.
TakeCmdFails ==
    /\ drv.pc = "cmds" /\ rxq # <<>> /\ deferred = <<>> /\ ~LimitReached /\ ~drv.goaway
    /\ rxq' = Tail(rxq)
    /\ Finish({Head(rxq)}, TRUE)
    /\ UNCHANGED <<drv, deferred, opened, pend, bodies, held, app, srv, wire, events>>

EndCmds ==
    /\ drv.pc = "cmds" /\ rxq = <<>> /\ (deferred = <<>> \/ LimitReached)
    /\ CdGoto("poll")
    /\ UNCHANGED <<rxq, deferred, opened, pend, bodies, held, user, app, srv, wire, events>>

-----------------------------------------------------------------------------
(* Polling *)

\* The driver returns: fail_all() tells the callers of pending streams; commands it has
\* not taken, or has deferred, go with their reply channels.
Exit ==
    /\ drv' = [drv EXCEPT !.pc = "exit"]
    /\ Finish(Of(pend) \union ToSet(rxq) \union ToSet(deferred), TRUE)
    /\ rxq' = <<>> /\ deferred' = <<>> /\ pend' = {} /\ bodies' = {} /\ held' = {}
    /\ wire' = <<>> /\ events' = <<>>
    /\ UNCHANGED <<opened, app, srv>>

\* The end of the connection is the last thing that arrives on it.
AtEof == wire # <<>> /\ wire[Len(wire)].type = "eof"
Malformed == \E i \in 1..Len(wire) : wire[i].type = "bad"

\* poll_available() decodes what has arrived.
Poll ==
    /\ drv.pc = "poll" /\ ~Malformed
    /\ events' = IF AtEof THEN SubSeq(wire, 1, Len(wire) - 1) ELSE wire
    /\ drv' = [drv EXCEPT !.pc = "events", !.closed = IF AtEof THEN TRUE ELSE @]
    /\ wire' = <<>>
    /\ UNCHANGED <<rxq, deferred, opened, pend, bodies, held, user, app, srv>>

\* A connection error: the events of the same poll are not read.
PollFails == drv.pc = "poll" /\ Malformed /\ Exit

-----------------------------------------------------------------------------
(* drain_events() *)

Event == Head(events)
Pending(types) == drv.pc = "events" /\ events # <<>> /\ Event.type \in types /\ Event.stream \in pend
Drained ==
    /\ events' = Tail(events)
    /\ UNCHANGED <<rxq, deferred, opened, bodies, held, app, srv, wire>>

\* The head of a response: the caller gets it, with a body to read unless it is whole.
OnHeaders ==
    /\ Pending({"head", "headend"})
    /\ LET r == Request(Event.stream)
           whole == Event.type = "headend" IN
       /\ user' = [user EXCEPT ![r].reply = "head", ![r].body = IF whole THEN "end" ELSE "open"]
       /\ pend' = IF whole THEN pend \ {Event.stream} ELSE pend
    /\ Drained /\ UNCHANGED drv

\* A chunk, perhaps the last; above max_body the stream is reset and the caller told.
OnData ==
    /\ Pending({"data", "dataend"})
    /\ LET r == Request(Event.stream) IN
       \/ /\ user' = [user EXCEPT ![r].got = @ + 1,
                                  ![r].body = IF Event.type = "dataend" THEN "end" ELSE @]
          /\ pend' = IF Event.type = "dataend" THEN pend \ {Event.stream} ELSE pend
       \/ Finish({r}, TRUE) /\ pend' = pend \ {Event.stream}
    /\ Drained /\ UNCHANGED drv

OnTrailers ==
    /\ Pending({"trailers"})
    /\ Finish({Request(Event.stream)}, FALSE)
    /\ pend' = pend \ {Event.stream}
    /\ Drained /\ UNCHANGED drv

\* Faulty variant: a reset only drops the stream.
OnRstQuietly ==
    /\ Pending({"rst"})
    /\ Finish({Request(Event.stream)}, FALSE)
    /\ pend' = pend \ {Event.stream}
    /\ Drained /\ UNCHANGED drv

\* A reset by the peer, or a stream error found locally.
OnRst ==
    /\ Pending({"rst"})
    /\ Finish({Request(Event.stream)}, TRUE)
    /\ pend' = pend \ {Event.stream}
    /\ Drained /\ UNCHANGED drv

\* A GOAWAY fails the streams the server will not process.
OnGoaway ==
    /\ drv.pc = "events" /\ events # <<>> /\ Event.type = "goaway"
    /\ LET dead == {s \in pend : s > Event.stream} IN
       Finish(Of(dead), TRUE) /\ pend' = pend \ dead
    /\ drv' = [drv EXCEPT !.goaway = TRUE]
    /\ Drained

\* Events of a stream nobody waits for.
OnOther ==
    /\ drv.pc = "events" /\ events # <<>> /\ Event.type # "goaway" /\ Event.stream \notin pend
    /\ Drained /\ UNCHANGED <<drv, user, pend>>

EndEvents ==
    /\ drv.pc = "events" /\ events = <<>>
    /\ CdGoto("feed")
    /\ UNCHANGED <<rxq, deferred, opened, pend, bodies, held, user, app, srv, wire, events>>

-----------------------------------------------------------------------------
(* drain_stream_bodies(), check_timeouts(), apply_liveness() *)

Hold(s) == held' = held \union {s}

\* The chunk held back, or the next of the channel, goes to send_data().
FeedBody(s) ==
    LET r == Request(s)
        Sent == srv' = [srv EXCEPT ![s].rx = @ + 1] IN
    /\ drv.pc = "feed" /\ s \in bodies
    /\ \/ s \in held /\ Sent /\ held' = held \ {s} /\ UNCHANGED app
       \/ /\ s \notin held /\ app[r].left > 0
          /\ app' = [app EXCEPT ![r].left = @ - 1]
          /\ (Sent /\ UNCHANGED held) \/ (Hold(s) /\ UNCHANGED srv)
    /\ UNCHANGED <<drv, rxq, deferred, opened, pend, bodies, user, wire, events>>

\* The channel has ended (Disconnected), or its last item is an error (Ok(Err(_))): both
\* arms send END_STREAM, so that a failed upload and a complete one are one case here.
FeedEnd(s) ==
    /\ drv.pc = "feed" /\ s \in bodies \ held /\ app[Request(s)].left = 0 /\ ~app[Request(s)].open
    /\ srv' = [srv EXCEPT ![s].rxend = TRUE]
    /\ bodies' = bodies \ {s}
    /\ UNCHANGED <<drv, rxq, deferred, opened, pend, held, user, app, wire, events>>

\* send_data() fails: the stream is closed, its body is given up.
FeedFails(s) ==
    /\ drv.pc = "feed" /\ s \in bodies \ pend
    /\ s \in held \/ app[Request(s)].left > 0
    /\ bodies' = bodies \ {s} /\ held' = held \ {s}
    /\ UNCHANGED <<drv, rxq, deferred, opened, pend, user, app, srv, wire, events>>

\* The deadline is put off by every part of a response, and stays.
Overdue == pend

\* The channels are empty or a chunk waits.  Any pending stream may be past its deadline:
\* it is reset (the server has yet to see that) and its caller told.
CheckTimeouts ==
    /\ drv.pc = "feed"
    /\ \A s \in bodies \ held : app[Request(s)].left = 0 /\ app[Request(s)].open
    /\ \E late \in SUBSET Overdue : Finish(Of(late), TRUE) /\ pend' = pend \ late
    /\ CdGoto("retry")
    /\ UNCHANGED <<rxq, deferred, opened, bodies, held, app, srv, wire, events>>

DeadlinePasses(s) == CheckTimeouts /\ s \in pend \ pend'

\* is_closed(); SETTINGS or PING timeout; the idle timeout when nothing is in hand.
RoundEnds ==
    /\ drv.pc = "retry" /\ (deferred = <<>> \/ LimitReached)
    /\ \/ ~drv.closed /\ CdGoto("cmds")
          /\ UNCHANGED <<rxq, deferred, opened, pend, bodies, held, user, app, srv, wire, events>>
       \/ Exit

-----------------------------------------------------------------------------
(* The application and the server, who may move at any time: here, and in Submit, only  *)
(* where the driver has something to read or has just read it, which loses no behaviour *)
(* it can tell apart.                                                                   *)

\* A chunk; or the end of the body, closed or failed (see FeedEnd).
Produce(r) ==
    /\ app[r].open /\ drv.pc = "feed"
    /\ \/ app[r].made < CdChunks /\ app' = [app EXCEPT ![r].made = @ + 1, ![r].left = @ + 1]
       \/ app' = [app EXCEPT ![r].open = FALSE]
    /\ UNCHANGED <<drv, rxq, deferred, opened, pend, bodies, held, user, srv, wire, events>>

\* Per stream: a head, chunks, an end or a reset, in order; chunks also after a reset by
\* the client that the server has yet to see.
ServerSends(s) ==
    /\ drv.pc = "poll" /\ ~Malformed /\ ~AtEof /\ Len(wire) < CdWire
    /\ \E t \in {"head", "headend", "data", "dataend", "trailers", "rst"} :
          /\ CASE t \in {"head", "headend"} -> srv[s].state = "asked" /\ s \in pend
               [] t = "rst" -> srv[s].state \in {"asked", "head"} /\ s \in pend
               [] t \in {"data", "dataend"} -> srv[s].state = "head" /\ srv[s].sent < CdChunks
               [] OTHER -> srv[s].state = "head"
          /\ srv' = [srv EXCEPT ![s].state = CASE t = "head" -> "head"
                                               [] t \in {"headend", "dataend", "trailers"} -> "ended"
                                               [] t = "rst" -> "reset"
                                               [] OTHER -> @,
                                ![s].sent = IF t \in {"data", "dataend"} THEN @ + 1 ELSE @]
          /\ wire' = Append(wire, Frame(t, s, srv'[s].sent))
    /\ UNCHANGED <<drv, rxq, deferred, opened, pend, bodies, held, user, app, events>>

\* Once: a GOAWAY, the end of the connection, or a frame that breaks it.
ServerStops ==
    /\ drv.pc = "poll" /\ ~drv.goaway /\ ~drv.closed /\ Len(wire) < CdWire
    /\ \A i \in 1..Len(wire) : wire[i].type \notin {"goaway", "eof", "bad"}
    /\ \A i \in 1..Len(events) : events[i].type # "goaway"
    /\ \E t \in {"goaway", "eof", "bad"}, last \in 0..Len(opened) :
          /\ t # "goaway" => last = 0
          /\ wire' = Append(wire, Frame(t, last, 0))
    /\ UNCHANGED <<drv, rxq, deferred, opened, pend, bodies, held, user, app, srv, events>>

Driver ==
    \/ RetryDeferred \/ TakeCmd \/ TakeCmdFails \/ EndCmds \/ Poll \/ PollFails
    \/ OnHeaders \/ OnData \/ OnTrailers \/ OnRst \/ OnGoaway \/ OnOther \/ EndEvents
    \/ CheckTimeouts \/ RoundEnds
    \/ \E s \in 1..Len(opened) : FeedBody(s) \/ FeedEnd(s) \/ FeedFails(s)

CdNext ==
    \/ Driver \/ ServerStops
    \/ \E r \in CdRequests : Submit(r) \/ Produce(r)
    \/ \E s \in 1..Len(opened) : ServerSends(s)

CdSpec == CdInit /\ [][CdNext]_cdvars

-----------------------------------------------------------------------------
(* A response body that ends, ends because the server ended it, and whole:   *)
(* no reset, timeout, GOAWAY or dead connection looks like the end of a      *)
(* body.  A request body that ends has every chunk the application sent; one *)
(* that the application ends with an error ends for the server like a        *)
(* complete one, although "an error to abort the stream" is what the channel *)
(* is documented to carry: whole means here what was sent before the error.  *)
NoTruncation ==
    \A s \in 1..Len(opened) :
       LET r == Request(s) IN
       /\ user[r].body = "end" => srv[s].state = "ended" /\ user[r].got = srv[s].sent
       /\ srv[s].rxend /\ r \in CdUploads => srv[s].rx = app[r].made

(* Every request is answered in the end: with a response whose body ends, or *)
(* with an error, wherever the driver had it when something went wrong.      *)
RequestsEnded ==
    \A r \in CdRequests : user[r].reply # "waiting" /\ user[r].body # "open"
=============================================================================
