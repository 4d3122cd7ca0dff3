------------------------------ MODULE H2Driver ------------------------------
(***************************************************************************)
(* serve_loop() of courierust_server/h2.rs: one thread that flushes        *)
(* deferred bodies, polls the Connection, handles its events and applies   *)
(* the liveness policies, over and over.  Connection is kept to what the   *)
(* loop sees of it: live streams, queued events and queued body chunks;    *)
(* its windows are the choice of how much a flush emits.                   *)
(***************************************************************************)
EXTENDS Naturals, Sequences, FiniteSets, SequencesExt

CONSTANTS NStreams,     \* client streams
          NChunks,      \* chunks of a streaming body
          DrMaxFlight,    \* bound: client frames not yet read
          DrConfigs       \* what client and handler do, and which policies are on

DrStreams == 1..NStreams

VARIABLES drconfig,
          drconn,    \* Connection: state of each stream, events, send_queue, and the
                     \* streams whose end is queued and no longer scheduled
          loop,    \* serve_loop(): req_bodies, deferred, ending, peer_goaway, and its pc
          body,    \* per stream the channel (rx), the chunks made, and the sender;
                   \* "whole": the last bytes carry END_STREAM
          wire,    \* what has left for the client, per stream
          handled, \* the requests given to the handler
          client,  \* frames in flight, what it has sent per stream, what it may still send
          clock    \* which deadlines have passed, and the keepalive

drvars == <<drconfig, drconn, loop, body, wire, handled, client, clock>>

Ev(t, s, e) == [type |-> t, stream |-> s, end |-> e]

\* What is queued and sent: chunks are their numbers.
HEADERS == 0
END == NChunks + 1
RST == NChunks + 2
ERROR == NChunks + 3

PerStream(v) == [s \in DrStreams |-> v]

DrInit ==
    /\ drconfig \in DrConfigs
    /\ drconn = [state |-> PerStream("none"), events |-> <<>>, sendq |-> PerStream(<<>>), unscheduled |-> {}]
    /\ loop = [pc |-> IF drconfig.upgrade THEN "upgrade" ELSE "top", req_bodies |-> {}, deferred |-> {}, ending |-> {}, todo |-> {},
               peer_goaway |-> FALSE]
    /\ body = PerStream([rx |-> <<>>, made |-> 0, sender |-> "none"])
    /\ wire = PerStream(<<>>) /\ handled = PerStream(<<>>)
    /\ client = [inbox |-> <<>>, control |-> drconfig.control,
                 said |-> [s \in DrStreams |-> IF drconfig.upgrade /\ s = 1 THEN "ended" ELSE "idle"]]
    /\ clock = [settings |-> "pending", idle |-> FALSE, quiet |-> FALSE, ping |-> "none"]

-----------------------------------------------------------------------------
(* What the loop uses of Connection *)

DrLive(s) == drconn.state[s] \in {"open", "remote", "local"}
DrCanSend(s) == drconn.state[s] \in {"open", "remote"}
Buffered(s) == Len(SelectSeq(drconn.sendq[s], LAMBDA c : c # END))

Closed(c, s) ==
    [c EXCEPT !.state[s] = "closed", !.sendq[s] = <<>>, !.unscheduled = @ \ {s}]
DrQueue(c, s, items) == [c EXCEPT !.sendq[s] = @ \o items]
EndLocal(c, s) == IF c.state[s] = "remote" THEN Closed(c, s) ELSE [c EXCEPT !.state[s] = "local"]
EndRemote(c, s) == IF c.state[s] = "local" THEN Closed(c, s) ELSE [c EXCEPT !.state[s] = "remote"]
Event(c, ev) == [c EXCEPT !.events = Append(@, ev)]

\* flush_outbound(): n[s] queued items of each stream reach the transport.  When body
\* bytes spend the connection window, an end queued as a chunk of its own leaves the
\* scheduler, and connection credit does not put it back: only streams with buffered
\* bytes are.  Credit of the stream itself still may.
Windows == {n \in [DrStreams -> 0..NChunks + 1] : \A s \in DrStreams : n[s] <= Len(drconn.sendq[s])}
Emits(n) ==
    LET out == [s \in DrStreams |-> SubSeq(drconn.sendq[s], 1, n[s])]
        kept == [drconn EXCEPT !.sendq = [s \in DrStreams |-> SubSeq(@[s], n[s] + 1, Len(@[s]))]]
        ended == {s \in DrStreams : END \in Range(out[s])}
        spent == \E s \in DrStreams : \E x \in Range(out[s]) : x \in 1..NChunks
        lone == {s \in DrStreams : body[s].sender = "gone" /\ kept.sendq[s] = <<END>>}
    IN  /\ wire' = [s \in DrStreams |-> wire[s] \o out[s]]
        /\ \E off \in {{}, IF spent THEN lone ELSE {}} :
              drconn' = FoldLeft(EndLocal, [kept EXCEPT !.unscheduled = (@ \cup off) \ ended],
                                 SetToSeq(ended))

-----------------------------------------------------------------------------
(* The loop: flush_deferred(), poll_available(), next_event(), the checks *)

Goto(l) == loop' = [loop EXCEPT !.pc = l]

\* With deferred bodies the round begins with conn.flush() and flush_deferred().
Top ==
    /\ loop.pc = "top"
    /\ IF loop.deferred = {} THEN Goto("poll") /\ UNCHANGED <<drconn, wire>>
       ELSE /\ loop' = [loop EXCEPT !.pc = "defer", !.todo = loop.deferred]
            /\ \E n \in Windows : Emits(n)
    /\ UNCHANGED <<drconfig, body, handled, client, clock>>

Forget(l, s) == [l EXCEPT !.deferred = @ \ {s}, !.ending = @ \ {s}, !.todo = @ \ {s}]
Leave(l, s) == [l EXCEPT !.todo = @ \ {s}]

\* END_STREAM, or the trailers, once the channel is drained.
DeferEnd(s) ==
    /\ s \in loop.ending
    /\ IF DrCanSend(s) THEN drconn' = DrQueue(drconn, s, <<END>>) /\ loop' = Forget(loop, s)
                     ELSE UNCHANGED drconn /\ loop' = Leave(loop, s)
    /\ UNCHANGED <<body, wire>>

\* A chunk, or an error of the producer.  A chunk the connection does not take is
\* gone.
DeferChunk(s) ==
    /\ s \notin loop.ending /\ body[s].rx # <<>>
    /\ body' = [body EXCEPT ![s].rx = Tail(@)]
    /\ LET chunk == Head(body[s].rx)
       IN  \/ /\ chunk = ERROR
              /\ drconn' = Closed(drconn, s) /\ loop' = Forget(loop, s)
              /\ wire' = [wire EXCEPT ![s] = Append(@, RST)]
           \/ /\ chunk # ERROR /\ DrCanSend(s) /\ Buffered(s) < drconfig.buffer
              /\ drconn' = DrQueue(drconn, s, <<chunk>>)
              /\ UNCHANGED <<loop, wire>>
           \/ /\ chunk # ERROR /\ ~(DrCanSend(s) /\ Buffered(s) < drconfig.buffer)
              /\ loop' = Leave(loop, s)
              /\ UNCHANGED <<drconn, wire>>

\* Empty, or disconnected once the sender is dropped.
DeferEmpty(s) ==
    /\ s \notin loop.ending /\ body[s].rx = <<>>
    /\ loop' = IF body[s].sender = "live" THEN Leave(loop, s)
               ELSE [loop EXCEPT !.ending = @ \cup {s}]
    /\ UNCHANGED <<drconn, body, wire>>

Defer(s) ==
    /\ loop.pc = "defer" /\ s \in loop.todo
    /\ DeferEnd(s) \/ DeferChunk(s) \/ DeferEmpty(s)
    /\ UNCHANGED <<drconfig, handled, client, clock>>

DeferDone ==
    /\ loop.pc = "defer" /\ loop.todo = {}
    /\ Goto("poll")
    /\ UNCHANGED <<drconfig, drconn, body, wire, handled, client, clock>>

\* What Ok(true) does: last_rx = now.  Bytes that reach the transport, those of
\* the PING itself among them, are progress as much as a frame read.
Progress == [clock EXCEPT !.idle = FALSE, !.quiet = FALSE,
                          !.ping = IF @ = "none" THEN @ ELSE "answered"]

Eof == client.inbox # <<>> /\ Head(client.inbox).type = "eof"

\* poll_available(): flush, a batch of frames, flush.
PollFlush ==
    /\ loop.pc \in {"poll", "read"}
    /\ loop.pc = "read" => ~Eof
    /\ Goto(IF loop.pc = "poll" THEN "read" ELSE "events")
    /\ \E n \in Windows :
         /\ Emits(n)
         /\ clock' = IF (\E s \in DrStreams : n[s] > 0)
                        \/ (loop.pc = "poll" /\ clock.ping \in {"queued", "late"})
                     THEN Progress ELSE clock
    /\ UNCHANGED <<drconfig, body, handled, client>>

\* process_frame(): see H2Streams.  GOAWAY resets the streams above its id.
Processed(c, f) ==
    LET s == f.stream
        gone == {t \in DrStreams : DrLive(t) /\ t > s}
    IN  CASE f.type = "headers" ->
               Event([c EXCEPT !.state[s] = IF f.end THEN "remote" ELSE "open"], f)
          [] f.type \in {"data", "trailers"} /\ DrLive(s) ->
               IF f.end THEN EndRemote(Event(c, f), s) ELSE Event(c, f)
          [] f.type = "rst" /\ DrLive(s) -> Closed(Event(c, f), s)
          [] f.type = "goaway" ->
               FoldLeft(LAMBDA d, t : Closed(Event(d, Ev("rst", t, FALSE)), t), Event(c, f),
                        SetToSeq(gone))
          [] OTHER -> c

PollRead ==
    /\ loop.pc = "read" /\ client.inbox # <<>>
    /\ LET f == Head(client.inbox)
       IN  /\ f.type # "eof"
           /\ drconn' = Processed(drconn, f)
           /\ clock' = IF f.type = "settings_ack" THEN [Progress EXCEPT !.settings = "acked"]
                       ELSE Progress
    /\ client' = [client EXCEPT !.inbox = Tail(@)]
    /\ UNCHANGED <<drconfig, loop, body, wire, handled>>

\* End of file or a connection error: serve_loop() returns with its events unread.
PollFails ==
    /\ loop.pc = "read" /\ Eof
    /\ Goto("failed")
    /\ UNCHANGED <<drconfig, drconn, body, wire, handled, client, clock>>

\* send_response(): no body (a HEAD request's among it), trailers alone, a whole
\* body, or a channel to be drained later.  A whole body that exceeds
\* max_send_buffer makes send_data() fail, and the `?' ends the connection.
Answer(s, c, l) ==
    \E kind \in drconfig.answers :
      /\ wire' = [wire EXCEPT ![s] = Append(@, HEADERS)]
      /\ body' = [body EXCEPT ![s].made = IF kind = "bytes" THEN 1 ELSE 0,
                              ![s].sender = CASE kind = "channel" -> "live"
                                              [] kind \in {"bytes", "huge"} -> "whole"
                                              [] OTHER -> "gone"]
      /\ drconn' = CASE kind = "empty" -> EndLocal(c, s)
                   [] kind = "trailers" -> DrQueue(c, s, <<END>>)
                   [] kind = "bytes" -> DrQueue(c, s, <<1, END>>)
                   [] OTHER -> c
      /\ loop' = CASE kind = "channel" -> [l EXCEPT !.deferred = @ \cup {s}]
                   [] kind = "huge" -> [l EXCEPT !.pc = "failed"]
                   [] OTHER -> l

\* serve_inner() after an h2c upgrade: stream 1 is registered and answered before
\* the loop starts.
Upgrade ==
    /\ loop.pc = "upgrade"
    /\ handled' = [handled EXCEPT ![1] = <<"upgrade">>]
    /\ Answer(1, [drconn EXCEPT !.state[1] = "remote"], [loop EXCEPT !.pc = "top"])
    /\ UNCHANGED <<drconfig, client, clock>>

\* build_request() and the handler.  A request that cannot be built, and
\* send_headers() on a stream that is gone, fail: the `?' ends the connection.
Handle(s, request, l) ==
    LET c == [drconn EXCEPT !.events = Tail(@)]
        fails == loop' = [l EXCEPT !.pc = "failed"] /\ drconn' = c /\ UNCHANGED <<body, wire>>
    IN  \/ /\ handled' = [handled EXCEPT ![s] = Append(@, request)]
           /\ (DrLive(s) /\ Answer(s, c, l)) \/ (~DrLive(s) /\ fails)
        \/ drconfig.malformed /\ fails /\ UNCHANGED handled

DrOnHeaders(ev) ==
    /\ ev.type = "headers"
    /\ IF ev.end THEN Handle(ev.stream, "empty", loop)
       ELSE /\ loop' = [loop EXCEPT !.req_bodies = @ \cup {ev.stream}]
            /\ drconn' = [drconn EXCEPT !.events = Tail(@)]
            /\ UNCHANGED <<handled, body, wire>>

\* Faulty variant: the request is handled with its first DATA.
OnDataEarly(ev) ==
    /\ ev.type = "data" /\ ev.stream \in loop.req_bodies
    /\ Handle(ev.stream, "body", loop)

\* The body grows past max_body, is not yet complete, or complete.
OnData(ev) ==
    /\ ev.type = "data" /\ ev.stream \in loop.req_bodies
    /\ LET done == [loop EXCEPT !.req_bodies = @ \ {ev.stream}]
       IN  \/ /\ drconfig.resets
              /\ loop' = done
              /\ drconn' = Closed([drconn EXCEPT !.events = Tail(@)], ev.stream)
              /\ wire' = [wire EXCEPT ![ev.stream] = Append(@, RST)]
              /\ UNCHANGED <<handled, body>>
           \/ /\ ~ev.end
              /\ drconn' = [drconn EXCEPT !.events = Tail(@)]
              /\ UNCHANGED <<handled, body, wire, loop>>
           \/ ev.end /\ Handle(ev.stream, "body", done)

ForgetStream(l, s) == Forget([l EXCEPT !.req_bodies = @ \ {s}], s)

\* Rst and StreamError, GoAway, and what the loop ignores: trailers among it.
OnOther(ev) ==
    /\ ev.type # "headers" /\ (ev.type = "data" => ev.stream \notin loop.req_bodies)
    /\ loop' = CASE ev.type = "rst" -> ForgetStream(loop, ev.stream)
                 [] ev.type = "goaway" -> [loop EXCEPT !.peer_goaway = TRUE]
                 [] OTHER -> loop
    /\ drconn' = [drconn EXCEPT !.events = Tail(@)]
    /\ UNCHANGED <<handled, body, wire>>

NextEvent ==
    /\ loop.pc = "events" /\ drconn.events # <<>>
    /\ LET ev == Head(drconn.events) IN DrOnHeaders(ev) \/ OnData(ev) \/ OnOther(ev)
    /\ UNCHANGED <<drconfig, client, clock>>

HasWork == loop.req_bodies # {} \/ loop.deferred # {}

\* apply_liveness(): the three reasons to leave the loop.
TimedOut ==
    \/ drconfig.settings_timeout /\ clock.settings = "late"
    \/ drconfig.idle_timeout /\ ~HasWork /\ clock.idle
    \/ drconfig.ping /\ clock.quiet /\ clock.ping = "late"

KeepAlive ==
    [clock EXCEPT !.ping = CASE ~drconfig.ping -> @
                             [] drconfig.ping /\ clock.quiet /\ @ = "none" -> "queued"
                             [] drconfig.ping /\ clock.quiet /\ @ \in {"queued", "late"} -> @
                             [] OTHER -> "none"]

\* The end of a round: is_closed() is not reached, since an error has returned.
Checks ==
    /\ loop.pc = "events" /\ drconn.events = <<>>
    /\ IF TimedOut THEN Goto("timeout") /\ UNCHANGED clock
       ELSE /\ clock' = KeepAlive
            /\ Goto(IF loop.peer_goaway /\ ~HasWork THEN "drained" ELSE "top")
    /\ UNCHANGED <<drconfig, drconn, body, wire, handled, client>>

-----------------------------------------------------------------------------
(* Time, producers, the client *)

Ended == loop.pc \in {"failed", "timeout", "drained"}

TimePasses ==
    /\ ~Ended
    /\ \/ drconfig.settings_timeout /\ clock.settings = "pending"
          /\ clock' = [clock EXCEPT !.settings = "late"]
       \/ drconfig.idle_timeout /\ ~clock.idle /\ clock' = [clock EXCEPT !.idle = TRUE]
       \/ drconfig.ping /\ ~clock.quiet /\ clock' = [clock EXCEPT !.quiet = TRUE]
       \/ clock.ping = "queued" /\ clock' = [clock EXCEPT !.ping = "late"]
    /\ UNCHANGED <<drconfig, drconn, loop, body, wire, handled, client>>

Produce(s) ==
    /\ body[s].sender = "live" /\ ~Ended
    /\ \/ /\ body[s].made < drconfig.chunks
          /\ body' = [body EXCEPT ![s].made = @ + 1, ![s].rx = Append(@, body[s].made + 1)]
       \/ body' = [body EXCEPT ![s].sender = "gone"]
       \/ drconfig.resets /\ body' = [body EXCEPT ![s].sender = "gone", ![s].rx = Append(@, ERROR)]
    /\ UNCHANGED <<drconfig, drconn, loop, wire, handled, client, clock>>

\* A client that keeps to the stream states sends one more frame of a stream.
ClientSend(s) ==
    /\ Len(client.inbox) < DrMaxFlight /\ ~Ended /\ s <= drconfig.streams
    /\ \E t \in {"headers", "data", "trailers", "rst"}, e \in BOOLEAN :
         /\ CASE t = "headers" -> client.said[s] = "idle" /\ (s > 1 => client.said[s - 1] # "idle")
              [] t = "data" -> client.said[s] = "open" \/ (client.said[s] = "more" /\ e)
              [] t = "trailers" -> client.said[s] \in {"open", "more"} /\ e /\ drconfig.trailers
              [] t = "rst" -> client.said[s] \in {"open", "more", "ended"} /\ ~e /\ drconfig.resets
         /\ client' = [client EXCEPT
                         !.inbox = Append(@, Ev(t, s, e)),
                         !.said[s] = IF t = "rst" THEN "reset" ELSE IF e THEN "ended"
                                     ELSE IF t = "data" THEN "more" ELSE "open"]
    /\ UNCHANGED <<drconfig, drconn, loop, body, wire, handled, clock>>

\* The acknowledgement of SETTINGS, a GOAWAY, the end of the connection.
ClientControl ==
    /\ Len(client.inbox) < DrMaxFlight /\ ~Ended
    /\ \E t \in client.control, last \in {0, NStreams} :
         /\ t # "goaway" => last = 0
         /\ client' = [client EXCEPT !.inbox = Append(@, Ev(t, last, FALSE)), !.control = @ \ {t}]
    /\ UNCHANGED <<drconfig, drconn, loop, body, wire, handled, clock>>

-----------------------------------------------------------------------------

Loop ==
    \/ Upgrade \/ Top \/ DeferDone \/ PollFlush \/ PollRead \/ PollFails \/ NextEvent \/ Checks
    \/ \E s \in DrStreams : Defer(s)

DrNext ==
    \/ Loop \/ TimePasses \/ ClientControl
    \/ \E s \in DrStreams : Produce(s) \/ ClientSend(s)

DrSpec == DrInit /\ [][DrNext]_drvars

FlushesKnown == \E s \in DrStreams \ drconn.unscheduled : wire'[s] # wire[s]

\* The thread runs, clocks advance, producers end their bodies, a poll reads
\* what has arrived, and a client that is owed bytes lets a flush through, of a
\* stream the scheduler still knows.
DrFairSpec ==
    /\ DrSpec
    /\ WF_drvars(Loop) /\ WF_drvars(TimePasses)
    /\ SF_drvars(PollRead) /\ SF_drvars(PollFlush /\ FlushesKnown)
    /\ \A s \in DrStreams : WF_drvars(Produce(s))

-----------------------------------------------------------------------------
(* Properties *)

\* The handler runs at most once per stream, and never before the request is
\* whole: resets, GOAWAY and late DATA in one batch of events do not repeat it.
HandledOnce ==
    \A s \in DrStreams :
      /\ Len(handled[s]) <= 1
      /\ handled[s] # <<>> => client.said[s] \in {"ended", "reset"}

\* Between rounds every entry of req_bodies and deferred belongs to a live stream;
\* an entry left behind keeps the 5 ms timeout, and the connection after GOAWAY,
\* for ever.
EntriesLive ==
    loop.pc = "top" => \A s \in loop.req_bodies \cup loop.deferred : DrLive(s)

DrChunks(s) == SelectSeq(wire[s], LAMBDA x : x \in 1..NChunks)

\* A response leaves as headers, its chunks in the order they were produced, and
\* one end, which only follows once the producer is gone; a body that fits
\* max_send_buffer arrives whole (a longer one may lose a chunk in flush_deferred).
ResponseOrdered ==
    \A s \in DrStreams :
      /\ \A i \in DOMAIN wire[s] : wire[s][i] # RST => (wire[s][i] = HEADERS) = (i = 1)
      /\ \A i, j \in DOMAIN DrChunks(s) : i < j => DrChunks(s)[i] < DrChunks(s)[j]
      /\ \A i \in DOMAIN wire[s] : wire[s][i] = END =>
            /\ i = Len(wire[s]) /\ body[s].sender \in {"gone", "whole"} /\ body[s].rx = <<>>
            /\ drconfig.buffer >= drconfig.chunks => Len(DrChunks(s)) = body[s].made

\* The order of things on every stream of the driver.
ExchangesKept == HandledOnce /\ EntriesLive /\ ResponseOrdered

\* A whole request is answered to its end, unless the end was left off the scheduler:
\* emit_data_frames() drops it when the connection window is spent and on_window_update()
\* puts back only streams with buffered bytes.
Asked(s) == ~drconfig.trailers /\ client.said[s] = "ended"
Answered(s) ==
    \/ wire[s] # <<>> /\ drconn.state[s] \in {"local", "closed"}
    \/ s \in drconn.unscheduled \/ client.said[s] = "reset" \/ Ended

=============================================================================
