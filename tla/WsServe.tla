------------------------------ MODULE WsServe -------------------------------
(***************************************************************************)
(* courierust_server::ws, courierust_client::ws and ws::writer: who writes *)
(* to an open WebSocket and how it ends.  The session's writer (Pongs, the *)
(* Close echo) and the application's writer share a sink whose lock covers *)
(* one frame; a send looks at the close flag, writes, and a Close then sets *)
(* the flag.  Three drivers: the reactor's step, the blocking loop, and a   *)
(* client whose push handle has a flag of its own.                          *)
(***************************************************************************)
EXTENDS Naturals, Sequences, SequencesExt, FiniteSets

CONSTANTS WvModes,    \* subset of {"reactor", "blocking", "client"}
          WvApps,     \* threads of the application that push messages
          WvLimit,    \* max_send_queue, in frames
          WvInputs,   \* bound: what the peer sends
          WvPushes,   \* bound: sends of the application
          WvPings     \* whether ping_interval is set

VARIABLES mode,
          sock,    \* the peer: inputs left, what it reads, and the wire
          outq,    \* OutQueue: frames, and whether it is closed
          cflag,   \* CloseFlag of the session's and of the application's writer
          conn,    \* WsConn: closing, and who holds the lock of its writer
          wsapp,     \* per thread: the send under way
          wsdrv,     \* the driver of the connection
          ends     \* history: calls of on_close, and whether one was called clean

wvvars == <<mode, sock, outq, cflag, conn, wsapp, wsdrv, ends>>
Inputs == {"msg", "ping", "close", "bad", "eof"}

WvInit ==
    /\ mode \in WvModes
    /\ sock = [left |-> WvInputs, wire |-> "open", writable |-> TRUE, gone |-> FALSE, here |-> "none"]
    /\ outq = [frames |-> <<>>, closed |-> FALSE]
    /\ cflag = [ses |-> FALSE, app |-> FALSE]
    /\ conn = [closing |-> FALSE, lock |-> "none", pushes |-> 0]
    /\ wsapp = [t \in WvApps |-> [pc |-> "idle", op |-> "data"]]
    /\ wsdrv = [pc |-> "parked", reply |-> "none", closing_at |-> FALSE, expired |-> FALSE, noted |-> FALSE,
              received |-> FALSE, finished |-> FALSE, silence |-> 0, pinged |-> FALSE, woken |-> FALSE]
    /\ ends = [n |-> 0, clean |-> FALSE]

-----------------------------------------------------------------------------
(* The writers *)

FlagOf(w) == IF mode = "client" THEN cflag[w] ELSE cflag.ses
SetFlag(w) == IF mode = "client" THEN [cflag EXCEPT ![w] = TRUE] ELSE [ses |-> TRUE, app |-> TRUE]

\* QueueSink::write_frame (a full queue closes and empties), or SharedSink straight
\* to the transport.  The result is whether it succeeded.
SinkOk == IF mode = "reactor" THEN ~outq.closed /\ Len(outq.frames) < WvLimit ELSE ~sock.gone
\* What the peer sees of the frames: still open, ended by a Close, or a frame after one.
OnWire(frames) ==
    FoldLeft(LAMBDA w, k : IF w # "open" THEN "late" ELSE IF k = "close" THEN "closed" ELSE "open",
             sock.wire, frames)
Write(kind) ==
    IF mode = "reactor"
    THEN /\ outq' = IF SinkOk THEN [outq EXCEPT !.frames = Append(@, kind)]
                    ELSE [frames |-> <<>>, closed |-> TRUE]
         /\ UNCHANGED sock
    ELSE /\ sock' = IF SinkOk THEN [sock EXCEPT !.wire = OnWire(<<kind>>)] ELSE sock
         /\ UNCHANGED outq

\* FrameWriter::check_open, under the lock of the application's writer.  WsConn::close
\* first swaps `closing`; a second close is a no-op.
AppBegin(t) ==
    /\ wsapp[t].pc = "idle" /\ wsdrv.pc # "done" /\ conn.lock = "none" /\ conn.pushes < WvPushes
    /\ \/ /\ ~FlagOf("app")
          /\ wsapp' = [wsapp EXCEPT ![t] = [pc |-> "write", op |-> "data"]]
          /\ conn' = [conn EXCEPT !.lock = t, !.pushes = @ + 1]
       \/ /\ mode # "client" /\ ~conn.closing
          /\ wsapp' = [wsapp EXCEPT ![t] = [pc |-> IF FlagOf("app") THEN "idle" ELSE "write", op |-> "close"]]
          /\ conn' = [closing |-> TRUE, lock |-> IF FlagOf("app") THEN "none" ELSE t, pushes |-> conn.pushes + 1]
    /\ UNCHANGED <<mode, sock, outq, cflag, wsdrv, ends>>

\* The frame goes out under the sink's lock; the queue's wake nudges the reactor.
AppWrite(t) ==
    /\ wsapp[t].pc = "write"
    /\ Write(wsapp[t].op)
    /\ wsapp' = [wsapp EXCEPT ![t].pc = IF wsapp[t].op = "close" /\ SinkOk THEN "flag" ELSE "idle"]
    /\ conn' = IF wsapp[t].op = "close" /\ SinkOk THEN conn ELSE [conn EXCEPT !.lock = "none"]
    /\ wsdrv' = [wsdrv EXCEPT !.woken = @ \/ (mode = "reactor" /\ SinkOk)]
    /\ UNCHANGED <<mode, cflag, ends>>

AppFlag(t) ==
    /\ wsapp[t].pc = "flag"
    /\ cflag' = SetFlag("app")
    /\ wsapp' = [wsapp EXCEPT ![t].pc = "idle"] /\ conn' = [conn EXCEPT !.lock = "none"]
    /\ UNCHANGED <<mode, sock, outq, wsdrv, ends>>

-----------------------------------------------------------------------------
(* The driver: common parts *)

\* report_close: the first report counts.
Report(clean) == ends' = IF ends.n = 0 THEN [n |-> 1, clean |-> clean] ELSE ends

\* conn.close() from the driver's thread: the lock makes it one step for the other
\* users of the application's writer.
DriverClose(d) ==
    /\ conn.lock = "none"
    /\ IF conn.closing \/ FlagOf("app")
       THEN /\ conn' = [conn EXCEPT !.closing = TRUE] /\ UNCHANGED <<outq, sock, cflag>>
       ELSE /\ Write("close")
            /\ cflag' = IF SinkOk THEN SetFlag("app") ELSE cflag
            /\ conn' = [conn EXCEPT !.closing = TRUE]
    /\ wsdrv' = d

\* The session answers a Ping or a Close: it looks at its flag, writes, sets the flag.
SessionReply ==
    /\ wsdrv.pc = "reply"
    /\ \/ /\ FlagOf("ses")
          /\ wsdrv' = [wsdrv EXCEPT !.pc = "event"]
          /\ UNCHANGED <<outq, sock>>
       \/ /\ ~FlagOf("ses")
          /\ wsdrv' = [wsdrv EXCEPT !.pc = "replying"]
          /\ UNCHANGED <<outq, sock>>
    /\ UNCHANGED <<mode, cflag, conn, wsapp, ends>>

SessionWrite ==
    /\ wsdrv.pc = "replying"
    /\ Write(wsdrv.reply)
    /\ wsdrv' = [wsdrv EXCEPT !.pc = IF SinkOk THEN (IF wsdrv.reply = "close" THEN "flagging" ELSE "event") ELSE "broken"]
    /\ UNCHANGED <<mode, cflag, conn, wsapp, ends>>

SessionFlag ==
    /\ wsdrv.pc = "flagging"
    /\ cflag' = SetFlag("ses")
    /\ wsdrv' = [wsdrv EXCEPT !.pc = "event"]
    /\ UNCHANGED <<mode, sock, outq, conn, wsapp, ends>>

\* poll_message takes the next input.  A finished session only says so; a violation of
\* the protocol finishes it; Pings and the first Close call for a reply.
WsPoll ==
    /\ wsdrv.pc = "poll"
    /\ \/ /\ wsdrv.finished
          /\ wsdrv' = [wsdrv EXCEPT !.pc = "broken"] /\ UNCHANGED sock
       \/ /\ ~wsdrv.finished /\ sock.here = "none" /\ mode = "reactor"
          /\ wsdrv' = [wsdrv EXCEPT !.pc = IF wsdrv.closing_at THEN "closebook" ELSE "keepalive"] /\ UNCHANGED sock
       \/ /\ ~wsdrv.finished /\ sock.here \in {"msg", "ping", "close"}
          /\ sock' = [sock EXCEPT !.here = "none"]
          /\ wsdrv' = [wsdrv EXCEPT !.silence = 0, !.pinged = FALSE,
                        !.reply = CASE sock.here = "ping" -> "pong" [] OTHER -> sock.here,
                        !.received = @ \/ sock.here = "close",
                        !.pc = IF sock.here = "msg" \/ wsdrv.noted THEN "event" ELSE "reply"]
       \/ /\ ~wsdrv.finished /\ sock.here = "bad"
          /\ sock' = [sock EXCEPT !.here = "none"]
          /\ wsdrv' = [wsdrv EXCEPT !.finished = TRUE, !.pc = "violation"]
       \/ /\ ~wsdrv.finished /\ sock.here = "eof"
          /\ wsdrv' = [wsdrv EXCEPT !.pc = "broken"] /\ UNCHANGED sock
    /\ UNCHANGED <<mode, outq, cflag, conn, wsapp, ends>>

-----------------------------------------------------------------------------
(* The reactor's driver: WsEventConn::step *)

Due == \/ wsdrv.closing_at /\ wsdrv.expired
       \/ ~wsdrv.closing_at /\ WvPings /\ (wsdrv.silence = 2 \/ (wsdrv.silence = 1 /\ ~wsdrv.pinged))

\* The reactor dispatches for readiness, a wake, or next_deadline.
Dispatch ==
    /\ mode = "reactor" /\ wsdrv.pc = "parked"
    /\ sock.here # "none" \/ wsdrv.woken \/ Due \/ (outq.frames # <<>> /\ sock.writable)
    /\ wsdrv' = [wsdrv EXCEPT !.pc = "flush", !.woken = FALSE]
    /\ UNCHANGED <<mode, sock, outq, cflag, conn, wsapp, ends>>

\* try_flush: what the socket takes (a write may fill its buffer), no more if it would
\* block.
Drain(next, blocked, failed) ==
    \/ /\ outq.frames = <<>>
       /\ wsdrv' = [wsdrv EXCEPT !.pc = next] /\ UNCHANGED <<sock, outq>>
    \/ /\ outq.frames # <<>> /\ sock.writable /\ ~sock.gone
       /\ \E k \in 1..Len(outq.frames), more \in BOOLEAN :
            /\ k < Len(outq.frames) => ~more
            /\ sock' = [sock EXCEPT !.wire = OnWire(SubSeq(outq.frames, 1, k)), !.writable = more]
            /\ outq' = [outq EXCEPT !.frames = SubSeq(@, k + 1, Len(@))]
            /\ wsdrv' = [wsdrv EXCEPT !.pc = IF k = Len(outq.frames) THEN next ELSE blocked]
    \/ /\ outq.frames # <<>> /\ ~sock.writable /\ ~sock.gone
       /\ wsdrv' = [wsdrv EXCEPT !.pc = blocked] /\ UNCHANGED <<sock, outq>>
    \/ /\ outq.frames # <<>> /\ sock.gone
       /\ wsdrv' = [wsdrv EXCEPT !.pc = failed] /\ UNCHANGED <<sock, outq>>

Flush ==
    /\ wsdrv.pc = "flush"
    /\ Drain("poll", "blocked", "broken")
    /\ UNCHANGED <<mode, cflag, conn, wsapp, ends>>

\* The peer does not read.  A queue that overflowed since is the end of the connection.
Blocked ==
    /\ wsdrv.pc = "blocked"
    /\ IF outq.closed
       THEN DriverClose([wsdrv EXCEPT !.closing_at = TRUE, !.noted = TRUE, !.pc = "done"])
       ELSE /\ wsdrv' = [wsdrv EXCEPT !.pc = "parked"] /\ UNCHANGED <<outq, sock, cflag, conn>>
    /\ UNCHANGED <<mode, wsapp, ends>>

\* A transport failure is reported and nothing is claimed to the peer.
Broken ==
    /\ mode = "reactor" /\ wsdrv.pc = "broken"
    /\ Report(FALSE)
    /\ wsdrv' = [wsdrv EXCEPT !.pc = "done"]
    /\ UNCHANGED <<mode, sock, outq, cflag, conn, wsapp>>

\* The event reaches the service, which may close; a closing handshake begun by the
\* application is noticed here, and only here.
OnEvent ==
    /\ mode = "reactor" /\ wsdrv.pc = "event"
    /\ IF wsdrv.reply = "close"
       THEN /\ Report(TRUE)
            /\ wsdrv' = [wsdrv EXCEPT !.closing_at = TRUE, !.finished = TRUE, !.noted = TRUE, !.pc = "closebook"]
            /\ UNCHANGED <<conn, outq, sock, cflag>>
       ELSE /\ UNCHANGED ends
            /\ \/ /\ wsdrv' = [wsdrv EXCEPT !.pc = "poll", !.closing_at = @ \/ conn.closing,
                                        !.noted = @ \/ (conn.closing /\ ~wsdrv.closing_at)]
                  /\ UNCHANGED <<conn, outq, sock, cflag>>
               \/ /\ wsdrv.reply = "msg" /\ ~conn.closing
                  /\ DriverClose([wsdrv EXCEPT !.pc = "poll", !.closing_at = TRUE, !.noted = TRUE])
    /\ UNCHANGED <<mode, wsapp>>

\* A violation of the protocol is answered with a Close and reported.
OnViolation ==
    /\ mode = "reactor" /\ wsdrv.pc = "violation"
    /\ DriverClose([wsdrv EXCEPT !.closing_at = TRUE, !.noted = TRUE, !.pc = "closebook"])
    /\ Report(FALSE)
    /\ UNCHANGED <<mode, wsapp>>

\* The handshake is over: the peer's Close came, or close_timeout passed.
CloseOver == wsdrv.received \/ wsdrv.expired

\* Close bookkeeping: flush, then wait for the echo as long as close_timeout.
CloseBook ==
    /\ wsdrv.pc = "closebook"
    /\ Drain("echo", "parked", "done")
    /\ UNCHANGED <<mode, cflag, conn, wsapp, ends>>

Echo ==
    /\ wsdrv.pc = "echo"
    /\ IF CloseOver THEN Report(wsdrv.received) /\ wsdrv' = [wsdrv EXCEPT !.pc = "done"]
       ELSE wsdrv' = [wsdrv EXCEPT !.pc = "parked"] /\ UNCHANGED ends
    /\ UNCHANGED <<mode, sock, outq, cflag, conn, wsapp>>

\* Keepalive: a Ping after one silent interval, the end after two.
Keepalive ==
    /\ wsdrv.pc = "keepalive"
    /\ \/ /\ WvPings /\ wsdrv.silence = 2
          /\ DriverClose([wsdrv EXCEPT !.closing_at = TRUE, !.noted = TRUE, !.pc = "parked"])
          /\ Report(FALSE)
       \/ /\ WvPings /\ wsdrv.silence = 1 /\ conn.lock = "none"
          /\ IF FlagOf("app") THEN UNCHANGED <<outq, sock>> ELSE Write("ping")
          /\ wsdrv' = [wsdrv EXCEPT !.pinged = TRUE, !.pc = "parked", !.woken = ~FlagOf("app")]
          /\ UNCHANGED <<cflag, conn, ends>>
       \/ /\ ~WvPings \/ wsdrv.silence = 0
          /\ wsdrv' = [wsdrv EXCEPT !.pc = "parked"]
          /\ UNCHANGED <<outq, sock, cflag, conn, ends>>
    /\ UNCHANGED <<mode, wsapp>>

-----------------------------------------------------------------------------
(* The blocking driver: serve_blocking and drain_close; the client's reader *)

\* The loop reads until it has something.
BlockingRead ==
    /\ mode # "reactor" /\ wsdrv.pc = "parked"
    /\ sock.here # "none"
    /\ wsdrv' = [wsdrv EXCEPT !.pc = "poll"]
    /\ UNCHANGED <<mode, sock, outq, cflag, conn, wsapp, ends>>

\* serve_blocking ends with on_close, whatever ended it.
Leave(clean) == /\ ends' = [n |-> ends.n + 1, clean |-> clean]
                /\ wsdrv' = [wsdrv EXCEPT !.pc = "done"]

\* The service has the event; if the application closed, the echo is awaited at once.
BlockingEvent ==
    /\ mode # "reactor" /\ wsdrv.pc = "event"
    /\ \/ wsdrv.reply = "close" /\ Leave(TRUE)
       \/ /\ wsdrv.reply # "close" /\ (wsdrv.closing_at \/ conn.closing)
          /\ wsdrv' = [wsdrv EXCEPT !.pc = "parked", !.closing_at = TRUE, !.noted = TRUE] /\ UNCHANGED ends
       \/ /\ wsdrv.reply # "close" /\ ~wsdrv.closing_at /\ ~conn.closing
          /\ wsdrv' = [wsdrv EXCEPT !.pc = "parked"] /\ UNCHANGED ends
    /\ UNCHANGED <<mode, sock, outq, cflag, conn, wsapp>>

\* A violation is answered with the session's own Close, once.
BlockingViolation ==
    /\ mode # "reactor" /\ wsdrv.pc = "violation"
    /\ IF FlagOf("ses") \/ wsdrv.noted THEN UNCHANGED <<sock, outq, cflag>>
       ELSE Write("close") /\ cflag' = (IF SinkOk THEN SetFlag("ses") ELSE cflag)
    /\ Leave(FALSE)
    /\ UNCHANGED <<mode, conn, wsapp>>

BlockingBroken ==
    /\ mode # "reactor" /\ wsdrv.pc = "broken"
    /\ Leave(FALSE)
    /\ UNCHANGED <<mode, sock, outq, cflag, conn, wsapp>>

\* The read deadline: a Ping, at two intervals the end; while the echo of a Close is
\* awaited it is the end of the wait.
BlockingTimeout ==
    /\ mode # "reactor" /\ wsdrv.pc = "parked" /\ sock.here = "none"
    /\ \/ /\ wsdrv.closing_at /\ wsdrv.expired
          /\ Leave(FALSE) /\ UNCHANGED <<outq, sock, cflag, conn>>
       \/ /\ mode = "blocking" /\ ~wsdrv.closing_at /\ WvPings /\ wsdrv.silence = 2
          /\ conn.lock = "none"
          /\ IF conn.closing \/ FlagOf("app") \/ ~SinkOk THEN UNCHANGED <<outq, sock, cflag>>
             ELSE Write("close") /\ cflag' = SetFlag("app")
          /\ conn' = [conn EXCEPT !.closing = TRUE]
          /\ Leave(FALSE)
       \/ /\ mode = "blocking" /\ ~wsdrv.closing_at /\ WvPings /\ wsdrv.silence = 1 /\ ~wsdrv.pinged
          /\ conn.lock = "none"
          /\ IF FlagOf("app") THEN UNCHANGED <<outq, sock>> ELSE Write("ping")
          /\ wsdrv' = [wsdrv EXCEPT !.pinged = TRUE]
          /\ UNCHANGED <<cflag, conn, ends>>
    /\ UNCHANGED <<mode, wsapp>>

\* WebSocket::close of the client: our Close, then the wait for the echo.
ClientClose ==
    /\ mode = "client" /\ wsdrv.pc = "parked" /\ ~wsdrv.noted
    /\ Write("close")
    /\ cflag' = IF SinkOk THEN SetFlag("ses") ELSE cflag
    /\ wsdrv' = [wsdrv EXCEPT !.noted = SinkOk, !.closing_at = TRUE]
    /\ UNCHANGED <<mode, conn, wsapp, ends>>

-----------------------------------------------------------------------------
(* The world *)

PeerSends ==
    /\ sock.left > 0 /\ sock.here = "none" /\ wsdrv.pc # "done"
    /\ \E k \in Inputs : sock' = [sock EXCEPT !.left = @ - 1, !.here = k, !.gone = @ \/ k = "eof"]
    /\ UNCHANGED <<mode, outq, cflag, conn, wsapp, wsdrv, ends>>

\* The peer reads, and there is room again.
PeerReads == ~sock.writable /\ sock' = [sock EXCEPT !.writable = TRUE]
             /\ UNCHANGED <<mode, outq, cflag, conn, wsapp, wsdrv, ends>>

\* Time passes while the connection is parked.
Tick ==
    /\ wsdrv.pc = "parked" /\ ~Due
    /\ IF wsdrv.closing_at THEN ~wsdrv.expired /\ wsdrv' = [wsdrv EXCEPT !.expired = TRUE]
       ELSE WvPings /\ wsdrv.silence < 2 /\ wsdrv' = [wsdrv EXCEPT !.silence = @ + 1, !.pinged = FALSE]
    /\ UNCHANGED <<mode, sock, outq, cflag, conn, wsapp, ends>>

DriverStep ==
    \/ Dispatch \/ Flush \/ Blocked \/ WsPoll \/ SessionReply \/ SessionWrite \/ SessionFlag
    \/ OnEvent \/ OnViolation \/ Broken \/ CloseBook \/ Echo \/ Keepalive
    \/ BlockingRead \/ BlockingEvent \/ BlockingViolation \/ BlockingBroken \/ BlockingTimeout
AppStep == \E t \in WvApps : AppWrite(t) \/ AppFlag(t)

WvNext == DriverStep \/ AppStep \/ (\E t \in WvApps : AppBegin(t)) \/ ClientClose
          \/ PeerSends \/ PeerReads \/ Tick

-----------------------------------------------------------------------------
(* Properties *)

\* The peer does not read and frames wait for it: step() returns NeedWrite before it looks
\* at close_timeout or at the keepalive, whatever next_deadline() says.
NotRead == mode = "reactor" /\ outq.frames # <<>> /\ ~sock.writable

\* step() ends without report_close: the queue overflowed while the socket was full, or the
\* transport failed under the frames of a closing handshake.
Unreported == mode = "reactor" /\ (outq.closed \/ (wsdrv.closing_at /\ sock.gone /\ outq.frames # <<>>))

\* A closing handshake that the driver knows of ends, echo or not, and a peer that falls
\* silent is dropped by the keepalive of the servers, unless the peer does not read what
\* is queued (NotRead).  A connection that ended was reported by exactly one on_close, none
\* only in the two cases of Unreported, and as clean only if the peer's Close came,
\* whichever of the echo, the close timeout, the keepalive and a broken transport is first.
ClosingEnded ==
    /\ wsdrv.closing_at \/ (WvPings /\ mode # "client") => wsdrv.pc = "done" \/ NotRead
    /\ ends.n <= 1 /\ (ends.clean => wsdrv.received)
    /\ wsdrv.pc = "done" => ends.n = 1 \/ Unreported

=============================================================================
