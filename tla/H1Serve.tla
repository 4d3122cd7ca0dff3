------------------------------ MODULE H1Serve -------------------------------
(***************************************************************************)
(* serve() of courierust_server/h1.rs: one pool thread, one HTTP/1.1       *)
(* connection.  A request is its head and, for some kinds, a body; the     *)
(* client sends the parts of several requests at any pace, or stops, and   *)
(* the reader consumes them in order.                                      *)
(***************************************************************************)
EXTENDS Naturals, Sequences, FiniteSets

CONSTANTS HsRequests,   \* bound: requests of the client
          HsKinds       \* the kinds of request it may send

ASSUME HsAssumption == HsRequests \in Nat

(* Kinds: what is wrong with a request, or what it asks for.               *)
(*   "get", "close" (Connection: close), "post" (with a body)              *)
(*   "badline", "badfield", "hugehead", "nohost", "badlength", "hugebody"  *)
(*   "h2c", "websocket", "connect"                                         *)
WithBody == {"post", "nohost", "badlength", "hugebody"}

VARIABLES hs,     \* the thread: pc, and the request it is on
          peer,   \* the client: kinds chosen, parts in flight, whether it has closed
          out,    \* what was written: <<request, what>>
          given   \* the requests given to the handler, the service or the tunnel

hsvars == <<hs, peer, out, given>>

HsInit ==
    /\ \E ks \in [1..HsRequests -> HsKinds] : peer = [kind |-> ks, sent |-> 0, half |-> FALSE,
                                                      parts |-> <<>>, closed |-> FALSE]
    /\ hs = [pc |-> "line", req |-> 0, rx |-> "none", tail |-> FALSE]
    /\ out = <<>> /\ given = <<>>

Kind == peer.kind[hs.req]
HsEnded == hs.pc \in {"closed", "h2", "websocket", "tunnel"}
Part(r, p) == [req |-> r, part |-> p]
HsGoto(l) == hs' = [hs EXCEPT !.pc = l]
Wrote(what) == out' = Append(out, <<hs.req, what>>)

\* The next part of the client's bytes, whatever it was meant to be.
NextPart == Head(peer.parts)
Take == peer' = [peer EXCEPT !.parts = Tail(@)]

-----------------------------------------------------------------------------
(* Reading a request *)

\* The request line.  What is left of a body would be taken for one (tail).
ReadLine ==
    /\ hs.pc = "line" /\ peer.parts # <<>>
    /\ hs' = [hs EXCEPT !.req = NextPart.req, !.tail = NextPart.part = "body",
                        !.pc = IF peer.kind[NextPart.req] = "badline" THEN "refuse" ELSE "head"]
    /\ UNCHANGED <<peer, out, given>>

\* read_headers_scratch_with_limit(): 431 above the limit, and an error is passed on
\* without an answer.
ReadHead ==
    /\ hs.pc = "head"
    /\ Take
    /\ HsGoto(CASE Kind = "hugehead" -> "refuse"
                [] Kind = "badfield" -> "closed"
                [] Kind = "nohost" -> "respond"
                [] Kind = "badlength" -> "refuse"
                [] Kind \in WithBody \ {"nohost", "badlength"} -> "body"
                [] OTHER -> "route")
    /\ UNCHANGED <<out, given>>

\* response_wire_head(), and `Connection: close' of error_response().
KeepsAlive == Kind \notin {"close", "nohost"}

\* read_body_fixed_scratch() and read_body_chunked_scratch() with max_body.
ReadBody ==
    /\ hs.pc = "body" /\ peer.parts # <<>>
    /\ Take
    /\ HsGoto(IF Kind = "hugebody" THEN "refuse" ELSE "route")
    /\ UNCHANGED <<out, given>>

\* The client has closed, or a deadline has passed with nothing to read: before a
\* request, within its head, within its body.
ReadEof ==
    /\ hs.pc \in {"line", "body"} /\ peer.parts = <<>> /\ peer.closed
    /\ HsGoto("closed")
    /\ UNCHANGED <<peer, out, given>>

ReadTimeout ==
    /\ hs.pc \in {"line", "body"} /\ peer.parts = <<>> /\ ~peer.closed
    /\ HsGoto("closed")
    /\ out' = Append(out, <<IF hs.pc = "line" THEN hs.req + 1 ELSE hs.req, "408">>)
    /\ UNCHANGED <<peer, given>>

\* refuse(), write_early_error(), linger_close(): the last thing on the connection.
Refuse ==
    /\ hs.pc = "refuse"
    /\ Wrote("refusal")
    /\ HsGoto("closed")
    /\ UNCHANGED <<peer, given>>

-----------------------------------------------------------------------------
(* Upgrades, tunnels, the handler *)

\* handler.websocket() and handler.tunnel(): pass, refuse or accept.
Route ==
    /\ hs.pc = "route"
    /\ \/ /\ HsGoto("handle")
          /\ UNCHANGED <<out, given>>
       \/ /\ Kind \in {"websocket", "connect"}
          /\ HsGoto("respond")
          /\ UNCHANGED <<out, given>>
       \/ /\ Kind = "websocket"
          /\ HsGoto("websocket") /\ Wrote("101") /\ given' = Append(given, hs.req)
       \/ /\ Kind = "connect"
          /\ HsGoto("tunnel") /\ Wrote("200") /\ given' = Append(given, hs.req)
    /\ UNCHANGED peer

\* handle_connected(), then the h2c switch or the response.
Handle1 ==
    /\ hs.pc = "handle"
    /\ given' = Append(given, hs.req)
    /\ IF Kind = "h2c" THEN HsGoto("h2") /\ Wrote("101") ELSE HsGoto("respond") /\ UNCHANGED out
    /\ UNCHANGED peer

\* A buffered response; an early one (a refusal) is always buffered.
RespondWhole ==
    /\ hs.pc = "respond"
    /\ Wrote("whole")
    /\ HsGoto(IF KeepsAlive THEN "line" ELSE "closed")
    /\ UNCHANGED <<peer, given>>

\* Faulty variant: a body that streams is left to the producer.
RespondStreamReturns ==
    /\ hs.pc = "respond" /\ given # <<>> /\ given[Len(given)] = hs.req
    /\ Wrote("head")
    /\ hs' = [hs EXCEPT !.pc = "line", !.rx = "live"]
    /\ UNCHANGED <<peer, given>>

\* A channel body: the head, then stream_response() until the sender is gone.
RespondStream ==
    /\ hs.pc = "respond" /\ given # <<>> /\ given[Len(given)] = hs.req
    /\ Wrote("head")
    /\ hs' = [hs EXCEPT !.pc = "stream", !.rx = "live"]
    /\ UNCHANGED <<peer, given>>

\* Disconnected: the terminating chunk.  An error or the timeout ends the connection.
StreamEnds ==
    /\ hs.pc = "stream"
    /\ \/ /\ hs.rx = "ended"
          /\ Wrote("end")
          /\ HsGoto(IF KeepsAlive THEN "line" ELSE "closed")
       \/ /\ hs.rx # "ended"
          /\ HsGoto("closed")
          /\ UNCHANGED out
    /\ UNCHANGED <<peer, given>>

ProducerEnds ==
    /\ hs.pc = "stream" /\ hs.rx = "live"
    /\ \E end \in {"ended", "failed"} : hs' = [hs EXCEPT !.rx = end]
    /\ UNCHANGED <<peer, out, given>>

-----------------------------------------------------------------------------
(* The client *)

PeerSends ==
    /\ peer.sent < HsRequests /\ ~peer.closed /\ ~HsEnded /\ Len(peer.parts) < 3
    /\ LET r == peer.sent + 1
           whole == peer.half \/ peer.kind[r] \notin WithBody
       IN  peer' = [peer EXCEPT !.parts = Append(@, Part(r, IF peer.half THEN "body" ELSE "head")),
                                !.sent = IF whole THEN r ELSE @, !.half = ~whole]
    /\ UNCHANGED <<hs, out, given>>

PeerCloses ==
    /\ ~peer.closed /\ ~HsEnded
    /\ peer' = [peer EXCEPT !.closed = TRUE]
    /\ UNCHANGED <<hs, out, given>>

Thread ==
    \/ ReadLine \/ ReadHead \/ ReadBody \/ ReadEof \/ ReadTimeout \/ Refuse \/ Route \/ Handle1
    \/ RespondWhole \/ RespondStream \/ StreamEnds

HsNext == Thread \/ ProducerEnds \/ PeerSends \/ PeerCloses

HsSpec == HsInit /\ [][HsNext]_hsvars

-----------------------------------------------------------------------------
(* Properties *)

Final == {"refusal", "408", "101", "200"}
Complete == {"whole", "end"} \cup Final

\* Responses answer the requests in their order, one each; behind a refusal, a
\* switch of protocol or an unfinished body nothing is written, and the terminating
\* chunk only when the producer has ended in order.  refuse(): a client "is not given
\* the chance to have the unread tail of its bytes parsed as a second request": no part
\* of a body is ever read as a request line, and what is given to the handler is a
\* request whose predecessors were all answered.
AnswersInOrder ==
    /\ \A i \in DOMAIN out :
         /\ out[i][2] \in Final => i = Len(out)
         /\ out[i][2] = "head" => i = Len(out) \/ out[i + 1] = <<out[i][1], "end">>
         /\ i > 1 => out[i][1] = IF out[i - 1][2] = "head" THEN out[i - 1][1] ELSE out[i - 1][1] + 1
    /\ (out # <<>> /\ out[Len(out)][2] = "end") => hs.rx = "ended"
    /\ ~hs.tail
    /\ \A i \in DOMAIN given :
         /\ i > 1 => given[i] > given[i - 1]
         /\ \A r \in 1..given[i] - 1 : \E j \in DOMAIN out : out[j][1] = r /\ out[j][2] \in {"whole", "end"}

=============================================================================
