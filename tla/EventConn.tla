------------------------------ MODULE EventConn ------------------------------
(***************************************************************************)
(* One HTTP/1.1 connection of the event-driven server: EventConn::step()   *)
(* with the incremental parser, write_more(), pump_body(), the WebSocket   *)
(* upgrade and the tunnel handover (courierust_server/event.rs).           *)
(*                                                                         *)
(* A step is taken apart at every place where the socket, the client, the  *)
(* clock or the producer of a body can interfere.  Requests arrive in      *)
(* units, a head and for the chunked coding a body; responses leave in     *)
(* parts: the head, the chunks, the end.  Bytes within a part do not       *)
(* matter, except that a write may find the socket full.                   *)
(***************************************************************************)
EXTENDS Naturals, Sequences, FiniteSets, SequencesExt

CONSTANTS NRequests,      \* bound: requests of the client
          NChunks,        \* bound: chunks of a streaming body
          Kinds,          \* the handler's answers: plain, stream, upgrade, tunnel
          Closes,         \* values of the request's Connection: close
          Codings,        \* request framings: "length", "chunked"
          Pipelined,      \* whether a request is sent before the last response came
          HeaderTimeout,  \* whether request_header_timeout is set
          BodyFails       \* whether producers stall past read_timeout, or fail

ASSUME ConnAssumption ==
    /\ {NRequests, NChunks} \subseteq Nat \ {0}
    /\ Kinds \subseteq {"plain", "stream", "upgrade", "tunnel"}
    /\ {Closes, Pipelined} \subseteq SUBSET BOOLEAN /\ Codings \subseteq {"length", "chunked"}
    /\ {HeaderTimeout, BodyFails} \subseteq BOOLEAN

Requests == 1..NRequests

VARIABLES script,      \* what the client asks, chosen at the start
          sent,        \* units sent by the client,
          got, read,   \* those in IncrRequest::buf, and those consumed by the parser
          eof,         \* the client closed its side
          phase,       \* IncrRequest::phase
          clock,       \* header_started_at, and whether the deadline passed
          parsed,      \* requests taken by next_request()
          ecout,         \* response parts not yet written
          wire,        \* response parts written
          keep_alive,
          switch,      \* pending_upgrade or pending_tunnel
          stream,      \* the request whose body is in stream_rx, or 0
          made, done,  \* chunks produced per body, and whether that is all
          ecpc, end      \* where the step is, and how the connection ended

inVars == <<sent, got, read, eof, phase, clock, parsed>>
outVars == <<ecout, wire, keep_alive, switch, stream>>
ecvars == <<script, inVars, outVars, made, done, ecpc, end>>

\* The client sends units, a head per request and a body behind a chunked head: the
\* place of request k's head among them, and how many heads have been sent.
HeadAt(k) == k + Cardinality({j \in 1..k - 1 : script[j].coding = "chunked"})
LastUnit == HeadAt(NRequests + 1) - 1
HeadsSent == Cardinality({k \in Requests : HeadAt(k) <= sent})
AtHead == HeadAt(HeadsSent + 1) = sent + 1

EcPart(k, p) == [req |-> k, part |-> p]
RHead(k) == EcPart(k, 0)
RChunk(k, i) == EcPart(k, i)
REnd(k) == EcPart(k, NChunks + 1)
\* An answer of the server's own, 408 or 400.
Refusal == <<RHead(0), REnd(0)>>

Written(p) == p \in Range(wire)
Taken(k) == Cardinality({i \in 1..NChunks : RChunk(k, i) \in Range(wire) \cup Range(ecout)})

EcInit ==
    /\ script \in [Requests -> [kind : Kinds, close : Closes, coding : Codings,
                                pipelined : Pipelined]]
    /\ ~script[1].pipelined
    /\ sent = 0 /\ got = 0 /\ read = 0 /\ eof = FALSE
    /\ phase = "head" /\ clock = "off" /\ parsed = 0
    /\ ecout = <<>> /\ wire = <<>> /\ keep_alive = TRUE /\ switch = "none" /\ stream = 0
    /\ made = [k \in Requests |-> 0]
    /\ done = [k \in Requests |-> FALSE]
    /\ ecpc = "parked" /\ end = "open"

-----------------------------------------------------------------------------
(* The client, the clock and the producers *)

\* A head that is not pipelined waits for the end of the last response.
ClientSends ==
    /\ end = "open" /\ ~eof
    /\ sent < LastUnit
    /\ AtHead /\ HeadsSent > 0 => script[HeadsSent + 1].pipelined \/ Written(REnd(HeadsSent))
    /\ sent' = sent + 1
    /\ UNCHANGED <<script, got, read, eof, phase, clock, parsed, outVars, made, done, ecpc, end>>

ClientCloses ==
    /\ end = "open" /\ ~eof
    /\ eof' = TRUE
    /\ UNCHANGED <<script, sent, got, read, phase, clock, parsed, outVars, made, done, ecpc, end>>

DeadlinePasses ==
    /\ HeaderTimeout
    /\ clock = "on"
    /\ clock' = "late"
    /\ UNCHANGED <<script, sent, got, read, eof, phase, parsed, outVars, made, done, ecpc, end>>

\* The application sends a chunk, or drops the sender of a body.
Produce(k) ==
    /\ script[k].kind = "stream" /\ parsed >= k /\ ~done[k]
    /\ made[k] < NChunks
    /\ made' = [made EXCEPT ![k] = @ + 1]
    /\ UNCHANGED <<script, inVars, outVars, done, ecpc, end>>

EcFinish(k) ==
    /\ script[k].kind = "stream" /\ parsed >= k /\ ~done[k]
    /\ done' = [done EXCEPT ![k] = TRUE]
    /\ UNCHANGED <<script, inVars, outVars, made, ecpc, end>>

-----------------------------------------------------------------------------
(* write_more() *)

Close(how) == ecpc' = "closed" /\ end' = how
Goto(next) == ecpc' = next /\ UNCHANGED end

WriteAll(parts) == wire' = wire \o parts /\ ecout' = <<>>
WouldBlock(parts) == ecout' = parts /\ UNCHANGED wire /\ Goto("parked")

\* Faulty variant: what is left is forgotten when the socket is full.
WriteMoreForgets(parts, keep, next) ==
    \/ WriteAll(parts) /\ IF keep THEN Goto(next) ELSE Close("clean")
    \/ WouldBlock(Tail(parts))

\* The outcome once everything is written: Idle goes on at `next', Close ends.
WriteMore(parts, keep, next) ==
    \/ WriteAll(parts) /\ IF keep THEN Goto(next) ELSE Close("clean")
    \/ WouldBlock(parts)

-----------------------------------------------------------------------------
(* EventConn::step() *)

\* A worker picks the connection up, for whatever reason it was dispatched.
Resume ==
    /\ ecpc = "parked"
    /\ Goto("write")
    /\ UNCHANGED <<script, inVars, outVars, made, done>>

\* Faulty variant: a readable connection reads before it writes.
WriteSkips ==
    /\ ecpc = "write"
    /\ IF ecout = <<>> \/ (switch = "none" /\ got < sent)
       THEN Goto("pump") /\ UNCHANGED <<ecout, wire>>
       ELSE WriteMore(ecout, keep_alive, "pump")
    /\ UNCHANGED <<script, inVars, keep_alive, switch, stream, made, done>>

Write ==
    /\ ecpc = "write"
    /\ IF ecout = <<>> THEN Goto("pump") /\ UNCHANGED <<ecout, wire>>
                     ELSE WriteMore(ecout, keep_alive, "pump")
    /\ UNCHANGED <<script, inVars, keep_alive, switch, stream, made, done>>

PumpNothing ==
    /\ ecpc = "pump" /\ stream = 0
    /\ Goto("switch")
    /\ UNCHANGED <<script, inVars, outVars, made, done>>

\* A chunk is written; whether the connection is kept does not matter yet.
PumpChunk ==
    /\ ecpc = "pump" /\ stream # 0
    /\ Taken(stream) < made[stream]
    /\ LET chunk == <<RChunk(stream, Taken(stream) + 1)>>
       IN  (WriteAll(chunk) /\ Goto("pump")) \/ WouldBlock(chunk)
    /\ UNCHANGED <<script, inVars, keep_alive, switch, stream, made, done>>

\* No chunk: the poll deadline is armed, and the step goes on (Idle).
PumpEmpty ==
    /\ ecpc = "pump" /\ stream # 0
    /\ Taken(stream) = made[stream] /\ ~done[stream]
    /\ Goto("switch")
    /\ UNCHANGED <<script, inVars, outVars, made, done>>

\* The producer stalled past read_timeout, or sent an error: the worker calls
\* refuse_malformed(), which answers some kinds of errors, and closes.
PumpFails ==
    /\ BodyFails
    /\ ecpc = "pump" /\ stream # 0
    /\ Taken(stream) = made[stream] /\ ~done[stream]
    /\ wire' \in {wire, wire \o Refusal}
    /\ stream' = 0
    /\ Close("error")
    /\ UNCHANGED <<script, inVars, ecout, keep_alive, switch, made, done>>

PumpEnd ==
    /\ ecpc = "pump" /\ stream # 0
    /\ Taken(stream) = made[stream] /\ done[stream]
    /\ stream' = 0
    /\ WriteMore(<<REnd(stream)>>, keep_alive, "switch")
    /\ UNCHANGED <<script, inVars, keep_alive, switch, made, done>>

\* The head of the upgrade or tunnel is written: the connection leaves.
Switch ==
    /\ ecpc = "switch"
    /\ IF switch = "none" THEN Goto("parse")
                          ELSE ecpc' = switch /\ end' = "switched"
    /\ UNCHANGED <<script, inVars, outVars, made, done>>
-----------------------------------------------------------------------------
(* next_request() and the answer to a request *)

Started == IF phase = "head" /\ clock = "off" THEN "on" ELSE clock

\* The deadline for the head has passed: 408, and close.
ParseTimeout ==
    /\ ecpc = "parse" /\ clock = "late"
    /\ phase = "head"
    /\ keep_alive' = FALSE
    /\ stream' = 0
    /\ WriteMore(Refusal, FALSE, "parked")
    /\ UNCHANGED <<script, inVars, switch, made, done>>

\* A head: body_length() decides how the body is read.
ParseHead ==
    /\ ecpc = "parse" /\ phase = "head" /\ clock # "late"
    /\ read < got
    /\ read' = read + 1
    /\ parsed' = parsed + 1
    /\ phase' = IF script[parsed + 1].coding = "chunked" THEN "chunked" ELSE "done"
    /\ clock' = "off"
    /\ UNCHANGED <<script, sent, got, eof, outVars, made, done, ecpc, end>>

\* Malformed or oversized input: refuse_malformed() writes what it can, outside
\* of write_more(), and the connection is closed.
ParseFails ==
    /\ ecpc = "parse" /\ phase # "done" /\ clock # "late"
    /\ read < got
    /\ wire' \in {wire, wire \o Refusal}
    /\ Close("error")
    /\ UNCHANGED <<script, inVars, ecout, keep_alive, switch, stream, made, done>>

\* parse_chunked() ends with Phase::Done at the last line of the trailers, but
\* parse_step() assigns BodyChunked(ch) after it returned.
ParseChunked ==
    /\ ecpc = "parse" /\ phase = "chunked"
    /\ read < got
    /\ read' = read + 1
    /\ phase' = "chunked"
    /\ UNCHANGED <<script, sent, got, eof, clock, parsed, outVars, made, done, ecpc, end>>

\* fill(): nothing to read.
ParseMore ==
    /\ ecpc = "parse" /\ phase # "done" /\ clock # "late"
    /\ read = got /\ got = sent /\ ~eof
    /\ clock' = Started
    /\ Goto("parked")
    /\ UNCHANGED <<script, sent, got, read, eof, phase, parsed, outVars, made, done>>

\* fill() reads on until the socket is empty, or the buffer is well filled.
Fill ==
    /\ ecpc = "parse" /\ phase # "done" /\ clock # "late"
    /\ read = got /\ got < sent
    /\ clock' = Started
    /\ got' \in (got + 1)..sent
    /\ UNCHANGED <<script, sent, read, eof, phase, parsed, outVars, made, done, ecpc, end>>

\* fill() meets EOF: whatever it has just read is given up with the connection.
FillEof ==
    /\ ecpc = "parse" /\ phase # "done" /\ clock # "late"
    /\ read = got /\ eof
    /\ clock' = Started
    /\ got' = sent
    /\ Close("error")
    /\ UNCHANGED <<script, sent, read, eof, phase, parsed, outVars, made, done>>

\* set_stream(), which also drops the body that was there.
Respond(k) ==
    LET keep == ~script[k].close
    IN  /\ keep_alive' = keep
        /\ UNCHANGED switch
        /\ \/ /\ script[k].kind = "plain"
              /\ stream' = 0
              /\ WriteMore(<<RHead(k), REnd(k)>>, keep, "write")
           \/ /\ script[k].kind = "stream"
              /\ stream' = k
              /\ WriteMore(<<RHead(k)>>, TRUE, "write")

\* The head is queued and the loop goes round to write it.
SwitchProtocol(k) ==
    /\ script[k].kind \in {"upgrade", "tunnel"}
    /\ ecout' = <<RHead(k)>>
    /\ keep_alive' = (script[k].kind = "upgrade")
    /\ switch' = script[k].kind
    /\ Goto("write")
    /\ UNCHANGED <<wire, stream>>

Handle ==
    /\ ecpc = "parse" /\ phase = "done"
    /\ phase' = "head"
    /\ Respond(parsed) \/ SwitchProtocol(parsed)
    /\ UNCHANGED <<script, sent, got, read, eof, clock, parsed, made, done>>

-----------------------------------------------------------------------------
Step ==
    \/ Write \/ PumpNothing \/ PumpChunk \/ PumpEmpty \/ PumpEnd \/ Switch
    \/ ParseTimeout \/ ParseHead \/ ParseChunked \/ ParseMore \/ Fill \/ FillEof \/ Handle

EcNext ==
    \/ Resume \/ Step \/ PumpFails \/ ParseFails
    \/ ClientSends \/ ClientCloses \/ DeadlinePasses
    \/ \E k \in Requests : Produce(k) \/ EcFinish(k)

EcSpec == EcInit /\ [][EcNext]_ecvars

\* A parked connection is dispatched again (ReadyIsServed of EventLoop), a step
\* runs to its end, and bodies are finished by their producers.  A write that
\* is retried for ever is not blocked for ever.
EcFairSpec ==
    /\ EcSpec
    /\ WF_ecvars(Resume) /\ WF_ecvars(Step)
    /\ SF_ecvars(Step /\ wire' # wire)
    /\ \A k \in Requests : WF_ecvars(EcFinish(k))

-----------------------------------------------------------------------------
(* Properties *)

EcTypeOK ==
    /\ sent \in 0..LastUnit /\ got \in 0..sent /\ read \in 0..got /\ eof \in BOOLEAN
    /\ phase \in {"head", "chunked", "done"} /\ clock \in {"off", "on", "late"}
    /\ parsed \in 0..NRequests
    /\ Range(ecout) \cup Range(wire) \subseteq [req : 0..NRequests, part : 0..(NChunks + 1)]
    /\ Len(ecout) <= 2
    /\ keep_alive \in BOOLEAN /\ switch \in {"none", "upgrade", "tunnel"}
    /\ stream \in 0..NRequests
    /\ made \in [Requests -> 0..NChunks] /\ done \in [Requests -> BOOLEAN]
    /\ ecpc \in {"parked", "write", "pump", "switch", "parse", "closed", "upgrade", "tunnel"}
    /\ end \in {"open", "clean", "error", "switched"}

\* pump_body() writes the terminating chunk only behind a whole body, so a
\* truncated body is detectable: an end on the wire follows every chunk the
\* producer of that body sent.
EndMeansWhole ==
    \A k \in Requests : Written(REnd(k)) /\ script[k].kind = "stream" =>
      done[k] /\ \A i \in 1..made[k] : Written(RChunk(k, i))

\* No handler of the script streams its body.
Buffered == \A k \in Requests : script[k].kind # "stream"

\* Whatever comes before a part belongs to the same response or to one that has
\* ended, the responses before this one have ended, and its head comes first.
OneByOne(parts) ==
    \A j \in 1..Len(parts) :
      LET now    == parts[j].req
          before == Range(SubSeq(parts, 1, j - 1))
      IN  /\ \A p \in before : p.req = now \/ REnd(p.req) \in before
          /\ \A k \in 1..(now - 1) : REnd(k) \in before
          /\ parts[j] # RHead(now) => RHead(now) \in before

\* Responses leave in the order of the requests, and each is whole before the
\* next one, or a refusal, begins.  Streaming bodies are left out: nothing in
\* step() keeps the next request, or a refusal, from overtaking one.
ResponsesInOrder == Buffered => OneByOne(wire)

\* The connection switches to WebSocket frames, or to a tunnel, exactly behind
\* the written head of the response that announced it.
SwitchedBehindHead ==
    end = "switched" => /\ ecout = <<>>
                        /\ Buffered => wire # <<>> /\ Last(wire) = RHead(parsed)
                        /\ Written(RHead(parsed)) /\ script[parsed].kind = ecpc

\* What one connection writes: typed, no truncation passed off as an end, responses in
\* order, and frames or a tunnel only behind the head that announced them.
ResponsesWhole == EcTypeOK /\ EndMeansWhole /\ ResponsesInOrder /\ SwitchedBehindHead

\* Every request the client has sent whole is answered to its end, or the
\* connection ends or switches.  Set aside: a request pipelined behind a
\* streaming response, whose body it replaces.
Overtakes(k) == script[k].pipelined /\ script[k - 1].kind = "stream"
Whole(k) == HeadsSent >= k /\ AtHead
RequestsAnswered ==
    (\A k \in 2..NRequests : ~Overtakes(k)) =>
      \A k \in Requests : Whole(k) ~> (Written(REnd(k)) \/ end # "open")

\* The same for a client that frames its requests by Content-Length: every path
\* through write_more(), pump_body() and next_request() gets there.
LengthRequestsAnswered == (\A k \in Requests : script[k].coding = "length") => RequestsAnswered

=============================================================================
