-------------------------------- MODULE Grpc --------------------------------
(***************************************************************************)
(* One gRPC call (courierust_grpc): the handler's thread, the framing      *)
(* thread and the serve thread it starts, the response's way to the        *)
(* client, and the client's MessageStream.  The service is a script of     *)
(* steps, or the health service's Watch.  A frame is two bytes, its head   *)
(* and its payload, so that the transport can cut it.                      *)
(***************************************************************************)
EXTENDS Integers, Sequences, SequencesExt, FiniteSets

CONSTANTS GScripts,     \* what services do: sequences of steps
          GBodies,      \* request bodies: "good", "truncated", "failed"
          GTimeouts,    \* the client's timeouts; NoTimeout is none
          GMinute, GHour, \* seconds of a minute and of an hour, scaled down
          GClock,       \* bound: the clock
          GUpdates      \* bound: changes of the watched health status

NoTimeout == -1
ASSUME GAssumption ==
  /\ GTimeouts \subseteq {NoTimeout} \cup Nat
  /\ {GMinute, GHour} \subseteq Nat \ {0} /\ {GClock, GUpdates} \subseteq Nat

VARIABLES gcall,    \* the call: kind, body, timeout, script
          gnow,     \* the clock
          ghand,    \* the handler: pc, deadline
          gserve,   \* the serve thread: pc, next step, the Watch loop's locals, result
          gmsgs,    \* raw messages, service to framing thread
          gframe,   \* the framing thread: pc, whether a message was seen (Started)
          gbody,    \* the response body's channel, and whether its reader lives
          gcancel,  \* the shared cancellation flag
          gresp,    \* the response head: "none", "stream" or a status
          gchan,    \* what the client's body channel holds, how it ended, the trailers
          gcli,     \* MessageStream: state, buffer, messages returned
          ghealth,  \* the health service: status and version
          gsent     \* history: the messages the service has sent

gvars == <<gcall, gnow, ghand, gserve, gmsgs, gframe, gbody, gcancel, gresp, gchan, gcli, ghealth, gsent>>

GNone == "none"

\* grpc_timeout(): the coarsest unit that counts at least one.
GrpcTimeout(d) ==
  CASE d = 0 -> <<1, "n">>
    [] d \div GHour > 0 -> <<d \div GHour, "H">>
    [] d \div GHour = 0 /\ d \div GMinute > 0 -> <<d \div GMinute, "M">>
    [] OTHER -> <<d, "S">>

\* Deadline::parse(): hours are read as seconds, as the code has it.
ParseTimeout(v) == IF v[2] = "M" THEN v[1] * GMinute ELSE IF v[2] = "n" THEN 0 ELSE v[1]

GInit ==
  /\ gcall \in [kind : {"call", "stream"}, body : GBodies, timeout : GTimeouts, script : GScripts]
  /\ gnow = 0
  /\ ghand = [pc |-> "parse", deadline |-> NoTimeout]
  /\ gserve = [pc |-> "idle", i |-> 1, last |-> -1, snap |-> "up", result |-> GNone]
  /\ gmsgs = <<>> /\ gframe = [pc |-> "idle", started |-> FALSE]
  /\ gbody = [q |-> <<>>, rx |-> TRUE]
  /\ gcancel = FALSE /\ gresp = GNone
  /\ gchan = [q |-> <<>>, end |-> GNone, trailers |-> GNone]
  /\ gcli = [st |-> "head", buf |-> <<>>, got |-> <<>>]
  /\ ghealth = [status |-> "up", version |-> 0]
  /\ gsent = <<>>

GExpired == ghand.deadline # NoTimeout /\ gnow >= ghand.deadline

-----------------------------------------------------------------------------
(* handle()                                                                *)

\* grpc_error_response(): the status is in the head; the body's receiver is dropped.
ErrorResponse(code, pc) ==
  /\ gresp' = code /\ gbody' = [q |-> <<>>, rx |-> FALSE]
  /\ ghand' = [ghand EXCEPT !.pc = pc]

\* Deadline::parse() and collect(), which end the call early.
GParse ==
  /\ ghand.pc = "parse"
  /\ LET d == IF gcall.timeout = NoTimeout THEN NoTimeout ELSE gnow + ParseTimeout(GrpcTimeout(gcall.timeout))
     IN IF d # NoTimeout /\ gnow >= d
        THEN ErrorResponse("DEADLINE", "done")
        ELSE ghand' = [pc |-> "collect", deadline |-> d] /\ UNCHANGED <<gresp, gbody>>
  /\ UNCHANGED <<gcall, gnow, gserve, gmsgs, gframe, gcancel, gchan, gcli, ghealth, gsent>>

\* collect() and decode_messages(): a body that failed, or that ends inside a frame.
Decodes(body) == body \notin {"truncated", "failed"}

\* The request's messages, and the two threads.
GCollect ==
  /\ ghand.pc = "collect"
  /\ IF ~Decodes(gcall.body)
     THEN ErrorResponse("INTERNAL", "done") /\ UNCHANGED <<gserve, gframe>>
     ELSE /\ gserve' = [gserve EXCEPT !.pc = "run"] /\ gframe' = [gframe EXCEPT !.pc = "run"]
          /\ ghand' = [ghand EXCEPT !.pc = "look"] /\ UNCHANGED <<gresp, gbody>>
  /\ UNCHANGED <<gcall, gnow, gmsgs, gcancel, gchan, gcli, ghealth, gsent>>

\* d <= now before the wait: the answer is given, and nobody is cancelled.
GLook ==
  /\ ghand.pc = "look"
  /\ IF GExpired THEN ErrorResponse("DEADLINE", "done")
                ELSE ghand' = [ghand EXCEPT !.pc = "wait"] /\ UNCHANGED <<gresp, gbody>>
  /\ UNCHANGED <<gcall, gnow, gserve, gmsgs, gframe, gcancel, gchan, gcli, ghealth, gsent>>

\* cancel.store(true) before the answer.
GiveUp == gcancel' = TRUE

\* started_rx: a message, both senders gone, or the deadline.
GWait ==
  /\ ghand.pc = "wait"
  /\ \/ /\ gframe.started
        /\ gresp' = "stream" /\ ghand' = [ghand EXCEPT !.pc = "done"] /\ UNCHANGED <<gbody, gcancel>>
     \/ /\ ~gframe.started /\ gserve.pc = "end" /\ gframe.pc = "end"
        /\ IF gserve.result = "OK"
           THEN gresp' = "stream" /\ ghand' = [ghand EXCEPT !.pc = "done"] /\ UNCHANGED gbody
           ELSE ErrorResponse(gserve.result, "done")
        /\ UNCHANGED gcancel
     \/ /\ ~gframe.started /\ GExpired /\ ~(gserve.pc = "end" /\ gframe.pc = "end")
        /\ GiveUp /\ ErrorResponse("DEADLINE", "gaveup")
  /\ UNCHANGED <<gcall, gnow, gserve, gmsgs, gframe, gchan, gcli, ghealth, gsent>>

-----------------------------------------------------------------------------
(* The framing thread                                                      *)

\* frame_outbound() and frame_message(): a message above max_message_size is an error of the body.
FrameOutbound(m) == IF m = "big" THEN <<<<m, "error">>>> ELSE <<<<m, "head">>, <<m, "rest">>>>
FrameEnds == gframe' = [gframe EXCEPT !.pc = "end"]

\* A message: signal Started once, frame it, forward it.
FrameMessage ==
  /\ gframe.pc = "run" /\ gmsgs # <<>>
  /\ gmsgs' = Tail(gmsgs)
  /\ IF gbody.rx
     THEN /\ gbody' = [gbody EXCEPT !.q = @ \o FrameOutbound(Head(gmsgs))]
          /\ gframe' = [gframe EXCEPT !.started = TRUE] /\ UNCHANGED gcancel
     ELSE /\ gframe' = [pc |-> "end", started |-> TRUE] /\ gcancel' = TRUE /\ UNCHANGED gbody
  /\ UNCHANGED <<gcall, gnow, ghand, gserve, gresp, gchan, gcli, ghealth, gsent>>

\* The 50 ms timeout looks at the flag; a closed channel ends the thread.
FrameIdle ==
  /\ gframe.pc = "run" /\ gmsgs = <<>> /\ (gcancel \/ gserve.pc = "end")
  /\ FrameEnds
  /\ UNCHANGED <<gcall, gnow, ghand, gserve, gmsgs, gbody, gcancel, gresp, gchan, gcli, ghealth, gsent>>

-----------------------------------------------------------------------------
(* The serve thread                                                        *)

ServeReturns(r) == gserve' = [gserve EXCEPT !.pc = "end", !.result = r]
Step == gcall.script[gserve.i]
GRunning(step) == gserve.pc = "run" /\ gserve.i <= Len(gcall.script) /\ Step = step
Proceeds == gserve' = [gserve EXCEPT !.i = @ + 1]

\* BodySender::send(): the framing thread may have gone.
ServeSend(m, after, r) ==
  IF gframe.pc = "end"
  THEN gcancel' = TRUE /\ ServeReturns(r) /\ UNCHANGED <<gmsgs, gsent>>
  ELSE /\ gmsgs' = Append(gmsgs, m) /\ gsent' = Append(gsent, m) /\ gserve' = after
       /\ UNCHANGED gcancel

\* serve() of a script: reqs.next() through DeadlineIter, tx.send(), an error, a panic,
\* or a wait that polls is_cancelled().
ServeStep ==
  /\ gserve.pc = "run"
  /\ \/ GRunning("read") /\ (IF GExpired THEN ServeReturns("DEADLINE") ELSE Proceeds) /\ UNCHANGED <<gmsgs, gsent, gcancel>>
     \/ \E m \in {"m1", "m2", "big"} : GRunning(m) /\ ServeSend(m, [gserve EXCEPT !.i = @ + 1], "INTERNAL")
     \/ GRunning("fail") /\ ServeReturns("SERVICE") /\ UNCHANGED <<gmsgs, gsent, gcancel>>
     \/ GRunning("panic") /\ ServeReturns("INTERNAL") /\ UNCHANGED <<gmsgs, gsent, gcancel>>
     \/ GRunning("poll") /\ gcancel /\ ServeReturns("OK") /\ UNCHANGED <<gmsgs, gsent, gcancel>>
     \/ gserve.i > Len(gcall.script) /\ ServeReturns("OK") /\ UNCHANGED <<gmsgs, gsent, gcancel>>
  /\ UNCHANGED <<gcall, gnow, ghand, gframe, gbody, gresp, gchan, gcli, ghealth>>

\* watch(): look at the flag, then at the status under the lock.
WatchLook ==
  /\ GRunning("watch") /\ (gcancel \/ ghealth.version # gserve.last)
  /\ IF gcancel THEN ServeReturns("OK")
                ELSE gserve' = [gserve EXCEPT !.pc = "send", !.snap = ghealth.status, !.last = ghealth.version]
  /\ UNCHANGED <<gcall, gnow, ghand, gmsgs, gframe, gbody, gcancel, gresp, gchan, gcli, ghealth, gsent>>

\* The send, and wait_timeout(500 ms), after which the loop looks again; a failed send returns Ok.
WatchSend ==
  /\ gserve.pc = "send"
  /\ ServeSend(gserve.snap, [gserve EXCEPT !.pc = "run"], "OK")
  /\ UNCHANGED <<gcall, gnow, ghand, gframe, gbody, gresp, gchan, gcli, ghealth>>

\* update_service() and update_overall(): every change of any service bumps the version.
GUpdate ==
  /\ gcall.script = <<"watch">> /\ ghealth.version < GUpdates
  /\ \E s \in {"up", "down"} : ghealth' = [status |-> s, version |-> ghealth.version + 1]
  /\ UNCHANGED <<gcall, gnow, ghand, gserve, gmsgs, gframe, gbody, gcancel, gresp, gchan, gcli, gsent>>

-----------------------------------------------------------------------------
(* The HTTP/2 exchange between them                                        *)

\* DATA of the body, a byte at a time; trailers when it ends; a failed body resets the stream.
Deliver ==
  /\ gresp = "stream" /\ gchan.end = GNone /\ gbody.rx
  /\ \/ /\ gbody.q # <<>> /\ Head(gbody.q)[2] # "error"
        /\ gchan' = [gchan EXCEPT !.q = Append(@, Head(gbody.q))] /\ gbody' = [gbody EXCEPT !.q = Tail(@)]
     \/ /\ gbody.q # <<>> /\ Head(gbody.q)[2] = "error"
        /\ gchan' = [gchan EXCEPT !.end = "error"] /\ gbody' = [q |-> <<>>, rx |-> FALSE]
     \/ /\ gbody.q = <<>> /\ gframe.pc = "end"
        /\ gchan' = [gchan EXCEPT !.end = "eof", !.trailers = "OK"] /\ gbody' = [gbody EXCEPT !.rx = FALSE]
  /\ UNCHANGED <<gcall, gnow, ghand, gserve, gmsgs, gframe, gcancel, gresp, gcli, ghealth, gsent>>

\* The connection dies under a stream, or a client that has left resets it.
GBreak ==
  /\ gresp = "stream" /\ gchan.end = GNone
  /\ \E how \in {"eof", "error"} : gchan' = [gchan EXCEPT !.end = how]
  /\ gbody' = [q |-> <<>>, rx |-> FALSE]
  /\ UNCHANGED <<gcall, gnow, ghand, gserve, gmsgs, gframe, gcancel, gresp, gcli, ghealth, gsent>>

-----------------------------------------------------------------------------
(* MessageStream                                                           *)

GEnded(st) == gcli' = [gcli EXCEPT !.st = st]

\* Faulty variant: a stream without a status has ended well.
FinishCodeOk == IF gchan.trailers # GNone THEN gchan.trailers ELSE IF gresp # "stream" THEN gresp ELSE "OK"
\* finish(): the status of the trailers, else of the head, else UNKNOWN.
FinishCode == IF gchan.trailers # GNone THEN gchan.trailers ELSE IF gresp # "stream" THEN gresp ELSE "UNKNOWN"
GFinish == GEnded(FinishCode)

\* One turn of next_message(); call() keeps the first message and drops the stream.
NextMessage ==
  /\ gcli.st \in {"head", "read"} /\ gresp # GNone
  /\ \/ /\ gcli.st = "head" /\ GEnded("read") /\ UNCHANGED gchan
     \/ /\ gcli.st = "read" /\ Len(gcli.buf) >= 2
        /\ gcli' = [st |-> IF gcall.kind = "call" THEN "OK" ELSE "read",
                    buf |-> SubSeq(gcli.buf, 3, Len(gcli.buf)), got |-> Append(gcli.got, gcli.buf[1][1])]
        /\ UNCHANGED gchan
     \/ /\ gcli.st = "read" /\ Len(gcli.buf) < 2 /\ gchan.q # <<>>
        /\ gcli' = [gcli EXCEPT !.buf = Append(@, Head(gchan.q))] /\ gchan' = [gchan EXCEPT !.q = Tail(@)]
     \/ /\ gcli.st = "read" /\ Len(gcli.buf) < 2 /\ gchan.q = <<>>
        /\ gchan.end # GNone \/ gresp # "stream"
        /\ IF gchan.end = "error" THEN GEnded("BROKEN")
           ELSE IF gcli.buf # <<>> THEN GEnded("TRUNCATED")
           ELSE IF gcall.kind = "call" /\ FinishCode = "OK" THEN GEnded("INTERNAL")
           ELSE GFinish
        /\ UNCHANGED gchan
  /\ UNCHANGED <<gcall, gnow, ghand, gserve, gmsgs, gframe, gbody, gcancel, gresp, ghealth, gsent>>

\* The application drops a MessageStream it has not read to the end.
Abandon ==
  /\ gcli.st = "read" /\ GEnded("left")
  /\ UNCHANGED <<gcall, gnow, ghand, gserve, gmsgs, gframe, gbody, gcancel, gresp, gchan, ghealth, gsent>>

\* Time counts from the arrival of the request.
GTick ==
  /\ ghand.pc # "parse" /\ gnow < GClock /\ gnow' = gnow + 1
  /\ UNCHANGED <<gcall, ghand, gserve, gmsgs, gframe, gbody, gcancel, gresp, gchan, gcli, ghealth, gsent>>

HandlerThread == GParse \/ GCollect \/ GLook \/ GWait
FramingThread == FrameMessage \/ FrameIdle
ServeThread == ServeStep \/ WatchLook \/ WatchSend
GNext == HandlerThread \/ FramingThread \/ ServeThread \/ GUpdate \/ Deliver \/ GBreak \/ NextMessage \/ Abandon \/ GTick

-----------------------------------------------------------------------------
GSpec == GInit /\ [][GNext]_gvars

(***************************************************************************)
(* What the client is told is true: the messages it gets are the service's *)
(* messages, in order and none invented or cut, and nothing follows one    *)
(* that could not be framed; a stream read to a clean end has given all of *)
(* them; a failed call that gave no message ends with the service's own    *)
(* code, and with DEADLINE_EXCEEDED only when its time was up; a stream    *)
(* that dies under way never ends with OK.  One thing it is told is not    *)
(* true: the trailers say grpc-status 0 before the service has ended, so   *)
(* that one which fails or panics is reported as OK, against the comment   *)
(* on serve(); but only after its first message, which is the exception    *)
(* named here.                                                             *)
(***************************************************************************)
StreamHonest ==
  /\ IsPrefix(gcli.got, gsent) /\ \A i \in DOMAIN gcli.got : gcli.got[i] # "big"
  /\ gcli.st = "OK" /\ gcall.kind = "stream" =>
       /\ gcli.got = gsent /\ gserve.pc = "end" /\ gchan.trailers = "OK"
       /\ gserve.result # "OK" => gsent # <<>>
  /\ gcli.st = "SERVICE" => gserve.result = "SERVICE" /\ gsent = <<>>
  /\ gcli.st = "DEADLINE" => GExpired \/ gcall.timeout = 0

\* A service that nobody tells that its reader has gone: no flag is raised, it has nothing
\* to send, and a send is the only other way to find out.  handle() leaves one behind when
\* the deadline passes before its wait, a reset when the service is silent.
Untold ==
  /\ ~gcancel /\ gmsgs = <<>>
  /\ GRunning("poll") \/ (GRunning("watch") /\ ghealth.version = gserve.last)

(***************************************************************************)
(* Every call with a deadline is answered; once nobody reads the response  *)
(* both threads end, but for a service that is never told, which the       *)
(* comment on `cancel' says does not leak; and a client that keeps reading *)
(* a Watch has the current status in the end, although the notification    *)
(* may come while the watcher holds no lock.                               *)
(***************************************************************************)
GSettled ==
  /\ gcall.timeout # NoTimeout => gresp # GNone
  /\ ~gbody.rx => {gserve.pc, gframe.pc} \subseteq {"idle", "end"} \/ Untold
  /\ gcall.script = <<"watch">> /\ gcall.kind = "stream" /\ gcli.st = "read" /\ gchan.end = GNone =>
       gcli.got # <<>> /\ Last(gcli.got) = ghealth.status
=============================================================================
