------------------------------ MODULE MCClient ------------------------------
(***************************************************************************)
(* Five parts of the client and of the services it talks to, which share   *)
(* no state; `part' says which of them moves: the HTTP/1.1 path, the pool  *)
(* of multiplexed connections, their driver, a WebSocket connection that   *)
(* ends, and a gRPC call.                                                  *)
(***************************************************************************)
EXTENDS ClientExec, ClientPool, ClientH2, WsServe, Grpc

CONSTANT Parts  \* the parts a run looks at

VARIABLE part

mcvars == <<part, cevars, cpvars, cdvars, wvvars, gvars>>

ExecPart(A) == part = "exec" /\ A /\ UNCHANGED <<part, cpvars, cdvars, wvvars, gvars>>
PoolPart(A) == part = "pool" /\ A /\ UNCHANGED <<part, cevars, cdvars, wvvars, gvars>>
DriverPart(A) == part = "driver" /\ A /\ UNCHANGED <<part, cevars, cpvars, wvvars, gvars>>
WsPart(A) == part = "ws" /\ A /\ UNCHANGED <<part, cevars, cpvars, cdvars, gvars>>
GrpcPart(A) == part = "grpc" /\ A /\ UNCHANGED <<part, cevars, cpvars, cdvars, wvvars>>

Init ==
    /\ part \in Parts
    /\ CeInit /\ CpInit /\ CdInit
    /\ WvInit /\ (part # "ws" => mode = CHOOSE m \in WvModes : TRUE)
    /\ GInit /\ (part # "grpc" => gcall = [kind |-> "call", body |-> "good", timeout |-> 0, script |-> <<"poll">>])

Next == ExecPart(CeNext) \/ PoolPart(CpNext) \/ DriverPart(CdNext) \/ WsPart(WvNext) \/ GrpcPart(GNext)

\* Threads run, time passes and opens end; a driver answers what it has taken; a deadline
\* that is not put off passes; the connection of a gRPC call delivers and its client goes
\* on reading.  Nothing makes a WebSocket peer read.
Spec ==
    /\ Init /\ [][Next]_mcvars
    /\ \A c \in CeCallers : WF_mcvars(ExecPart(CallerStep(c)))
    /\ \A c \in CpCallers : WF_mcvars(PoolPart(Acquire(c))) /\ WF_mcvars(PoolPart(Exchange(c)))
    /\ \A k \in CpConns : WF_mcvars(PoolPart(DriverReplies(k)))
    /\ WF_mcvars(DriverPart(Driver))
    /\ \A s \in Streams : SF_mcvars(DriverPart(DeadlinePasses(s)))
    /\ WF_mcvars(WsPart(DriverStep)) /\ WF_mcvars(WsPart(AppStep))
    /\ SF_mcvars(WsPart(Tick))
    /\ WF_mcvars(GrpcPart(HandlerThread)) /\ WF_mcvars(GrpcPart(FramingThread))
    /\ WF_mcvars(GrpcPart(ServeThread)) /\ WF_mcvars(GrpcPart(NextMessage))
    /\ WF_mcvars(GrpcPart(Deliver)) /\ WF_mcvars(GrpcPart(GTick))

-----------------------------------------------------------------------------
(***************************************************************************)
(* Nobody is left waiting, stated once for the part that moves: every      *)
(* execute() returns, every caller of the pool is served, every request    *)
(* the driver took is answered, a WebSocket closes and is reported, a gRPC *)
(* call with a deadline is answered, its threads end and a Watch catches   *)
(* up.  Each part names the cases in which the code does leave one behind. *)
(***************************************************************************)
CallsSettle ==
    <>[](CASE part = "exec" -> CallsReturn
           [] part = "pool" -> CallersServed
           [] part = "driver" -> RequestsEnded
           [] part = "ws" -> ClosingEnded
           [] part = "grpc" -> GSettled)

-----------------------------------------------------------------------------
(* Values of the constants                                                 *)

MCOrigins == {<<"https", "a">>, <<"http", "a">>}

\* What a caller may ask for: a safe request, a POST with and without a body, a POST with a
\* streaming body.
MCRequests ==
    {[method |-> "GET", body |-> "none", origin |-> <<"https", "a">>],
     [method |-> "POST", body |-> "bytes", origin |-> <<"https", "a">>],
     [method |-> "POST", body |-> "none", origin |-> <<"https", "a">>],
     [method |-> "POST", body |-> "stream", origin |-> <<"https", "a">>]}

\* What a gRPC service does: it watches, reads, sends messages (one too large to frame),
\* fails before or after the first, panics, or polls without saying anything.
MCScripts ==
    {<<"watch">>, <<"read", "m1", "m2">>, <<"m1", "fail">>, <<"fail">>, <<"panic">>, <<"poll">>,
     <<"m1", "big", "m2">>, <<"m1", "read", "m2">>}
MCTimeouts == {NoTimeout, 0, 1, 3}
=============================================================================
