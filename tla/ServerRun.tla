----------------------------- MODULE ServerRun ------------------------------
(***************************************************************************)
(* courierust_server/mod.rs: a server from serve_inner() to its return.    *)
(* The server thread installs what a stop has to wake, accepts, and at the *)
(* end joins its threads and drops the pool; ServerStop::request() runs on *)
(* other threads at any moment.  In event mode the accept loop is a thread *)
(* of its own next to the reactor and its workers.                         *)
(***************************************************************************)
EXTENDS Naturals, Sequences, FiniteSets

CONSTANTS SrClients,        \* clients that may connect
          SrStoppers,       \* threads that may call request()
          MaxConnections    \* config.max_connections, 0 for no limit

\* The connection a stop makes to its own listener.
WAKE == "wake"

ASSUME SrAssumption == MaxConnections \in Nat /\ IsFiniteSet(SrClients) /\ WAKE \notin SrClients

VARIABLES srv,     \* the mode, the pcs of server thread, reactor and worker, and the pool's idle workers
          stop,    \* ServerStop, and the pc of every stopper
          backlog, \* connections the listener has not handed out
          job,     \* what became of a connection
          active   \* the AtomicUsize of try_reserve()

srvars == <<srv, stop, backlog, job, active>>

Conns == SrClients \cup {WAKE}

SrInit ==
    /\ \E mode \in {"event", "blocking"} :
         srv = [mode |-> mode, pc |-> "setup", reactor |-> "none", worker |-> "none", idle |-> "parked"]
    /\ stop = [requested |-> FALSE, reactor_wake |-> FALSE, listener |-> FALSE, woke |-> FALSE,
               pc |-> [t \in SrStoppers |-> "idle"]]
    /\ backlog = <<>>
    /\ job = [c \in Conns |-> "none"]
    /\ active = 0

SrGoto(l) == srv' = [srv EXCEPT !.pc = l]
Returned == srv.pc \in {"returned", "failed"}

-----------------------------------------------------------------------------
(* The server thread *)

\* The HTTP/3 part of serve_inner() may fail, and ready carries the outcome.
Setup ==
    /\ srv.pc = "setup"
    /\ SrGoto("failed") \/ SrGoto(IF srv.mode = "event" THEN "wake" ELSE "listen")
    /\ UNCHANGED <<stop, backlog, job, active>>

\* install_reactor_wake() and install_listener(), then the threads start.
InstallWake ==
    /\ srv.pc = "wake"
    /\ stop' = [stop EXCEPT !.reactor_wake = TRUE]
    /\ SrGoto("listen")
    /\ UNCHANGED <<backlog, job, active>>

InstallListener ==
    /\ srv.pc = "listen"
    /\ stop' = [stop EXCEPT !.listener = TRUE]
    /\ srv' = [srv EXCEPT !.pc = "accept",
                          !.reactor = IF srv.mode = "event" THEN "top" ELSE @,
                          !.worker = IF srv.mode = "event" THEN "recv" ELSE @]
    /\ UNCHANGED <<backlog, job, active>>

TryReserve == MaxConnections = 0 \/ active < MaxConnections

\* One turn of listener.incoming(): leave, refuse, or hand to the pool (blocking) or
\* the reactor (event; EventLoop has its own cap).
Accept ==
    /\ srv.pc = "accept" /\ backlog # <<>>
    /\ backlog' = Tail(backlog)
    /\ LET c == Head(backlog)
       IN  \/ /\ stop.requested
              /\ SrGoto("join")
              /\ UNCHANGED <<job, active>>
           \/ /\ ~stop.requested /\ (srv.mode = "event" \/ TryReserve)
              /\ job' = [job EXCEPT ![c] = "queued"]
              /\ active' = IF srv.mode = "event" THEN active ELSE active + 1
              /\ UNCHANGED srv
           \/ /\ ~stop.requested /\ srv.mode = "blocking" /\ ~TryReserve
              /\ job' = [job EXCEPT ![c] = "refused"]
              /\ UNCHANGED <<srv, active>>
    /\ UNCHANGED stop

\* event_loop() tests the flag on every turn, and its waits have a time limit.
ReactorTurn ==
    /\ srv.reactor = "top"
    /\ srv' = [srv EXCEPT !.reactor = IF stop.requested THEN "gone" ELSE "poll"]
    /\ UNCHANGED <<stop, backlog, job, active>>

ReactorPoll ==
    /\ srv.reactor = "poll"
    /\ srv' = [srv EXCEPT !.reactor = "top"]
    /\ UNCHANGED <<stop, backlog, job, active>>

\* event_worker(): recv() fails once the reactor has dropped ready_tx.
WorkerEnds ==
    /\ srv.worker = "recv" /\ srv.reactor = "gone"
    /\ srv' = [srv EXCEPT !.worker = "gone"]
    /\ UNCHANGED <<stop, backlog, job, active>>

\* serve_event() joins the reactor and its workers.
Join ==
    /\ srv.pc = "join"
    /\ srv.mode = "event" => srv.reactor = "gone" /\ srv.worker = "gone"
    /\ SrGoto("drop")
    /\ UNCHANGED <<stop, backlog, job, active>>

Held(c) == srv.mode = "blocking" /\ job[c] \in {"queued", "running"}

\* The last Arc of the pool: Drop stores the flag and notifies without the mutex.  A worker
\* that has tested the flag and does not wait yet (WorkPool, ParkTest) sleeps through it.
DropPool ==
    /\ srv.pc = "drop"
    /\ \E heard \in {"told", "asleep"} : srv' = [srv EXCEPT !.pc = "await", !.idle = heard]
    /\ UNCHANGED <<stop, backlog, job, active>>

\* A wait may end unprompted; nothing promises it.
SpuriousWake ==
    /\ srv.idle = "asleep"
    /\ srv' = [srv EXCEPT !.idle = "told"]
    /\ UNCHANGED <<stop, backlog, job, active>>

\* The join of every worker: running jobs are waited for, queued ones dropped with their
\* permits.
PoolJoined ==
    /\ srv.pc = "await" /\ srv.idle = "told" /\ \A c \in Conns : job[c] # "running"
    /\ SrGoto("returned")
    /\ job' = [c \in Conns |-> IF job[c] = "queued" THEN "dropped" ELSE job[c]]
    /\ active' = active - Cardinality({c \in Conns : Held(c)})
    /\ UNCHANGED <<stop, backlog>>

-----------------------------------------------------------------------------
(* The pool's jobs *)

\* A worker that tested the flag before it was stored still takes a job.
JobStarts(c) ==
    /\ job[c] = "queued" /\ ~Returned
    /\ job' = [job EXCEPT ![c] = "running"]
    /\ UNCHANGED <<srv, stop, backlog, active>>

\* Faulty variant: the decrement follows the handler, and a panic skips it.
JobEndsLeaks(c) ==
    /\ job[c] = "running"
    /\ \/ job' = [job EXCEPT ![c] = "served"] /\ active' = IF Held(c) THEN active - 1 ELSE active
       \/ job' = [job EXCEPT ![c] = "panicked"] /\ UNCHANGED active
    /\ UNCHANGED <<srv, stop, backlog>>

\* serve_connection() returns or the handler panics; the permit is dropped in both.
JobEnds(c) ==
    /\ job[c] = "running"
    /\ \E end \in {"served", "panicked"} : job' = [job EXCEPT ![c] = end]
    /\ active' = IF Held(c) THEN active - 1 ELSE active
    /\ UNCHANGED <<srv, stop, backlog>>

-----------------------------------------------------------------------------
(* ServerStop::request(): swap, nudge the reactor, connect to the listener *)

StopTo(t, l) == [stop EXCEPT !.pc[t] = l]

RequestSwap(t) ==
    /\ stop.pc[t] = "idle"
    /\ stop' = [StopTo(t, IF stop.requested THEN "done" ELSE "connect") EXCEPT !.requested = TRUE]
    /\ UNCHANGED <<srv, backlog, job, active>>

\* Faulty variant: only the reactor is woken.
RequestNudge(t) ==
    /\ stop.pc[t] = "connect"
    /\ stop' = [StopTo(t, "done") EXCEPT !.woke = stop.listener]
    /\ UNCHANGED <<srv, backlog, job, active>>

\* wake(): the nudge only shortens a poll.  The connection reaches the backlog of
\* the listener if it is installed.
RequestWake(t) ==
    /\ stop.pc[t] = "connect"
    /\ stop' = [StopTo(t, "done") EXCEPT !.woke = stop.listener]
    /\ backlog' = IF stop.listener THEN Append(backlog, WAKE) ELSE backlog
    /\ UNCHANGED <<srv, job, active>>

Connect(c) ==
    /\ job[c] = "none" /\ ~Returned
    /\ backlog' = Append(backlog, c)
    /\ job' = [job EXCEPT ![c] = "waiting"]
    /\ UNCHANGED <<srv, stop, active>>

-----------------------------------------------------------------------------

ServerThread == Setup \/ InstallWake \/ InstallListener \/ Accept \/ Join \/ DropPool \/ PoolJoined
OtherThreads == ReactorTurn \/ ReactorPoll \/ WorkerEnds
Stopping == \E t \in SrStoppers : RequestSwap(t) \/ RequestWake(t)
JobSteps == \E c \in Conns : JobStarts(c) \/ JobEnds(c)

SrNext ==
    \/ ServerThread \/ OtherThreads \/ Stopping \/ JobSteps \/ SpuriousWake
    \/ \E c \in SrClients : Connect(c)

SrSpec == SrInit /\ [][SrNext]_srvars

-----------------------------------------------------------------------------
(* Properties *)

\* try_reserve() and ConnectionPermit: the counter is exactly the connections that
\* hold a permit, whatever panics or is dropped with the pool, and within the limit; the
\* throwaway connection of a stop is never handed on as a client's.
PermitsExact ==
    /\ active = Cardinality({c \in Conns : Held(c)})
    /\ MaxConnections > 0 => active <= MaxConnections
    /\ job[WAKE] = "none"

\* The stop came before install_listener(), so that its wake reached nobody, and no
\* connection has come since that would make the accept loop look at the flag.
Unwoken == srv.pc = "accept" /\ ~stop.woke /\ backlog = <<>>

\* ServerHandle::stop() at any moment of the server's start, while it accepts, polls or
\* joins: the server returns, unless one of two things the code does not exclude happens,
\* and then it is found there: the accept loop was not woken, or the pool's Drop waits for
\* a worker that slept through its notification.
StopReturns == <>[](stop.requested => Returned \/ Unwoken \/ (srv.pc = "await" /\ srv.idle = "asleep"))

=============================================================================
