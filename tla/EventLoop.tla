------------------------------ MODULE EventLoop ------------------------------
(***************************************************************************)
(* The event-driven server of courierust_server/event.rs: the accept       *)
(* thread, the reactor thread, the event workers, the tunnel threads and   *)
(* the application threads that produce output for parked connections.     *)
(*                                                                         *)
(* A connection is owned by exactly one party, `place'.  The reactor alone *)
(* owns the poller, `pending' and `activity'; the registries are shared;   *)
(* `msgs' and `ready' are the two channels.  What one step of a connection *)
(* does to its bytes is EventConn; here a step may end in any way the code *)
(* allows.  Clocks are abstracted to the fact that a deadline has passed.  *)
(***************************************************************************)
EXTENDS Naturals, Sequences, FiniteSets, SequencesExt

CONSTANTS Conns,           \* connection ids, given out in order
          Workers,
          DispatchBatch,   \* DISPATCH_BATCH
          Configs,         \* the configurations to explore, see `config'
          MaxMsgs,         \* bound: queued messages at which producers pause
          MaxReady         \* bound: queued batches at which polls and producers pause

ASSUME LoopAssumption ==
    /\ Conns \subseteq Nat \ {0} /\ IsFiniteSet(Conns)
    /\ {DispatchBatch, MaxMsgs, MaxReady} \subseteq Nat \ {0}
    /\ Configs \subseteq [conns : Nat, workers : Nat \ {0},
                          max_connections : Nat, idle_timeout : BOOLEAN,
                          answers : SUBSET {"stream", "upgrade", "tunnel"}]

VARIABLES config,     \* how many connections arrive and workers run, the cap of
                      \* ServerConfig (0: none), whether its idle_timeout is
                      \* set, and what handlers answer besides whole responses;
                      \* never changes
          place,      \* who owns the connection
          proto,      \* "h1" (EventConn) or "ws" (WsEventConn)
          input,      \* unread bytes, or the peer's EOF
          outbuf,     \* unwritten output: none, "full" or "room" in the socket
          streaming,  \* stream_rx: a response body is being produced
          app,        \* a body chunk, or a WebSocket frame, is queued
          firing,     \* application threads between queueing and waking
          due,        \* the deadline of a parked connection that has passed
          msgs,       \* the EventMsg channel
          ready,      \* the channel of dispatched batches
          poller,     \* the watched direction, or "off"
          activity,   \* the keys of the activity table
          stale,      \* those whose entry is older than idle_timeout
          reactor,    \* the reactor's program counter and locals
          worker      \* the workers' program counters and locals

envVars == <<input, outbuf, streaming, app, firing, due>>
chanVars == <<msgs, ready>>
loopVars == <<poller, activity, stale, reactor>>
vars == <<config, place, proto, envVars, chanVars, loopVars, worker>>

Registered == {"h1", "ws"}
Places == {"client", "offered", "pending", "held", "tunnel", "handed", "gone"} \cup Registered
Live(c) == place[c] \in {"pending", "held", "tunnel"} \cup Registered

MsgTypes == {"NewConn", "Register", "BodyChunk", "Closed", "Detach"}
Msg(t, c, write, socket) == [type |-> t, id |-> c, write |-> write, socket |-> socket]

\* The descriptor is open while its owner, or a message, holds a handle.
Open(c) == \/ place[c] # "gone"
           \/ \E m \in Range(msgs) : m.id = c /\ m.socket

NoConn == 0
Free == [pc |-> "idle", batch |-> <<>>, write |-> FALSE, conn |-> NoConn]

Init ==
    /\ config \in Configs
    /\ place = [c \in Conns |-> "client"]
    /\ proto = [c \in Conns |-> "h1"]
    /\ input = [c \in Conns |-> FALSE]
    /\ outbuf = [c \in Conns |-> "none"]
    /\ streaming = [c \in Conns |-> FALSE]
    /\ app = [c \in Conns |-> FALSE]
    /\ firing = {}
    /\ due = [c \in Conns |-> "no"]
    /\ msgs = <<>>
    /\ ready = <<>>
    /\ poller = [c \in Conns |-> "off"]
    /\ activity = {}
    /\ stale = {}
    /\ reactor = [pc |-> "drain", ready |-> {}, todo |-> <<>>, expired |-> {}]
    /\ worker = [w \in Workers |-> Free]

-----------------------------------------------------------------------------
(* Peers, clocks, the accept thread and application threads *)

\* accept_loop(): one NewConn per accepted socket.
Accept(c) ==
    /\ place[c] = "client" /\ c <= config.conns
    /\ \A d \in Conns : d < c => place[d] # "client"
    /\ place' = [place EXCEPT ![c] = "offered"]
    /\ msgs' = Append(msgs, Msg("NewConn", c, FALSE, FALSE))
    /\ UNCHANGED <<config, proto, envVars, ready, loopVars, worker>>

PeerSends(c) ==
    /\ Live(c) /\ place[c] # "tunnel"
    /\ ~input[c]
    /\ input' = [input EXCEPT ![c] = TRUE]
    /\ UNCHANGED <<config, place, proto, outbuf, streaming, app, firing, due, chanVars,
                   loopVars, worker>>

PeerReads(c) ==
    /\ outbuf[c] = "full"
    /\ outbuf' = [outbuf EXCEPT ![c] = "room"]
    /\ UNCHANGED <<config, place, proto, input, streaming, app, firing, due, chanVars,
                   loopVars, worker>>

\* header_timeout_remaining() = 0, body_poll_due(), or next_deadline() <= now.
DeadlinePasses(c) ==
    /\ place[c] \in Registered
    /\ due[c] = "no"
    /\ \E kind \in {"ws", "header", "body"} :
         /\ kind = "ws" <=> place[c] = "ws"
         /\ kind = "body" => streaming[c]
         /\ due' = [due EXCEPT ![c] = kind]
    /\ UNCHANGED <<config, place, proto, input, outbuf, streaming, app, firing, chanVars,
                   loopVars, worker>>

GoesStale(c) ==
    /\ config.idle_timeout
    /\ c \in activity \ stale
    /\ stale' = stale \cup {c}
    /\ UNCHANGED <<config, place, proto, envVars, chanVars, poller, activity, reactor, worker>>

\* A body chunk is sent, with a wake (Body::Stream) or without (Body::Channel);
\* or a frame is queued through a WsConn handle, which outlives its connection.
Produce(c) ==
    /\ Len(msgs) < MaxMsgs /\ Len(ready) < MaxReady
    /\ ~app[c]
    /\ c \notin firing
    /\ \/ /\ streaming[c]
          /\ firing' \in {firing, firing \cup {c}}
       \/ /\ proto[c] = "ws"
          /\ firing' = firing \cup {c}
    /\ app' = [app EXCEPT ![c] = TRUE]
    /\ UNCHANGED <<config, place, proto, input, outbuf, streaming, due, chanVars, loopVars, worker>>

\* WakeSlot::fire(): BodyChunk until the upgrade installed the other callback.
Fire(c) ==
    /\ c \in firing
    /\ firing' = firing \ {c}
    /\ msgs' = Append(msgs, IF proto[c] = "ws" THEN Msg("Register", c, TRUE, FALSE)
                                               ELSE Msg("BodyChunk", c, FALSE, FALSE))
    /\ UNCHANGED <<config, place, proto, input, outbuf, streaming, app, due, ready, loopVars,
                   worker>>

-----------------------------------------------------------------------------
(* The reactor: control messages *)

Watch(c, direction) == poller' = [poller EXCEPT ![c] = direction]
Direction(write) == IF write THEN "write" ELSE "read"
Touch(c) == activity' = activity \cup {c} /\ stale' = stale \ {c}
Forget(c) == activity' = activity \ {c} /\ stale' = stale \ {c}
\* What the connection held is dropped with it.
DropConn(c) ==
    /\ input' = [input EXCEPT ![c] = FALSE]
    /\ outbuf' = [outbuf EXCEPT ![c] = "none"]
    /\ streaming' = [streaming EXCEPT ![c] = FALSE]
    /\ app' = [app EXCEPT ![c] = FALSE]
    /\ due' = [due EXCEPT ![c] = "no"]
Move(c, to) == place' = [place EXCEPT ![c] = to]

Full == config.max_connections > 0 /\ Cardinality(activity) >= config.max_connections

OnNewConn(c) ==
    /\ IF Full
       THEN Move(c, "gone") /\ UNCHANGED <<activity, stale, poller>>
       ELSE Move(c, "pending") /\ Touch(c) /\ Watch(c, "read")
    /\ UNCHANGED ready

\* The direction is that of the queue now, not of the message.
OnRegister(c, write) ==
    /\ Watch(c, Direction(IF place[c] = "ws" THEN app[c] ELSE write))
    /\ Touch(c)
    /\ UNCHANGED <<place, ready>>

\* Faulty variant: the wake stops the watch without dispatching.
WakeConnectionDrops(c) ==
    /\ Watch(c, "off")
    /\ UNCHANGED <<place, activity, stale, ready>>

WakeConnection(c) ==
    /\ Watch(c, "off")
    /\ ready' = Append(ready, <<c>>)
    /\ UNCHANGED <<place, activity, stale>>

OnClosed(c) ==
    /\ Watch(c, "off")
    /\ Forget(c)
    /\ UNCHANGED <<place, ready>>

OnDetach(c) ==
    /\ Watch(c, "off")
    /\ UNCHANGED <<place, activity, stale, ready>>

HandleMsg ==
    /\ reactor.pc \in {"drain", "wake"}
    /\ msgs # <<>>
    /\ LET m == Head(msgs)
       IN  \/ m.type = "NewConn" /\ OnNewConn(m.id)
           \/ m.type = "Register" /\ OnRegister(m.id, m.write)
           \/ m.type = "BodyChunk" /\ WakeConnection(m.id)
           \/ m.type = "Closed" /\ OnClosed(m.id)
           \/ m.type = "Detach" /\ OnDetach(m.id)
    /\ msgs' = Tail(msgs)
    /\ UNCHANGED <<config, proto, envVars, reactor, worker>>

-----------------------------------------------------------------------------
(* The reactor: one round of the loop *)

Watched == {c \in Conns : poller[c] # "off"}
Ready(c) == \/ poller[c] = "read" /\ input[c]
            \/ poller[c] = "write" /\ outbuf[c] # "full"

\* The channel was found empty; without watched sockets the reactor blocks on it.
EndDrain ==
    /\ reactor.pc = "drain"
    /\ msgs = <<>>
    /\ Watched # {}
    /\ Len(ready) < MaxReady
    /\ reactor' = [reactor EXCEPT !.pc = "poll"]
    /\ UNCHANGED <<config, place, proto, envVars, chanVars, poller, activity, stale, worker>>

\* A closed descriptor is reported or not: its number may have been reused.
Wait ==
    /\ reactor.pc = "poll"
    /\ \E bad \in SUBSET {c \in Watched : ~Open(c)} :
         reactor' = [reactor EXCEPT !.pc = "wake",
                                    !.ready = bad \cup {c \in Watched : Open(c) /\ Ready(c)}]
    /\ UNCHANGED <<config, place, proto, envVars, chanVars, poller, activity, stale, worker>>

\* Winsock fails the whole wait: rebuild_wait_set() from the tables.
WaitFails ==
    /\ reactor.pc = "poll"
    /\ \E c \in Watched : ~Open(c)
    /\ reactor' = [reactor EXCEPT !.pc = "drain"]
    /\ poller' = [c \in Conns |->
                    CASE place[c] = "pending" -> "read"
                      [] place[c] = "h1" -> Direction(outbuf[c] # "none")
                      [] place[c] = "ws" -> Direction(app[c])
                      [] OTHER -> "off"]
    /\ UNCHANGED <<config, place, proto, envVars, chanVars, activity, stale, worker>>

\* Messages announced by the wake byte are handled first (HandleMsg).
EndWake ==
    /\ reactor.pc = "wake"
    /\ reactor' = [reactor EXCEPT !.pc = "ready"]
    /\ UNCHANGED <<config, place, proto, envVars, chanVars, poller, activity, stale, worker>>

ToDispatch(c) == reactor' = [reactor EXCEPT !.ready = @ \ {c}, !.todo = Append(@, c)]
NotDispatched(c) == reactor' = [reactor EXCEPT !.ready = @ \ {c}]

\* peek() and classify(): park again for more bytes; drop a closed socket;
\* hand TLS and HTTP/2 to the pool; or register and dispatch HTTP/1.1.
Classify(c) ==
    \/ Watch(c, "read") /\ Touch(c) /\ UNCHANGED place /\ NotDispatched(c)
    \/ \E to \in {"gone", "handed"} :
         Watch(c, "off") /\ Forget(c) /\ Move(c, to) /\ NotDispatched(c)
    \/ Watch(c, "off") /\ Touch(c) /\ Move(c, "h1") /\ ToDispatch(c)

ReadyOne(c) ==
    /\ reactor.pc = "ready"
    /\ c \in reactor.ready
    /\ IF place[c] = "pending"
       THEN Classify(c)
       ELSE Watch(c, "off") /\ Touch(c) /\ ToDispatch(c) /\ UNCHANGED place
    /\ UNCHANGED <<config, proto, envVars, chanVars, worker>>

\* The connections whose deadline passed are dispatched without readiness.
Timers ==
    LET header == {c \in Conns : place[c] = "h1" /\ due[c] = "header"}
        timed  == {c \in Conns : place[c] \in Registered /\ due[c] \in {"ws", "body"}}
    IN  /\ reactor.pc = "ready"
        /\ reactor.ready = {}
        /\ poller' = [c \in Conns |-> IF c \in header \cup timed THEN "off" ELSE poller[c]]
        /\ activity' = activity \cup timed
        /\ stale' = stale \ timed
        /\ reactor' = [reactor EXCEPT !.pc = "send",
                         !.expired = IF config.idle_timeout THEN header ELSE {},
                         !.todo = @ \o SetToSeq(header \ Range(@)) \o SetToSeq(timed)]
        /\ UNCHANGED <<config, place, proto, envVars, chanVars, worker>>

\* slice::chunks()
Batches(ids) ==
    [i \in 1..((Len(ids) + DispatchBatch - 1) \div DispatchBatch) |->
        SubSeq(ids, (i - 1) * DispatchBatch + 1,
               IF i * DispatchBatch < Len(ids) THEN i * DispatchBatch ELSE Len(ids))]

Dispatch ==
    /\ reactor.pc = "send"
    /\ ready' = ready \o Batches(reactor.todo)
    /\ reactor' = [reactor EXCEPT !.pc = IF config.idle_timeout THEN "scan" ELSE "drain", !.todo = <<>>]
    /\ UNCHANGED <<config, place, proto, envVars, msgs, poller, activity, stale, worker>>

\* The idle entries of parked connections, except those the header deadline
\* has just dispatched.
Scan ==
    /\ reactor.pc = "scan"
    /\ reactor' = [reactor EXCEPT !.pc = "reap",
                     !.expired = {c \in stale \ @ : place[c] \in Registered \cup {"pending"}}]
    /\ UNCHANGED <<config, place, proto, envVars, chanVars, poller, activity, stale, worker>>

\* The tables are locked again for each removal: a worker may have been faster.
Reap(c) ==
    /\ reactor.pc = "reap"
    /\ c \in reactor.expired
    /\ Watch(c, "off")
    /\ Forget(c)
    /\ IF place[c] \in Registered \cup {"pending"}
       THEN Move(c, "gone") /\ DropConn(c)
       ELSE UNCHANGED <<place, input, outbuf, streaming, app, due>>
    /\ reactor' = [reactor EXCEPT !.expired = @ \ {c}]
    /\ UNCHANGED <<config, proto, firing, chanVars, worker>>

EndRound ==
    /\ reactor.pc = "reap"
    /\ reactor.expired = {}
    /\ reactor' = [reactor EXCEPT !.pc = "drain"]
    /\ UNCHANGED <<config, place, proto, envVars, chanVars, poller, activity, stale, worker>>

-----------------------------------------------------------------------------
(* The event workers *)

Send(m) == msgs' = Append(msgs, m)
Goto(w, pc) == worker' = [worker EXCEPT ![w].pc = pc]
Release(w) == worker' = [worker EXCEPT ![w] = [Free EXCEPT !.batch = worker[w].batch]]

Recv(w) ==
    /\ worker[w] = Free
    /\ Cardinality({v \in Workers : worker[v] # Free}) < config.workers
    /\ ready # <<>>
    /\ worker' = [worker EXCEPT ![w].batch = Head(ready)]
    /\ ready' = Tail(ready)
    /\ UNCHANGED <<config, place, proto, envVars, msgs, loopVars>>

\* An id no registry knows is skipped.
Pick(w) ==
    /\ worker[w].pc = "idle"
    /\ worker[w].batch # <<>>
    /\ LET c == Head(worker[w].batch)
       IN  IF place[c] \in Registered
           THEN /\ worker' = [worker EXCEPT ![w] = [worker[w] EXCEPT !.pc = "step", !.conn = c,
                                                                     !.batch = Tail(@)]]
                /\ Move(c, "held")
           ELSE /\ worker' = [worker EXCEPT ![w].batch = Tail(@)]
                /\ UNCHANGED place
    /\ UNCHANGED <<config, proto, envVars, chanVars, loopVars>>

\* EventConn::step() answering Idle (full = FALSE) or NeedWrite.  A request
\* may start a streaming body, and a pumped body may end; a step that could
\* write everything has also read everything and emptied the body channel.
StepH1(w) ==
    LET c == worker[w].conn
    IN  /\ worker[w].pc = "step"
        /\ proto[c] = "h1"
        /\ \E full \in BOOLEAN, unread \in {FALSE, input[c]}, more \in {FALSE, app[c]},
              s \in {FALSE, streaming[c], "stream" \in config.answers /\ input[c]} :
          /\ due[c] = "header" => full
          /\ unread \/ more => full
          /\ more => s
          /\ outbuf' = [outbuf EXCEPT ![c] = IF full THEN "full" ELSE "none"]
          /\ input' = [input EXCEPT ![c] = unread]
          /\ streaming' = [streaming EXCEPT ![c] = s]
          /\ app' = [app EXCEPT ![c] = more]
          /\ due' = [due EXCEPT ![c] = "no"]
          /\ worker' = [worker EXCEPT ![w] = [@ EXCEPT !.pc = "park", !.write = full]]
          /\ UNCHANGED <<config, place, proto, firing, chanVars, loopVars>>

\* WsEventConn::step(): the queue cannot be flushed.
StepWsBlocked(w) ==
    LET c == worker[w].conn
    IN  /\ worker[w].pc = "step"
        /\ proto[c] = "ws"
        /\ app[c]
        /\ outbuf' = [outbuf EXCEPT ![c] = "full"]
        /\ due' = [due EXCEPT ![c] = "no"]
        /\ worker' = [worker EXCEPT ![w] = [@ EXCEPT !.pc = "park", !.write = TRUE]]
        /\ UNCHANGED <<config, place, proto, input, streaming, app, firing, chanVars, loopVars>>

\* WsEventConn::step(): flushed, and read empty.  A callback, a Pong or a Ping
\* may queue a frame, and the sink's wake then runs on the worker itself.
StepWs(w) ==
    LET c == worker[w].conn
    IN  \E reply \in BOOLEAN :
          /\ worker[w].pc = "step"
          /\ proto[c] = "ws"
          /\ reply => Len(msgs) < MaxMsgs
          /\ outbuf' = [outbuf EXCEPT ![c] = "none"]
          /\ input' = [input EXCEPT ![c] = FALSE]
          /\ app' = [app EXCEPT ![c] = reply]
          /\ due' = [due EXCEPT ![c] = "no"]
          /\ worker' = [worker EXCEPT ![w] = [@ EXCEPT !.pc = "park", !.write = reply]]
          /\ IF reply THEN Send(Msg("Register", c, TRUE, FALSE)) ELSE UNCHANGED msgs
          /\ UNCHANGED <<config, place, proto, streaming, firing, ready, loopVars>>

\* Idle and NeedWrite: back into the registry, and only then the message.
Park(w) ==
    LET c == worker[w].conn
    IN  /\ worker[w].pc = "park"
        /\ Move(c, proto[c])
        /\ Goto(w, "register")
        /\ UNCHANGED <<config, proto, envVars, chanVars, loopVars>>

\* Faulty variant: the reactor is not told.
SendRegisterNot(w) ==
    /\ worker[w].pc = "register"
    /\ Release(w)
    /\ UNCHANGED <<config, place, proto, envVars, chanVars, loopVars>>

SendRegister(w) ==
    /\ worker[w].pc = "register"
    /\ Send(Msg("Register", worker[w].conn, worker[w].write, FALSE))
    /\ Release(w)
    /\ UNCHANGED <<config, place, proto, envVars, ready, loopVars>>

\* Close: the message keeps the socket until the reactor stopped watching.
StepClose(w) ==
    LET c == worker[w].conn
    IN  /\ worker[w].pc = "step"
        /\ Move(c, "gone")
        /\ DropConn(c)
        /\ Send(Msg("Closed", c, FALSE, TRUE))
        /\ Release(w)
        /\ UNCHANGED <<config, proto, firing, ready, loopVars>>

\* Upgrade: the WebSocket is stepped at once; what on_open() queued fired the
\* slot that was armed for streaming bodies.
StepUpgrade(w) ==
    LET c == worker[w].conn
    IN  \E greeting \in BOOLEAN :
          /\ "upgrade" \in config.answers
          /\ worker[w].pc = "step"
          /\ proto[c] = "h1"
          /\ input[c] /\ ~streaming[c]
          /\ proto' = [proto EXCEPT ![c] = "ws"]
          /\ app' = [app EXCEPT ![c] = greeting]
          /\ IF greeting THEN Send(Msg("BodyChunk", c, FALSE, FALSE)) ELSE UNCHANGED msgs
          /\ UNCHANGED <<config, place, input, outbuf, streaming, firing, due, ready, loopVars,
                         worker>>

\* Tunnel: the connection leaves for a thread of its own.
StepTunnel(w) ==
    LET c == worker[w].conn
    IN  /\ "tunnel" \in config.answers
        /\ worker[w].pc = "step"
        /\ proto[c] = "h1"
        /\ input[c] /\ ~streaming[c]
        /\ Move(c, "tunnel")
        /\ DropConn(c)
        /\ Send(Msg("Detach", c, FALSE, TRUE))
        /\ Release(w)
        /\ UNCHANGED <<config, proto, firing, ready, loopVars>>

\* run_tunnel() returned, or its thread could not be spawned.
TunnelEnds(c) ==
    /\ place[c] = "tunnel"
    /\ Move(c, "gone")
    /\ Send(Msg("Closed", c, FALSE, FALSE))
    /\ UNCHANGED <<config, proto, envVars, ready, loopVars, worker>>

-----------------------------------------------------------------------------
WorkerStep(w) ==
    \/ Recv(w) \/ Pick(w) \/ Park(w) \/ SendRegister(w)
    \/ StepH1(w) \/ StepWsBlocked(w) \/ StepWs(w)
    \/ StepClose(w) \/ StepUpgrade(w) \/ StepTunnel(w)

ReactorStep ==
    \/ HandleMsg \/ EndDrain \/ Wait \/ WaitFails \/ EndWake \/ Timers
    \/ Dispatch \/ Scan \/ EndRound
    \/ \E c \in Conns : ReadyOne(c) \/ Reap(c)

Next ==
    \/ ReactorStep
    \/ \E w \in Workers : WorkerStep(w)
    \/ \E c \in Conns :
         \/ Accept(c) \/ PeerSends(c) \/ PeerReads(c) \/ DeadlinePasses(c) \/ GoesStale(c)
         \/ Produce(c) \/ Fire(c) \/ TunnelEnds(c)

Spec == Init /\ [][Next]_vars

\* The threads keep running, a step of a connection ends, peers read what they
\* are sent and the poll deadline of a streaming body passes.  Nothing makes a
\* peer or a producer send, and the optional deadlines may never pass.
Fairness ==
    /\ WF_vars(ReactorStep)
    /\ \A w \in Workers : WF_vars(WorkerStep(w))
    /\ \A c \in Conns : /\ WF_vars(PeerReads(c))
                        /\ WF_vars(streaming[c] /\ DeadlinePasses(c))
                        /\ WF_vars(Fire(c))

FairSpec == Spec /\ Fairness

-----------------------------------------------------------------------------
(* Properties *)

TypeOK ==
    /\ place \in [Conns -> Places]
    /\ proto \in [Conns -> Registered]
    /\ input \in [Conns -> BOOLEAN]
    /\ outbuf \in [Conns -> {"none", "full", "room"}]
    /\ streaming \in [Conns -> BOOLEAN]
    /\ app \in [Conns -> BOOLEAN]
    /\ firing \subseteq Conns
    /\ due \in [Conns -> {"no", "header", "body", "ws"}]
    /\ \A m \in Range(msgs) : m \in [type : MsgTypes, id : Conns, write : BOOLEAN, socket : BOOLEAN]
    /\ \A b \in Range(ready) : b # <<>> /\ Len(b) <= DispatchBatch /\ Range(b) \subseteq Conns
    /\ poller \in [Conns -> {"off", "read", "write"}]
    /\ stale \subseteq activity /\ activity \subseteq Conns
    /\ reactor.pc \in {"drain", "poll", "wake", "ready", "send", "scan", "reap"}
    /\ reactor.ready \subseteq Conns /\ Range(reactor.todo) \subseteq Conns
    /\ reactor.expired \subseteq Conns
    /\ \A w \in Workers :
         /\ worker[w].pc \in {"idle", "step", "park", "register"}
         /\ Range(worker[w].batch) \subseteq Conns
         /\ worker[w].conn \in IF worker[w].pc = "idle" THEN {NoConn} ELSE Conns
         /\ worker[w].write \in BOOLEAN

\* The id is on its way to a worker.
Dispatched(c) ==
    \/ c \in Range(reactor.todo)
    \/ \E b \in Range(ready) : c \in Range(b)
    \/ \E w \in Workers : c \in Range(worker[w].batch)

\* A Register for the connection is queued, or a worker is about to send it.
Registering(c) ==
    \/ \E m \in Range(msgs) : m.type = "Register" /\ m.id = c
    \/ \E w \in Workers : worker[w].pc = "register" /\ worker[w].conn = c

\* No connection is lost: whatever the order in which readiness, deadlines,
\* wakes and re-registrations meet, a parked connection is watched, about to
\* be registered, or about to be stepped (event_loop, wake_connection and
\* event_worker, which unregister before they dispatch).
ParkedIsCovered ==
    \A c \in Conns :
      /\ place[c] = "pending" => poller[c] # "off"
      /\ place[c] \in Registered => poller[c] # "off" \/ Registering(c) \/ Dispatched(c)

\* No frame is lost: a parked WebSocket with queued frames is watched for
\* writability, or something that will make it so is under way
\* (handle_msg's Register asks has_queued_output(), QueueSink wakes after
\* it queued).
QueuedIsWatched ==
    \A c \in Conns : place[c] = "ws" /\ app[c] =>
      poller[c] = "write" \/ Registering(c) \/ Dispatched(c) \/ c \in firing

\* The cap holds: every connection the event path keeps, in whatever hands,
\* has its entry in `activity', and there are at most max_connections of them.
\* Without the reaper, which may drop the entry of a connection in use.
SlotsBounded ==
    ~config.idle_timeout =>
      /\ {c \in Conns : Live(c)} \subseteq activity
      /\ config.max_connections > 0 => Cardinality({c \in Conns : Live(c)}) <= config.max_connections

\* What the reactor and its workers keep between them, whatever the order of
\* their steps: the tables are well formed, no parked connection and no queued
\* frame is forgotten, and the cap on connections holds.
LoopKept == TypeOK /\ ParkedIsCovered /\ QueuedIsWatched /\ SlotsBounded

\* A parked connection with unread input, a body chunk or queued frames is
\* eventually stepped by a worker, or it ends.
Wants(c) == place[c] \in Registered /\ (input[c] \/ app[c])
ReadyIsServed == \A c \in Conns : Wants(c) ~> (place[c] = "held" \/ ~Live(c))
=============================================================================
