------------------------------- MODULE Proxy --------------------------------
(***************************************************************************)
(* courierust_server/reverse_proxy.rs: requests of one route spread over   *)
(* its upstreams, with in-flight limits, passive health and probes, and    *)
(* the bridge of a forwarded WebSocket.  Every request runs on a thread of *)
(* its own and takes the lock of the rotation twice.                       *)
(***************************************************************************)
EXTENDS Naturals, Sequences, FiniteSets

CONSTANTS PxN,          \* upstreams of the route
          PxRequests,   \* requests under way at once
          PxLimit,      \* max_in_flight of every upstream, 0 for no limit
          PxFailures,   \* HealthPolicy::failures, 0 for no ejection
          PxCooldown,   \* HealthPolicy::cooldown, in ticks
          PxCursor,     \* the cursor wraps here: a multiple of 1..PxN
          PxRounds      \* bound: reservations of a run

ASSUME PxAssumption == PxN \in Nat \ {0} /\ {PxLimit, PxFailures, PxCooldown} \subseteq Nat /\ IsFiniteSet(PxRequests)

Upstreams == 0..PxN - 1

VARIABLES balance,  \* Balance of the route
          rot,      \* Rotation: cursor and backends; ejected is what is left of the cooldown
          call,     \* per request: where it is, and the upstream it holds
          turns,    \* history: the choices made while all were usable and equally loaded
          bridge    \* WsBridge of one forwarded upgrade

pxvars == <<balance, rot, call, turns, bridge>>

PxInit ==
    /\ balance \in {"RoundRobin", "LeastConnections"}
    /\ rot = [cursor |-> 0, count |-> 0, in_flight |-> [u \in Upstreams |-> 0],
              failures |-> [u \in Upstreams |-> 0], ejected |-> [u \in Upstreams |-> 0]]
    /\ call = [r \in PxRequests |-> [pc |-> "idle", on |-> 0]]
    /\ turns = <<>>
    /\ bridge = [pc |-> "none", up |-> "none", client |-> "none", stop |-> FALSE,
                 sent |-> 0]

-----------------------------------------------------------------------------
(* reserve(): choose an upstream *)

HasRoom(u) == PxLimit = 0 \/ rot.in_flight[u] < PxLimit
IsEjected(u) == rot.ejected[u] > 0
Usable == {u \in Upstreams : ~IsEjected(u) /\ HasRoom(u)}

\* The usable upstreams in their order, at the cursor.
InTurn == {u \in Usable : Cardinality({v \in Usable : v < u}) = rot.cursor % Cardinality(Usable)}

\* The fewest in flight, and among those the nearest to the cursor.
LeastLoaded ==
    LET len == Cardinality(Usable)
        near(u) == (u + len - (rot.cursor % len)) % len
    IN  {u \in Usable : \A v \in Usable \ {u} :
            \/ rot.in_flight[u] < rot.in_flight[v]
            \/ rot.in_flight[u] = rot.in_flight[v] /\ near(u) < near(v)
            \/ rot.in_flight[u] = rot.in_flight[v] /\ near(u) = near(v) /\ u < v}

\* With everything ejected the one that is due first is probed, if it has room.
Probe ==
    {u \in Upstreams : HasRoom(u) /\ \A v \in Upstreams : HasRoom(v) =>
        rot.ejected[u] < rot.ejected[v] \/ (rot.ejected[u] = rot.ejected[v] /\ u <= v)}

Chosen ==
    CASE Usable # {} -> IF balance = "RoundRobin" THEN InTurn ELSE LeastLoaded
      [] Usable = {} /\ (\E u \in Upstreams : ~IsEjected(u)) -> {}
      [] OTHER -> Probe

Level == Usable = Upstreams /\ \A u, v \in Upstreams : rot.in_flight[u] = rot.in_flight[v]

\* forward() and websocket() reserve the same way; AllBusy answers 503.
Reserve(r) ==
    /\ call[r].pc = "idle" /\ rot.count < PxRounds
    /\ \/ /\ Chosen = {}
          /\ UNCHANGED <<rot, call, turns>>
       \/ \E u \in Chosen :
            /\ rot' = [rot EXCEPT !.cursor = (@ + 1) % PxCursor, !.count = @ + 1,
                                  !.in_flight[u] = @ + 1]
            /\ call' = [call EXCEPT ![r] = [pc |-> "held", on |-> u]]
            /\ turns' = IF Level \/ (balance = "RoundRobin" /\ Usable = Upstreams)
                        THEN Append(turns, u) ELSE <<>>
    /\ UNCHANGED <<balance, bridge>>

\* A body above the limit: the slot is dropped without a score.
Discharge(r) ==
    /\ call[r].pc = "held"
    /\ rot' = [rot EXCEPT !.in_flight[call[r].on] = @ - 1]
    /\ call' = [call EXCEPT ![r].pc = "idle"]
    /\ UNCHANGED <<balance, turns, bridge>>

\* finish(reached) and release(): a success clears, failures count up and eject.
Finish(r) ==
    /\ call[r].pc = "held"
    /\ LET u == call[r].on
           back == [rot EXCEPT !.in_flight[u] = @ - 1]
       IN  \/ rot' = [back EXCEPT !.failures[u] = 0, !.ejected[u] = 0]
           \/ rot' = CASE PxFailures = 0 -> back
                       [] rot.failures[u] + 1 >= PxFailures ->
                            [back EXCEPT !.failures[u] = 0, !.ejected[u] = PxCooldown]
                       [] OTHER -> [back EXCEPT !.failures[u] = @ + 1]
    /\ call' = [call EXCEPT ![r].pc = "idle"]
    /\ UNCHANGED <<balance, turns, bridge>>

Tick ==
    /\ \E u \in Upstreams : IsEjected(u)
    /\ rot' = [rot EXCEPT !.ejected = [u \in Upstreams |-> IF @[u] > 0 THEN @[u] - 1 ELSE 0]]
    /\ UNCHANGED <<balance, call, turns, bridge>>

-----------------------------------------------------------------------------
(* WsBridge: websocket() has connected the upstream, the server drives the client *)

Relay(b) == bridge' = b /\ UNCHANGED <<balance, rot, call, turns>>

\* AcceptWith; if the server then refuses the plan the bridge is dropped.
BridgeOpen ==
    /\ bridge.pc = "none"
    /\ \/ Relay([bridge EXCEPT !.pc = "pump", !.up = "open", !.client = "open"])
       \/ Relay([bridge EXCEPT !.pc = "done", !.up = "closed", !.client = "refused"])


\* pump(): the stop flag is looked at before every poll, which has a time limit.
PumpStop ==
    /\ bridge.pc = "pump" /\ bridge.stop
    /\ Relay([bridge EXCEPT !.pc = "done", !.up = "closed"])

\* A message for the client's queue, which takes it even when its leg is gone.  A queue
\* that is full, or behind a close frame, refuses it, and the upstream is dropped.
PumpMessage ==
    /\ bridge.pc = "pump" /\ ~bridge.stop /\ bridge.up = "open" /\ bridge.sent < 2
    /\ \/ Relay([bridge EXCEPT !.sent = @ + 1])
       \/ bridge.client # "open" /\ Relay([bridge EXCEPT !.sent = @ + 1, !.pc = "done", !.up = "closed"])

\* A close or a failure of the upstream: the client is sent a close frame.
PumpClose ==
    /\ bridge.pc = "pump" /\ ~bridge.stop /\ bridge.up \in {"closing", "failed"}
    /\ Relay([bridge EXCEPT !.pc = "done", !.up = "closed",
                            !.client = IF @ = "open" THEN "closing" ELSE @])

\* on_message(): a write to a dead upstream closes the client leg.
ClientMessage ==
    /\ bridge.client = "open" /\ bridge.up \in {"failed", "closed"}
    /\ Relay([bridge EXCEPT !.client = "closing"])

\* The client leg ends, by itself or after a close: on_close() sets the flag.  The idle
\* reaper, a panic in a step, an overflown queue and a write that fails while closing end
\* it without the callback, and WsBridge has no Drop.
ClientLegEnds ==
    /\ bridge.client \in {"open", "closing"}
    /\ \/ Relay([bridge EXCEPT !.client = "closed", !.stop = TRUE])
       \/ Relay([bridge EXCEPT !.client = "lost"])

UpstreamEnds ==
    /\ bridge.up = "open"
    /\ \E how \in {"closing", "failed"} : Relay([bridge EXCEPT !.up = how])

Bridging == BridgeOpen \/ PumpStop \/ PumpMessage \/ PumpClose \/ ClientMessage \/ ClientLegEnds \/ UpstreamEnds

PxNext ==
    \/ Tick \/ Bridging
    \/ \E r \in PxRequests : Reserve(r) \/ Discharge(r) \/ Finish(r)

PxSpec == PxInit /\ [][PxNext]_pxvars

-----------------------------------------------------------------------------
(* Properties *)

\* "A count that is never given back is an outage": the in-flight count is exactly the
\* requests that hold the upstream, on every exit path, and within max_in_flight.
InFlightExact ==
    \A u \in Upstreams :
      /\ rot.in_flight[u] = Cardinality({r \in PxRequests : call[r].pc = "held" /\ call[r].on = u})
      /\ PxLimit > 0 => rot.in_flight[u] <= PxLimit

\* Both policies rotate: while every upstream is usable (and, for the least-loaded
\* policy, equally loaded) no upstream is chosen again before all the others.
RotationFair ==
    \A i, j \in DOMAIN turns : i < j /\ j - i < PxN => turns[i] # turns[j]

\* pump() and on_close(): when one leg of a bridge ends, so does the other.  The exception
\* is a client leg that ended without on_close(): nobody tells the pump, which then stays
\* for as long as the upstream neither ends nor fills the dead queue.
BridgeEnds ==
    <>[](/\ bridge.client = "closed" => bridge.up = "closed"
         /\ bridge.client = "lost" => bridge.up \in {"open", "closed"}
         /\ bridge.up # "open" /\ bridge.pc # "none" => bridge.up = "closed" /\ bridge.client # "open")

=============================================================================
