---------------------------- MODULE QuicConnect ----------------------------
(***************************************************************************)
(* How a QUIC connection comes to be and goes: Initial, Retry with its     *)
(* address token, the server's flight, Finished, data, CONNECTION_CLOSE    *)
(* and stateless resets, over a network that repeats, reorders and loses.  *)
(* One client, which may change its address; a server that may be          *)
(* restarted.  Connection ids are numbers: 0 is the client's first choice, *)
(* the server draws fresh ones.                                            *)
(***************************************************************************)
EXTENDS Integers, FiniteSets

CONSTANTS QcAddrs,       \* the addresses of the client
          QcIds,         \* bound: ids the server draws
          QcMax,         \* max_connections (0: none)
          QcTtl,         \* RETRY_TOKEN_TTL
          QcClock,       \* bound: seconds that pass
          QcBoots,       \* bound: restarts of the server
          QcMoves,       \* bound: moves of the client
          QcFlight       \* bound: datagrams under way

ASSUME QcAssumption ==
  {QcIds, QcMax, QcTtl, QcClock, QcBoots, QcMoves, QcFlight} \subseteq Nat /\ QcAddrs # {}

VARIABLES qcc,     \* the client: its state, ids, token, address
          qcs,     \* the server: connections, routes, secrets (boot), next id
          qcnet,   \* datagrams under way
          qcnow    \* [time, moves]

qcvars == <<qcc, qcs, qcnet, qcnow>>

NoToken == [none |-> TRUE]

QcInit ==
  /\ \E a \in QcAddrs :
       qcc = [st |-> "initial", dcid |-> 0, remote |-> 0, token |-> NoToken, retried |-> FALSE, addr |-> a,
              reset |-> [cid |-> -1, boot |-> -1]]
  /\ qcs = [conns |-> {}, routes |-> {}, boot |-> 0, next |-> 1]
  /\ qcnet = {} /\ qcnow = [time |-> 0, moves |-> 0]

\* Datagrams are a set: one that is received may stay, to be received again.
Transmit(ms) == Cardinality(qcnet \cup ms) <= QcFlight /\ qcnet' = qcnet \cup ms
QcConsume(m, ms) == qcnet' \in {qcnet \cup ms, (qcnet \ {m}) \cup ms} /\ Cardinality(qcnet') <= QcFlight

(***************************************************************************)
(* The client.                                                             *)
(***************************************************************************)
\* on_tick(): the ClientHello, under the token it was given.
SendInitial ==
  /\ qcc.st = "initial"
  /\ Transmit({[kind |-> "Initial", dcid |-> qcc.dcid, token |-> qcc.token, addr |-> qcc.addr]})
  /\ UNCHANGED <<qcc, qcs, qcnow>>

SendData ==
  /\ qcc.st = "done"
  /\ Transmit({[kind |-> "Data", dcid |-> qcc.remote, addr |-> qcc.addr]})
  /\ UNCHANGED <<qcc, qcs, qcnow>>

SendFinished ==
  /\ qcc.st = "done"
  /\ Transmit({[kind |-> "Finished", dcid |-> qcc.remote, addr |-> qcc.addr]})
  /\ UNCHANGED <<qcc, qcs, qcnow>>

\* apply_retry(): the tag proves that the Retry answers our Initial; the first one only.
OnRetry(m) ==
  /\ m.kind = "Retry" /\ QcConsume(m, {})
  /\ qcc' = IF qcc.st = "initial" /\ m.odcid = 0 /\ ~qcc.retried
            THEN [qcc EXCEPT !.dcid = m.rdcid, !.remote = m.rdcid, !.token = m.token, !.retried = TRUE]
            ELSE qcc
  /\ UNCHANGED <<qcs, qcnow>>

\* The server's flight opens with the keys of our destination id; its transport
\* parameters must name the ids we used.
OnFlight(m) ==
  /\ m.kind = "Flight" /\ QcConsume(m, {})
  /\ qcc' = IF qcc.st # "initial" \/ m.init # qcc.dcid THEN qcc
            ELSE IF m.odcid = 0 /\ m.retry = qcc.retried
            THEN [qcc EXCEPT !.st = "done", !.remote = m.cid, !.reset = [cid |-> m.cid, boot |-> m.boot]]
            ELSE [qcc EXCEPT !.st = "failed"]
  /\ UNCHANGED <<qcs, qcnow>>

\* is_stateless_reset(): the token of the transport parameters.
OnReset(m) ==
  /\ m.kind = "Reset" /\ QcConsume(m, {})
  /\ qcc' = IF qcc.st = "done" /\ m.reset = qcc.reset THEN [qcc EXCEPT !.st = "reset"] ELSE qcc
  /\ UNCHANGED <<qcs, qcnow>>

OnClose(m) ==
  /\ m.kind = "Close" /\ QcConsume(m, {})
  /\ qcc' = IF (qcc.st = "done" /\ m.cid = qcc.remote) \/ (qcc.st = "initial" /\ m.init = qcc.dcid)
            THEN [qcc EXCEPT !.st = "failed"] ELSE qcc
  /\ UNCHANGED <<qcs, qcnow>>

\* The deadlines of the driver, or CONNECTION_CLOSE by the application.
ClientEnds ==
  /\ qcc.st \in {"initial", "done"}
  /\ qcc' = [qcc EXCEPT !.st = "failed"]
  /\ UNCHANGED <<qcs, qcnet, qcnow>>

(***************************************************************************)
(* The server: handle_server_datagram().                                   *)
(***************************************************************************)
Conn(c) == CHOOSE x \in qcs.conns : x.cid = c
Targets(id) == {r[2] : r \in {r \in qcs.routes : r[1] = id}}

Flight(x) == [kind |-> "Flight", cid |-> x.cid, init |-> x.init, odcid |-> x.odcid, retry |-> TRUE, boot |-> qcs.boot]
QcClose(x) == [kind |-> "Close", cid |-> x.cid, init |-> x.init]

Without1(x) ==
  [qcs EXCEPT !.conns = @ \ {x}, !.routes = {r \in @ : r[2] # x.cid}]

\* on_datagram() of the connection: Finished completes the handshake; a STREAM frame
\* before it is an error, which ends the connection.
Routed(m) ==
  /\ Targets(m.dcid) # {}
  /\ \E x \in {Conn(c) : c \in Targets(m.dcid)} :
       \/ /\ m.kind = "Initial" /\ QcConsume(m, {Flight(x)}) /\ UNCHANGED qcs
       \/ /\ m.kind = "Finished" /\ QcConsume(m, {})
          /\ qcs' = [qcs EXCEPT !.conns = (@ \ {x}) \cup {[x EXCEPT !.st = "up"]}]
       \/ /\ m.kind = "Data" /\ x.st = "up" /\ QcConsume(m, {}) /\ UNCHANGED qcs
       \/ /\ m.kind = "Data" /\ x.st = "half" /\ QcConsume(m, {QcClose(x)})
          /\ qcs' = Without1(x)

\* A short header of no connection is answered by a stateless reset.
Unrouted(m) ==
  /\ Targets(m.dcid) = {}
  /\ \/ /\ m.kind = "Data"
        /\ QcConsume(m, {[kind |-> "Reset", reset |-> [cid |-> m.dcid, boot |-> qcs.boot]]})
     \/ /\ m.kind = "Finished" /\ QcConsume(m, {})
  /\ UNCHANGED qcs

Fulls == QcMax # 0 /\ Cardinality(qcs.conns) >= QcMax

\* Faulty variant: the address in the token is not compared.
ValidateAnywhere(m) ==
  /\ m.token # NoToken
  /\ m.token.boot = qcs.boot /\ qcnow.time - m.token.time <= QcTtl

\* RetryProtector::validate()
QcValidate(m) ==
  /\ m.token # NoToken
  /\ m.token.boot = qcs.boot /\ m.token.addr = m.addr /\ qcnow.time - m.token.time <= QcTtl

QcRetry(m) ==
  /\ m.kind = "Initial" /\ Targets(m.dcid) = {} /\ ~Fulls
  /\ ~(QcValidate(m) /\ m.token.rdcid = m.dcid) /\ qcs.next <= QcIds
  /\ LET token == [none |-> FALSE, addr |-> m.addr, odcid |-> m.dcid, rdcid |-> qcs.next, time |-> qcnow.time, boot |-> qcs.boot]
     IN QcConsume(m, {[kind |-> "Retry", odcid |-> m.dcid, rdcid |-> qcs.next, token |-> token]})
  /\ qcs' = [qcs EXCEPT !.next = @ + 1]

RoutesOf(x) == {<<x.cid, x.cid>>, <<x.init, x.cid>>}

Accept1(m) ==
  /\ m.kind = "Initial" /\ Targets(m.dcid) = {} /\ ~Fulls
  /\ QcValidate(m) /\ m.token.rdcid = m.dcid /\ qcs.next <= QcIds
  /\ LET x == [cid |-> qcs.next, init |-> m.dcid, odcid |-> m.token.odcid, addr |-> m.addr, st |-> "half",
               proof |-> m.token.addr]
     IN /\ QcConsume(m, {Flight(x)})
        /\ qcs' = [qcs EXCEPT !.conns = @ \cup {x}, !.routes = @ \cup RoutesOf(x), !.next = @ + 1]

Drop(m) ==
  /\ m.kind = "Initial" /\ Targets(m.dcid) = {} /\ Fulls
  /\ QcConsume(m, {}) /\ UNCHANGED qcs

\* run_server(): the handshake deadline and the idle timeout.
ServerTimeout(x) ==
  /\ Transmit({QcClose(x)}) \/ UNCHANGED qcnet
  /\ qcs' = Without1(x) /\ UNCHANGED <<qcc, qcnow>>

ServerReceives ==
  /\ \E m \in qcnet :
       /\ m.kind \in {"Initial", "Finished", "Data"}
       /\ Routed(m) \/ Unrouted(m) \/ QcRetry(m) \/ Accept1(m) \/ Drop(m)
  /\ UNCHANGED <<qcc, qcnow>>

ServerTimeouts == \E x \in qcs.conns : ServerTimeout(x)

(* ---- the environment ---- *)
Restart ==
  /\ qcs.boot < QcBoots
  /\ qcs' = [qcs EXCEPT !.conns = {}, !.routes = {}, !.boot = @ + 1]
  /\ UNCHANGED <<qcc, qcnet, qcnow>>

Move ==
  /\ qcnow.moves < QcMoves
  /\ \E a \in QcAddrs \ {qcc.addr} : qcc' = [qcc EXCEPT !.addr = a]
  /\ qcnow' = [qcnow EXCEPT !.moves = @ + 1]
  /\ UNCHANGED <<qcs, qcnet>>

TimePasses ==
  /\ qcnow.time < QcClock /\ qcnow' = [qcnow EXCEPT !.time = @ + 1]
  /\ UNCHANGED <<qcc, qcs, qcnet>>

LoseDatagram == \E m \in qcnet : qcnet' = qcnet \ {m} /\ UNCHANGED <<qcc, qcs, qcnow>>

ClientReceives == \E m \in qcnet : OnRetry(m) \/ OnFlight(m) \/ OnReset(m) \/ OnClose(m)

QcNext ==
  \/ SendInitial \/ SendData \/ SendFinished \/ ClientReceives \/ ClientEnds
  \/ ServerReceives \/ ServerTimeouts \/ Restart \/ Move \/ TimePasses \/ LoseDatagram

QcSpec == QcInit /\ [][QcNext]_qcvars

(***************************************************************************)
(* Properties.                                                             *)
(***************************************************************************)
\* The routing table and the connections agree: both ids of every connection lead to
\* it, and no route leads nowhere, however often an Initial is repeated.
RoutesExact ==
  /\ qcs.routes = UNION {RoutesOf(x) : x \in qcs.conns}
  /\ \A x, y \in qcs.conns : x # y => x.cid # y.cid /\ x.init # y.init

\* The server keeps state only for an address that returned the token sent to it.
AddressProven == \A x \in qcs.conns : x.addr = x.proof

\* A client gives a connection up on a stateless reset only when the server no longer has it.
ResetDeserved == qcc.st = "reset" => ~\E x \in qcs.conns : x.cid = qcc.remote

\* The server's tables under repeated, late and moved Initials, timeouts and restarts:
\* they agree, hold proven addresses only, and are not disowned by a stateless reset.
EndpointKept == RoutesExact /\ AddressProven /\ ResetDeserved
=============================================================================
