------------------------------ MODULE QuicTls ------------------------------
(***************************************************************************)
(* The TLS 1.3 handshake inside QUIC (courierust_tls/quic.rs), with the    *)
(* connection ids and transport parameters it authenticates.  Initial      *)
(* packets travel unprotected, so the network may change a hello or make   *)
(* up a Retry; Handshake packets open only under the same handshake keys.  *)
(* A transcript is the sequence of messages, a key is what it is derived   *)
(* from: label, shared secret and transcript.                              *)
(***************************************************************************)
EXTENDS Integers, Sequences, SequencesExt, FiniteSets

CONSTANTS QtData,     \* values of the numeric transport parameters
          QtUdp,      \* values of max_udp_payload_size
          QtCerts,    \* server certificates: "good", "name", "untrusted", "usage"
          QtFaults    \* bound: changes the network makes

ASSUME QtAssumption == QtData \subseteq Nat /\ QtUdp \subseteq Nat /\ QtFaults \in Nat

VARIABLES qtconf,   \* what the two ends were given
          qtc,      \* QuicClient and what its connection remembers
          qts,      \* QuicServer and what its connection remembers
          qtnet,    \* Initial packets in flight: hellos and a Retry
          qthand,   \* the server's Handshake bytes not yet delivered
          qtfin,    \* the client's Finished: a sequence of at most one
          qtfaults

qtvars == <<qtconf, qtc, qts, qtnet, qthand, qtfin, qtfaults>>

QtNoId == "no id"
QtNoMsg == [type |-> "none"]
QtNoToken == [o |-> QtNoId, r |-> QtNoId]   \* no token, or one this server did not mint

-----------------------------------------------------------------------------
(* TransportParameters                                                     *)

QtDefaults == [odcid |-> QtNoId, data |-> 16, udp |-> 1350, cidlimit |-> 2, migration |-> 0, iscid |-> QtNoId, rscid |-> QtNoId]

\* encode(): optional ids only when there is one, the limit of ids never below 2.
QtEncode(p, scid) ==
  (IF p.odcid # QtNoId THEN <<<<"odcid", p.odcid>>>> ELSE <<>>)
  \o <<<<"udp", p.udp>>, <<"data", p.data>>, <<"cidlimit", IF p.cidlimit < 2 THEN 2 ELSE p.cidlimit>>, <<"iscid", scid>>>>
  \o (IF p.migration = 1 THEN <<<<"migration", 1>>>> ELSE <<>>)
  \o (IF p.rscid # QtNoId THEN <<<<"rscid", p.rscid>>>> ELSE <<>>)

QtSlots == {"odcid", "udp", "data", "cidlimit", "migration"}
QtInRange(id, v) ==
  /\ id = "udp" => v >= 1200 /\ v <= 65527
  /\ id = "cidlimit" => v >= 2
  /\ id = "migration" => v \in {0, 1}
  /\ id \in {"odcid", "rscid"} => v # QtNoId

\* parse(): a parameter with a slot may come once; the ids of the handshake may be repeated.
QtParseError(ps) ==
  \/ \E i \in 1..Len(ps) : ~QtInRange(ps[i][1], ps[i][2])
  \/ \E i, j \in 1..Len(ps) : i < j /\ ps[i][1] = ps[j][1] /\ ps[i][1] \in QtSlots
\* Of a parameter that came more than once, the last value counts.
QtLast(ps, k) == CHOOSE i \in 1..Len(ps) : ps[i][1] = k /\ \A j \in i + 1..Len(ps) : ps[j][1] # k
QtParseParams(ps) ==
  [k \in DOMAIN QtDefaults |-> IF \E i \in 1..Len(ps) : ps[i][1] = k THEN ps[QtLast(ps, k)][2] ELSE QtDefaults[k]]

-----------------------------------------------------------------------------
(* Messages and keys                                                       *)

QtHello(c) == [type |-> "CH", alpn |-> c.alpn, params |-> QtEncode(c.params, "client"), share |-> "cs"]
QtKey(label, tr) == [label |-> label, tr |-> tr]
QtFinished(label, tr) == [type |-> "FIN", over |-> QtKey(label, tr)]

QtEncryptedExtensions(params) == [type |-> "EE", alpn |-> "h3", params |-> params]
CertificateMessage(chain) == [type |-> "CERT", chain |-> chain]

\* How a message may be cut over two CRYPTO frames.
QtCut(m) == <<<<m, "head">>, <<m, "rest">>>>
\* next_complete_message(): the message that `part' completes, if any.
NextComplete(part) == IF part[2] = "rest" THEN <<part[1]>> ELSE <<>>

QtInit ==
  /\ qtconf \in [verify : BOOLEAN, calpn : {{"h3"}, {"h2"}, {"h2", "h3"}}, salpn : {{"h3"}, {"h2"}}, cert : QtCerts,
                 data : QtData, udp : QtUdp, retry : BOOLEAN]
  /\ qtc = [pc |-> "start", hello |-> QtNoMsg, dcid |-> "d0", odcid |-> "d0", retry |-> QtNoId, token |-> QtNoToken, expected |-> "d0",
            tr |-> <<>>, keys |-> FALSE, buf |-> <<>>, saw |-> {}, peer |-> QtDefaults]
  /\ qts = [pc |-> "idle", odcid |-> QtNoId, retry |-> QtNoId, params |-> QtDefaults, tr |-> <<>>, peer |-> QtDefaults]
  /\ qtnet = {} /\ qthand = <<>> /\ qtfin = <<>> /\ qtfaults = 0

ClientFails == qtc' = [qtc EXCEPT !.pc = "failed"]

\* start(), and the same hello again after a Retry (tls_initial_sent is cleared).
QtStart ==
  /\ qtc.pc = "start"
  /\ \E h \in {IF qtc.hello = QtNoMsg
               THEN QtHello([alpn |-> qtconf.calpn, params |-> [QtDefaults EXCEPT !.data = qtconf.data]]) ELSE qtc.hello} :
       /\ qtc' = [qtc EXCEPT !.pc = "sent", !.hello = h]
       /\ qtnet' = qtnet \cup {[type |-> "initial", dcid |-> qtc.dcid, token |-> qtc.token, hello |-> h]}
  /\ UNCHANGED <<qtconf, qts, qthand, qtfin, qtfaults>>

\* handle_server_datagram(): with Retry on, a token must name the id the packet came to.
NeedsRetry(m) == qtconf.retry /\ m.token.r # m.dcid

\* mint() and encode_retry_packet(), for the id the server was called by.
SendRetry ==
  /\ qts.pc = "idle"
  /\ \E m \in qtnet :
       /\ m.type = "initial" /\ NeedsRetry(m)
       /\ qtnet' = (qtnet \ {m}) \cup {[type |-> "retry", of |-> m.dcid, scid |-> "r1", token |-> [o |-> m.dcid, r |-> "r1"]]}
  /\ UNCHANGED <<qtconf, qtc, qts, qthand, qtfin, qtfaults>>

\* The client's Retry: the integrity tag is over its original id; one only, and none after a ServerHello.
OnRetryPacket ==
  \E m \in qtnet :
    /\ m.type = "retry" /\ qtc.pc # "failed" /\ qtnet' = qtnet \ {m}
    /\ IF m.of # qtc.odcid \/ qtc.keys \/ qtc.retry # QtNoId THEN UNCHANGED qtc
       ELSE qtc' = [qtc EXCEPT !.pc = "start", !.dcid = m.scid, !.retry = m.scid, !.token = m.token]
    /\ UNCHANGED <<qtconf, qts, qthand, qtfin, qtfaults>>

\* on_client_hello(): what makes the server refuse.
HelloRefused(h) == QtParseError(h.params) \/ "h3" \notin h.alpn \/ "h3" \notin qtconf.salpn

\* accept() and on_client_hello(): the ids go into the parameters, the whole flight is made at once.
QtAccept ==
  \E m \in qtnet :
    /\ m.type = "initial" /\ qts.pc = "idle" /\ ~NeedsRetry(m)
    /\ IF HelloRefused(m.hello)
       THEN qts' = [qts EXCEPT !.pc = "failed"] /\ qtnet' = qtnet \ {m} /\ UNCHANGED qthand
       ELSE \E p \in {[QtDefaults EXCEPT !.data = qtconf.data, !.udp = qtconf.udp,
                                       !.odcid = IF m.token # QtNoToken THEN m.token.o ELSE m.dcid,
                                       !.rscid = IF m.token # QtNoToken THEN m.dcid ELSE QtNoId]} :
            \E sh \in {[type |-> "SH", share |-> "ss"]} :
            \E ee \in {QtEncryptedExtensions(QtEncode(p, "server"))} :
            \E cert \in {CertificateMessage(qtconf.cert)} :
            \E cv \in {[type |-> "CV", signed |-> <<m.hello, sh, ee, cert>>, by |-> qtconf.cert]} :
            \E fin \in {QtFinished("server", <<m.hello, sh, ee, cert, cv>>)} :
              /\ qts' = [qts EXCEPT !.pc = "ready", !.odcid = p.odcid, !.retry = p.rscid, !.params = p,
                                    !.tr = <<m.hello, sh, ee, cert, cv, fin>>, !.peer = QtParseParams(m.hello.params)]
              /\ qtnet' = (qtnet \ {m}) \cup {[type |-> "reply", scid |-> "server", hello |-> sh]}
              /\ qthand' = QtCut(ee) \o QtCut(cert) \o QtCut(cv) \o QtCut(fin)
    /\ UNCHANGED <<qtconf, qtc, qtfin, qtfaults>>

\* on_initial(): the ServerHello; the handshake keys come from both hellos.
OnInitial ==
  \E m \in qtnet :
    /\ m.type = "reply" /\ qtc.pc = "sent" /\ qtnet' = qtnet \ {m}
    /\ qtc' = [qtc EXCEPT !.pc = "hello", !.tr = <<qtc.hello, m.hello>>, !.keys = TRUE, !.expected = m.scid]
    /\ UNCHANGED <<qtconf, qts, qthand, qtfin, qtfaults>>

\* Faulty variant: the id of the hello under way is compared, not that of the first.
IdsConfirmedCurrent(p) == p.iscid = qtc.expected /\ p.odcid = qtc.dcid /\ p.rscid = qtc.retry
\* The server's parameters must name the ids this client has seen.
IdsConfirmed(p) == p.iscid = qtc.expected /\ p.odcid = qtc.odcid /\ p.rscid = qtc.retry

\* Why on_handshake() refuses a message.
QtRefused(m) ==
  \/ m.type = "EE" /\ ("EE" \in qtc.saw \/ m.alpn # "h3" \/ QtParseError(m.params) \/ ~IdsConfirmed(QtParseParams(m.params)))
  \/ m.type = "CERT" /\ ("EE" \notin qtc.saw \/ "CERT" \in qtc.saw)
  \/ m.type = "CV" /\ ("CERT" \notin qtc.saw \/ "CV" \in qtc.saw \/ (qtconf.verify /\ m.by # "good") \/ m.signed # qtc.tr)
  \/ m.type = "FIN" /\ (~({"EE", "CERT", "CV"} \subseteq qtc.saw) \/ m.over # QtKey("server", qtc.tr))

\* One message of the loop of on_handshake(); FIN answers with the client's Finished.
TakeMessage(m) ==
  IF QtRefused(m) THEN ClientFails /\ UNCHANGED qtfin
  ELSE /\ qtc' = [qtc EXCEPT !.tr = Append(@, m), !.saw = @ \cup {m.type}, !.buf = <<>>,
                             !.peer = IF m.type = "EE" THEN QtParseParams(m.params) ELSE @,
                             !.pc = IF m.type = "FIN" THEN "done" ELSE @]
       /\ qtfin' = IF m.type = "FIN" THEN <<QtFinished("client", Append(qtc.tr, m))>> ELSE qtfin

\* The handshake keys are derived from the two hellos.
SameHandshakeKeys == \A i \in 1..2 : qts.tr[i] = qtc.tr[i]

\* Handshake CRYPTO opens when both ends derived the same keys; a part of a message waits in handshake_in.
OnHandshake ==
  /\ qtc.pc = "hello" /\ qthand # <<>> /\ SameHandshakeKeys
  /\ qthand' = Tail(qthand)
  /\ \E whole \in {NextComplete(Head(qthand))} :
       IF whole = <<>> THEN qtc' = [qtc EXCEPT !.buf = <<Head(qthand)>>] /\ UNCHANGED qtfin ELSE TakeMessage(whole[1])
  /\ UNCHANGED <<qtconf, qts, qtnet, qtfaults>>

\* on_client_finished()
OnClientFinished ==
  /\ qts.pc = "ready" /\ qtfin # <<>> /\ qtfin' = <<>>
  /\ qts' = IF Head(qtfin).over = QtKey("client", qts.tr)
            THEN [qts EXCEPT !.pc = "done", !.tr = Append(@, Head(qtfin))] ELSE [qts EXCEPT !.pc = "failed"]
  /\ UNCHANGED <<qtconf, qtc, qtnet, qthand, qtfaults>>

\* The network changes an Initial packet, or makes up a Retry for a hello it has seen.
Interfere ==
  /\ qtfaults < QtFaults /\ qtfaults' = qtfaults + 1
  /\ \E m \in qtnet :
       \/ m.type = "initial" /\ \E a \in {{"h3"}, {"h2", "h3"}} : qtnet' = (qtnet \ {m}) \cup {[m EXCEPT !.hello.alpn = a]}
       \/ m.type = "initial" /\ qtnet' = (qtnet \ {m}) \cup {[m EXCEPT !.hello.params = Append(@, <<"data", 1>>)]}
       \/ m.type = "initial" /\ \E d \in {"d1", "r1"} : qtnet' = (qtnet \ {m}) \cup {[m EXCEPT !.dcid = d]}
       \/ m.type = "initial" /\ \E t \in {QtNoToken, [o |-> "d0", r |-> "r1"]} :
            qtnet' = (qtnet \ {m}) \cup {[type |-> "retry", of |-> m.dcid, scid |-> "r2", token |-> t]}
       \/ m.type = "reply" /\ qtnet' = (qtnet \ {m}) \cup {[m EXCEPT !.hello.share = "other"]}
       \/ m.type = "reply" /\ qtnet' = (qtnet \ {m}) \cup {[m EXCEPT !.scid = "d1"]}
  /\ UNCHANGED <<qtconf, qtc, qts, qthand, qtfin>>

QtNext == QtStart \/ SendRetry \/ OnRetryPacket \/ QtAccept \/ OnInitial \/ OnHandshake \/ OnClientFinished \/ Interfere

QtSpec == QtInit /\ [][QtNext]_qtvars

-----------------------------------------------------------------------------
(***************************************************************************)
(* What a completed handshake guarantees, whatever the network did to the  *)
(* Initial packets: both ends hold one transcript, each has the other's    *)
(* parameters, both mean the same ids and the same Retry, and a verifying  *)
(* client has seen a good certificate.  And when the network changes       *)
(* nothing and the ends are set up for each other, nobody fails.           *)
(***************************************************************************)
QuicAgrees ==
  /\ qtc.pc = "done" =>
       /\ qts.pc \in {"ready", "done"} /\ IsPrefix(qtc.tr, qts.tr)
       /\ qtc.peer = [qts.params EXCEPT !.iscid = "server"]
       /\ qtc.odcid = qts.odcid /\ qtc.retry = qts.retry
       /\ qtconf.verify => qtconf.cert = "good"
  /\ qts.pc = "done" => qtc.pc = "done" /\ qts.peer.data = qtconf.data
  /\ qtfaults = 0 /\ "h3" \in qtconf.calpn \cap qtconf.salpn /\ (qtconf.verify => qtconf.cert = "good") /\ qtconf.udp >= 1200 /\ qtconf.udp <= 65527 =>
       qtc.pc # "failed" /\ qts.pc # "failed"
=============================================================================
