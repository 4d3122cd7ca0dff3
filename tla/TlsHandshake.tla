---------------------------- MODULE TlsHandshake ----------------------------
(* courierust_tls: TlsConnector::connect and TlsAcceptor::accept with the      *)
(* TLS 1.3 and TLS 1.2 handshakes behind them, the client's session store, and *)
(* the tickets of the server.  Cryptography is symbolic: a transcript hash is  *)
(* the tuple of what was hashed before and the messages added to it, a MAC or  *)
(* a key is the tuple it is computed from, and a record opens only under the   *)
(* key that sealed it.  A flight is kept by the kind of its messages, the way  *)
(* the code sorts it, TlsNone for one that is absent.  A hello travels in the  *)
(* clear, so one field of it may be changed on the way.                        *)
EXTENDS Integers, Sequences, FiniteSets, SequencesExt

CONSTANTS
    TlClients,      \* configurations of the client
    TlServers,      \* configurations of the server
    TlRestarts,     \* configurations it may be started again with
    TlConns,        \* bound: connections made one after another
    TlTampered,     \* bound: the connections in which a hello may be changed on the way
    TlLifetime      \* SESSION_LIFETIME_SECS in steps of the server's clock

IdentityKinds == {"rsa", "p256", "p384", "p521", "ed"}

ASSUME TlAssumption ==
    /\ \A c \in TlClients : c.max \in Int /\ c.min \in Int /\ c.share \in BOOLEAN /\ c.kt \in IdentityKinds
    /\ \A s \in TlServers \union TlRestarts :
          s.max \in Int /\ s.min \in Int /\ s.kt \in IdentityKinds /\ s.auth \in {"none", "optional", "required"}

VARIABLES
    tlCfg,          \* [c, s]: the two configurations
    tlConn,         \* number of the connection; its randoms and shares are fresh
    tlNow,          \* unix_now() of the server; ClientConfig::now never moves
    tlStore,        \* TlsConnector::sessions for this host, at most one
    tlC, tlS,       \* the two ends of the connection
    tlUp, tlDown,   \* records on the way to the server and to the client
    tlAltered       \* a hello of this connection was changed on the way
tlvars == <<tlCfg, tlConn, tlNow, tlStore, tlC, tlS, tlUp, tlDown, tlAltered>>

TlsNone == [t |-> "none"]

(* ----------------------------- the parameters ----------------------------- *)
Suites13 == <<"chacha", "aes128", "aes256">>
Hash13(s) == IF s = "aes256" THEN 384 ELSE 256

\* tls13_suite_hash_pref: an ECDSA identity can only sign under its own hash.
HashPref(kt) == CASE kt = "p256" -> {256} [] kt = "p384" -> {384} [] OTHER -> {256, 384}

\* The docs of tls12.rs and accept() say that an Ed25519 identity cannot negotiate
\* TLS 1.2; the selection below, and a test beside it, let it.
Suites12 == << <<"rsa", 256>>, <<"rsa", 384>>, <<"rsa", 256>>,
               <<"ecdsa", 256>>, <<"ecdsa", 384>>, <<"ecdsa", 256>> >>
Fits12(s, kt) ==
    \/ s[1] = "rsa" /\ kt = "rsa"
    \/ s[1] = "ecdsa" /\ kt = "p256" /\ s[2] = 256
    \/ s[1] = "ecdsa" /\ kt = "p384" /\ s[2] = 384
    \/ s[1] = "ecdsa" /\ kt = "ed"

\* sign_cert_verify: whether the key can sign under the suite.
CanSign(kt, suite) ==
    \/ kt \in {"rsa", "ed"}
    \/ kt = "p256" /\ Hash13(suite) = 256
    \/ kt = "p384" /\ Hash13(suite) = 384

\* The scheme it signs with: PSS for every RSA key long enough for the salt.
Scheme(kt) == IF kt = "rsa" THEN "pss" ELSE kt

\* CERT_VERIFY_SCHEMES, the list of every CertificateRequest: of RSA only PKCS#1 v1.5,
\* "PSS is verification-only here".
CertVerifySchemes == {"p256", "p384", "p521", "ed", "pkcs1"}

\* The first protocol of the server's list that the client offered.
Alpn(mine, offered) ==
    LET common == {i \in DOMAIN mine : Contains(offered, mine[i])}
    IN IF common = {} THEN "none" ELSE mine[Min(common)]

Allow13(cfg) == cfg.max >= 13
Allow12(cfg) == cfg.min <= 12

(* ------------------------------- the tickets ------------------------------ *)
Binder(psk, suite, hello) == <<"binder", psk, Hash13(suite), [hello EXCEPT !.psk = TlsNone]>>
Ticket(key, suite, psk, now) == [key |-> key, suite |-> suite, psk |-> psk, issued |-> now]
TicketOpens(key, t) ==
    /\ key # 0 /\ t.key = key
    /\ tlNow >= t.issued /\ tlNow - t.issued <= TlLifetime

(* --------------------------- TlsConnector::connect ------------------------ *)
Hello(c) ==
    [t |-> "CH", n |-> tlConn, alpn |-> c.alpn, psk |-> TlsNone,
     vers |-> (IF Allow13(c) THEN {13} ELSE {}) \cup (IF Allow12(c) THEN {12} ELSE {}),
     share |-> c.share, sid |-> tlConn]

\* build_client_hello_with_psk offers TLS 1.3 alone, with an empty session id.
HelloPsk(c, s) ==
    LET h == [Hello(c) EXCEPT !.vers = {13}, !.share = TRUE, !.sid = 0]
    IN [h EXCEPT !.psk = [t |-> "psk", ticket |-> s.ticket, binder |-> Binder(s.psk, s.suite, h)]]

\* find_session: is_fresh() compares the store's clock with itself.
Session == IF Allow13(tlCfg.c) /\ tlCfg.c.share THEN tlStore ELSE TlsNone

NoResult == [ver |-> 0, suite |-> TlsNone, alpn |-> "none", write |-> TlsNone, read |-> TlsNone,
             resumed |-> FALSE, peer |-> "none", master |-> TlsNone]
Failed(why) == [pc |-> "failed", why |-> why, res |-> NoResult]

TlsConnect ==
    /\ tlC.pc = "idle"
    /\ LET ch == IF Session = TlsNone THEN Hello(tlCfg.c) ELSE HelloPsk(tlCfg.c, Session)
       IN /\ tlUp' = <<ch>>
          /\ tlC' = [pc |-> "hello", ch |-> ch, prefix |-> <<>>, sess |-> Session]
    /\ UNCHANGED <<tlCfg, tlConn, tlNow, tlStore, tlS, tlDown, tlAltered>>

\* What the server reads of a hello.
Offers13(ch) == 13 \in ch.vers
Offers12(ch) == 12 \in ch.vers
OffersPsk(ch) == ch.psk # TlsNone

(* ----------------------------- messages of 1.3 ---------------------------- *)
HsSecret(suite, psk, th) == <<"hs", suite, tlConn, psk, th>>
AppSecret(hs, th, who) == <<"app", hs, th, who>>
Fin(hs, who, th) == [t |-> "fin", mac |-> <<hs, who, th>>]
ServerHello13(suite, resumed, sid) ==
    [t |-> "SH", ver |-> 13, suite |-> suite, resumed |-> resumed, sid |-> sid]
HelloRetry(suite, sid) == [t |-> "HRR", suite |-> suite, sid |-> sid]
MessageHash(ch) == <<"hash", ch>>
EncryptedExtensions(alpn) == [t |-> "EE", alpn |-> alpn]
CertificateRequest == [t |-> "CR", schemes |-> CertVerifySchemes]
Cert(c) == [t |-> "cert", chain |-> c]
CertVerify(c, th) == [t |-> "cv", sig |-> <<c, th>>]
Verifies(cv, c, th) == cv.sig = <<c, th>>
Enc(key, msgs) == [t |-> "enc", key |-> key, msgs |-> msgs]
Master(hs, th) == <<"master", hs, th>>

\* A peer that gave no share answers a HelloRetryRequest (this client refuses it).
Retry ==
    /\ tlC.pc = "hello" /\ tlDown # <<>> /\ tlDown[1].t = "HRR"
    /\ LET ch2 == [tlC.ch EXCEPT !.share = TRUE]
       IN /\ tlUp' = <<ch2>>
          /\ tlC' = [tlC EXCEPT !.ch = ch2, !.prefix = <<MessageHash(tlC.ch), tlDown[1]>>]
    /\ tlDown' = <<>>
    /\ UNCHANGED <<tlCfg, tlConn, tlNow, tlStore, tlS, tlAltered>>

\* The PSK the server resumes with, or None.  After a HelloRetryRequest the binder
\* is checked over the first hello itself, not its hash: no peer's binder fits.
Resumes(s, ch, suite, prefix) ==
    IF /\ OffersPsk(ch) /\ TicketOpens(s.key, ch.psk.ticket)
       /\ ch.psk.ticket.suite = suite
       /\ prefix = <<>> /\ ch.psk.binder = Binder(ch.psk.ticket.psk, suite, ch)
       /\ s.auth # "required"
    THEN ch.psk.ticket.psk ELSE TlsNone

\* run_from_client_hello up to its flight.
Answer13(s, ch, suite, prefix) ==
    LET psk == Resumes(s, ch, suite, prefix)
        sh == ServerHello13(suite, psk # TlsNone, ch.sid)
        th1 == <<prefix, ch, sh>>
        hs == HsSecret(suite, psk, th1)
        ee == EncryptedExtensions(Alpn(s.alpn, ch.alpn))
        cr == IF psk = TlsNone /\ s.auth # "none" THEN CertificateRequest ELSE TlsNone
        cert == IF psk = TlsNone THEN Cert(s.cert) ELSE TlsNone
        th2 == <<th1, ee, cr, cert>>
        cv == IF psk = TlsNone THEN CertVerify(s.cert, th2) ELSE TlsNone
        fin == Fin(hs, "s", <<th2, cv>>)
    IN [psk |-> psk, sh |-> sh, hs |-> hs, th |-> <<th2, cv, fin>>,
        msgs |-> [ee |-> ee, cr |-> cr, cert |-> cert, cv |-> cv, fin |-> fin]]

Flight13(s, ch, suite, prefix) ==
    LET a == Answer13(s, ch, suite, prefix)
    IN IF a.psk = TlsNone /\ ~CanSign(s.kt, suite)
       THEN tlS' = Failed("sign") /\ tlDown' = <<a.sh>>
       ELSE /\ tlS' = [pc |-> "flight", ver |-> 13, ch |-> ch, suite |-> suite, prefix |-> prefix, ans |-> a]
            /\ tlDown' = <<a.sh, Enc(<<a.hs, "s">>, a.msgs)>>

Choose13(kt) == Suites13[Min({i \in DOMAIN Suites13 : Hash13(Suites13[i]) \in HashPref(kt)})]

Accept13(s, ch) ==
    LET suite == Choose13(s.kt)  hrr == HelloRetry(suite, ch.sid)
    IN IF ch.share THEN Flight13(s, ch, suite, <<>>)
       ELSE /\ tlS' = [pc |-> "retry", suite |-> suite, ch |-> ch, hrr |-> hrr]
            /\ tlDown' = <<hrr>>

(* ----------------------------- messages of 1.2 ---------------------------- *)
Keys12(suite, who) == <<"k12", suite, tlConn, who>>

\* TLS 1.2 resumes nothing and keeps no master secret for a ticket.
Result12(suite, alpn, write, read, peer) ==
    [ver |-> 12, suite |-> suite, alpn |-> alpn, write |-> write, read |-> read,
     resumed |-> FALSE, peer |-> peer, master |-> TlsNone]
ServerHello12(suite, alpn, sentinel) ==
    [t |-> "SH", ver |-> 12, suite |-> suite, alpn |-> alpn, sentinel |-> sentinel]
Certificate12(c) == [t |-> "cert", chain |-> c]
ServerKeyExchange(c) == [t |-> "SKE", sig |-> <<c, tlConn>>]
ClientKeyExchange == [t |-> "CKE", n |-> tlConn]

\* server_handshake up to ServerHelloDone; the sentinel follows the hello read.
Sentinel(ch) == Offers13(ch)
Accept12(s, ch) ==
    LET usable == {i \in DOMAIN Suites12 : Fits12(Suites12[i], s.kt) /\ Offers12(ch)}
        suite == Suites12[Min(usable)]
        flight == <<ServerHello12(suite, Alpn(s.alpn, ch.alpn), Sentinel(ch)), Certificate12(s.cert),
                    ServerKeyExchange(s.cert), [t |-> "SHD"]>>
    IN IF usable = {}
       THEN tlS' = Failed("no suite") /\ tlDown' = <<[t |-> "alert", code |-> 40]>>
       ELSE /\ tlS' = [pc |-> "flight", ver |-> 12, ch |-> ch, suite |-> suite, flight |-> flight]
            /\ tlDown' = flight

(* ---------------------------- TlsAcceptor::accept ------------------------- *)
Speaks13Last(s, ch) == Offers13(ch) /\ Allow13(s) /\ ~Allow12(s)
Speaks13(s, ch) == Offers13(ch) /\ Allow13(s)
Accept ==
    /\ tlS.pc = "idle" /\ tlUp # <<>>
    /\ LET s == tlCfg.s  ch == tlUp[1]
       IN \/ /\ Speaks13(s, ch)
             /\ Accept13(s, ch)
          \/ /\ ~Speaks13(s, ch) /\ Allow12(s)
             /\ IF s.auth # "none" THEN tlS' = Failed("auth needs 1.3") /\ tlDown' = <<>>
                ELSE Accept12(s, ch)
          \/ /\ ~Speaks13(s, ch) /\ ~Allow12(s)
             /\ tlS' = Failed("version") /\ tlDown' = <<[t |-> "alert", code |-> 70]>>
    /\ tlUp' = <<>>
    /\ UNCHANGED <<tlCfg, tlConn, tlNow, tlStore, tlC, tlAltered>>

\* The second ClientHello after a HelloRetryRequest.
AcceptRetry ==
    /\ tlS.pc = "retry" /\ tlUp # <<>>
    /\ IF tlUp[1].share
       THEN Flight13(tlCfg.s, tlUp[1], tlS.suite, <<MessageHash(tlS.ch), tlS.hrr>>)
       ELSE tlS' = Failed("no share") /\ tlDown' = <<>>
    /\ tlUp' = <<>>
    /\ UNCHANGED <<tlCfg, tlConn, tlNow, tlStore, tlC, tlAltered>>

(* ------------------------ the client after ServerHello -------------------- *)
\* run_from_server_hello: what the client derives, and its checks in the order of the code.
Derived13(sh, m) ==
    LET c == tlCfg.c
        psk == IF sh.resumed THEN tlC.sess.psk ELSE TlsNone
        th1 == <<tlC.prefix, tlC.ch, sh>>
        hs == HsSecret(sh.suite, psk, th1)
        th2 == <<th1, m.ee, m.cr, m.cert>>
        th == <<th2, m.cv, m.fin>>
        cert == IF m.cr = TlsNone THEN TlsNone ELSE Cert(c.ident)
        cv == IF m.cr # TlsNone /\ c.ident # "none" THEN CertVerify(c.ident, <<th, cert>>) ELSE TlsNone
        fin == Fin(hs, "c", <<th, cert, cv>>)
    IN [hs |-> hs, th2 |-> th2, th |-> th, msgs |-> [cert |-> cert, cv |-> cv, fin |-> fin],
        master |-> Master(hs, <<th, cert, cv, fin>>)]
Problem13(sh, enc, d) ==
    LET c == tlCfg.c  m == enc.msgs
    IN  IF sh.sid # tlC.ch.sid THEN "session id"
        ELSE IF sh.resumed /\ tlC.sess = TlsNone THEN "no offer"
        ELSE IF sh.resumed /\ tlC.sess.suite # sh.suite THEN "suite"
        ELSE IF enc.key # <<d.hs, "s">> THEN "record"
        ELSE IF sh.resumed /\ (m.cert # TlsNone \/ m.cv # TlsNone \/ m.cr # TlsNone) THEN "authentication"
        ELSE IF ~sh.resumed /\ m.cert.chain # "ok" THEN "certificate"
        ELSE IF ~sh.resumed /\ ~Verifies(m.cv, m.cert.chain, d.th2) THEN "signature"
        ELSE IF m.fin.mac # Fin(d.hs, "s", <<d.th2, m.cv>>).mac THEN "finished"
        ELSE IF m.cr # TlsNone /\ c.ident # "none" /\ ~CanSign(c.kt, sh.suite) THEN "cannot sign"
        ELSE IF m.cr # TlsNone /\ c.ident # "none" /\ Scheme(c.kt) \notin m.cr.schemes THEN "scheme"
        ELSE ""
Client13(sh, enc) ==
    LET m == enc.msgs  d == Derived13(sh, m)  why == Problem13(sh, enc, d)
    IN  IF why # "" THEN tlC' = Failed(why) /\ UNCHANGED tlUp
        ELSE /\ tlUp' = <<Enc(<<d.hs, "c">>, d.msgs)>>
             /\ tlC' = [pc |-> "done", why |-> "",
                        res |-> [ver |-> 13, suite |-> sh.suite, resumed |-> sh.resumed, alpn |-> m.ee.alpn,
                                 write |-> AppSecret(d.hs, d.th, "c"), read |-> AppSecret(d.hs, d.th, "s"),
                                 peer |-> IF sh.resumed THEN "none" ELSE m.cert.chain, master |-> d.master]]

\* tls12::client_handshake up to its Finished.
Refused12(sh) == Allow13(tlCfg.c) /\ ~sh.sentinel
Client12(sh, flight) ==
    LET th == <<<<tlC.ch, flight>>, ClientKeyExchange>>
        fin == Fin(Keys12(sh.suite, "m"), "c", th)
    IN  IF Refused12(sh) THEN tlC' = Failed("sentinel") /\ UNCHANGED tlUp
        ELSE IF flight[2].chain # "ok" THEN tlC' = Failed("certificate") /\ UNCHANGED tlUp
        ELSE IF flight[3] # ServerKeyExchange(flight[2].chain)
             THEN tlC' = Failed("signature") /\ UNCHANGED tlUp
        ELSE /\ tlUp' = <<ClientKeyExchange, [t |-> "CCS"], Enc(Keys12(sh.suite, "c"), fin)>>
             /\ tlC' = [pc |-> "wait12", why |-> "", th |-> <<th, fin>>,
                        res |-> Result12(sh.suite, sh.alpn, Keys12(sh.suite, "c"), Keys12(sh.suite, "s"),
                                         flight[2].chain)]

ReadServerHello ==
    /\ tlC.pc = "hello" /\ tlDown # <<>> /\ tlDown[1].t \in {"SH", "alert"}
    /\ LET sh == tlDown[1]
       IN IF sh.t = "alert" THEN tlC' = Failed("alert") /\ UNCHANGED tlUp
          ELSE IF sh.ver = 13
          THEN IF ~Allow13(tlCfg.c) THEN tlC' = Failed("version") /\ UNCHANGED tlUp
               ELSE IF Len(tlDown) = 1 THEN tlC' = Failed("eof") /\ UNCHANGED tlUp
               ELSE Client13(sh, tlDown[2])
          ELSE IF ~Allow12(tlCfg.c) THEN tlC' = Failed("version") /\ UNCHANGED tlUp
               ELSE Client12(sh, tlDown)
    /\ tlDown' = <<>>
    /\ UNCHANGED <<tlCfg, tlConn, tlNow, tlStore, tlS, tlAltered>>

\* The rest of client_handshake: the server's ChangeCipherSpec and Finished.
ReadFinished12 ==
    /\ tlC.pc = "wait12" /\ tlDown # <<>>
    /\ tlC' = IF /\ Len(tlDown) = 2 /\ tlDown[2].key = tlC.res.read
                 /\ tlDown[2].msgs.mac = Fin(Keys12(tlC.res.suite, "m"), "s", tlC.th).mac
              THEN [pc |-> "done", why |-> "", res |-> tlC.res]
              ELSE Failed("finished")
    /\ tlDown' = <<>>
    /\ UNCHANGED <<tlCfg, tlConn, tlNow, tlStore, tlS, tlUp, tlAltered>>

(* ------------------------- the server's second half ----------------------- *)
\* run_from_client_hello after its flight: certificate, policy, Finished, ticket.
Refuses(s, cert, cv, th) ==
    IF cert # TlsNone /\ cert.chain # "none" /\ cv # TlsNone
       /\ ~Verifies(cv, cert.chain, <<th, cert>>) THEN "signature"
    ELSE IF cert = TlsNone \/ cert.chain = "none"
    THEN IF s.auth = "required" /\ tlS.ans.psk = TlsNone THEN "certificate_required" ELSE ""
    ELSE IF s.auth = "none" THEN "unexpected"
    ELSE IF cert.chain # "ok" THEN "bad certificate"
    ELSE IF cv = TlsNone THEN "no proof" ELSE ""

Psk(master) == [t |-> "psk", master |-> master]
NewSessionTicket(key, suite, psk) == [t |-> "NST", ticket |-> Ticket(key, suite, psk, tlNow)]

Server13(enc) ==
    LET s == tlCfg.s  a == tlS.ans  m == enc.msgs
        th == <<a.th, m.cert, m.cv>>
        why == IF enc.key # <<a.hs, "c">> THEN "record"
               ELSE IF Refuses(s, m.cert, m.cv, a.th) # "" THEN Refuses(s, m.cert, m.cv, a.th)
               ELSE IF m.fin.mac # Fin(a.hs, "c", th).mac THEN "finished" ELSE ""
        psk == Psk(Master(a.hs, <<a.th, m.cert, m.cv, m.fin>>))
        app == AppSecret(a.hs, a.th, "s")
    IN  IF why # "" THEN tlS' = Failed(why) /\ tlDown' = <<[t |-> "alert", code |-> 42]>>
        ELSE /\ tlS' = [pc |-> "done", why |-> "",
                        res |-> [ver |-> 13, suite |-> tlS.suite, resumed |-> a.psk # TlsNone,
                                 alpn |-> a.msgs.ee.alpn, write |-> app,
                                 read |-> AppSecret(a.hs, a.th, "c"),
                                 peer |-> IF m.cert = TlsNone THEN "none" ELSE m.cert.chain,
                                 master |-> TlsNone]]
             /\ tlDown' = IF s.key = 0 THEN <<>>
                          ELSE <<Enc(app, NewSessionTicket(s.key, tlS.suite, psk))>>

Server12(up) ==
    LET th == <<<<tlS.ch, tlS.flight>>, up[1]>>  fin == up[3].msgs  suite == tlS.suite
    IN IF /\ up[3].key = Keys12(suite, "c")
          /\ fin.mac = Fin(Keys12(suite, "m"), "c", th).mac
       THEN /\ tlS' = [pc |-> "done", why |-> "",
                       res |-> Result12(suite, tlS.flight[1].alpn, Keys12(suite, "s"), Keys12(suite, "c"), "none")]
            /\ tlDown' = <<[t |-> "CCS"], Enc(Keys12(suite, "s"), Fin(Keys12(suite, "m"), "s", <<th, fin>>))>>
       ELSE tlS' = Failed("finished") /\ tlDown' = <<[t |-> "alert", code |-> 40]>>

ReadClientFlight ==
    /\ tlS.pc = "flight" /\ tlUp # <<>>
    /\ IF tlS.ver = 13 THEN Server13(tlUp[1]) ELSE Server12(tlUp)
    /\ tlUp' = <<>>
    /\ UNCHANGED <<tlCfg, tlConn, tlNow, tlStore, tlC, tlAltered>>

(* ------------------------- after it, and around it ------------------------ *)
\* read_record of the client meets the ticket: capture_ticket, cache_session.
CaptureTicket ==
    /\ tlC.pc = "done" /\ tlDown # <<>> /\ tlDown[1].t = "enc"
    /\ tlDown[1].key = tlC.res.read /\ tlDown[1].msgs.t = "NST"
    /\ tlStore' = [t |-> "session", ticket |-> tlDown[1].msgs.ticket, suite |-> tlC.res.suite,
                   psk |-> Psk(tlC.res.master)]
    /\ tlDown' = <<>>
    /\ UNCHANGED <<tlCfg, tlConn, tlNow, tlC, tlS, tlUp, tlAltered>>

\* An end that waits reads the end of the stream once the other has given up.
Eof ==
    \/ /\ tlC.pc \in {"hello", "wait12"} /\ tlS.pc = "failed" /\ tlDown = <<>>
       /\ tlC' = Failed("eof") /\ UNCHANGED tlS
       /\ UNCHANGED <<tlCfg, tlConn, tlNow, tlStore, tlUp, tlDown, tlAltered>>
    \/ /\ tlS.pc \in {"flight", "retry"} /\ tlC.pc = "failed" /\ tlUp = <<>>
       /\ tlS' = Failed("eof") /\ UNCHANGED tlC
       /\ UNCHANGED <<tlCfg, tlConn, tlNow, tlStore, tlUp, tlDown, tlAltered>>

\* A field of a hello is changed on the way.
Alter ==
    /\ ~tlAltered /\ tlConn \in TlTampered
    /\ \/ /\ tlUp # <<>> /\ tlUp[1].t = "CH"
          /\ tlUp' \in {<<[tlUp[1] EXCEPT !.vers = @ \ {13}]>>,
                        <<[tlUp[1] EXCEPT !.alpn = <<>>]>>,
                        <<[tlUp[1] EXCEPT !.psk = TlsNone]>>} \ {tlUp}
          /\ UNCHANGED tlDown
       \/ /\ tlDown # <<>> /\ tlDown[1].t = "SH"
          /\ tlDown' \in (IF tlDown[1].ver = 13
                          THEN {[tlDown EXCEPT ![1].suite = x] : x \in {"aes128", "aes256"}}
                          ELSE {[tlDown EXCEPT ![1].alpn = "none"]}) \ {tlDown}
          /\ UNCHANGED tlUp
    /\ tlAltered' = TRUE
    /\ UNCHANGED <<tlCfg, tlConn, tlNow, tlStore, tlC, tlS>>

Over == /\ tlC.pc \in {"done", "failed"} /\ tlS.pc \in {"done", "failed"}

\* The next connection of the same connector, perhaps to a restarted server.
NextConnection ==
    /\ Over /\ tlConn < TlConns
    /\ tlConn' = tlConn + 1 /\ tlAltered' = FALSE
    /\ tlC' = [pc |-> "idle"] /\ tlS' = [pc |-> "idle"] /\ tlUp' = <<>> /\ tlDown' = <<>>
    /\ tlNow' \in {tlNow, tlNow + TlLifetime + 1}
    /\ tlCfg' \in {[tlCfg EXCEPT !.s = s] : s \in {tlCfg.s} \cup TlRestarts}
    /\ UNCHANGED tlStore

TlInit ==
    /\ tlCfg \in [c : TlClients, s : TlServers]
    /\ tlConn = 1 /\ tlNow = 0 /\ tlStore = TlsNone
    /\ tlC = [pc |-> "idle"] /\ tlS = [pc |-> "idle"]
    /\ tlUp = <<>> /\ tlDown = <<>> /\ tlAltered = FALSE

TlNext ==
    \/ TlsConnect \/ Retry \/ Accept \/ AcceptRetry \/ ReadServerHello \/ ReadFinished12
    \/ ReadClientFlight \/ CaptureTicket \/ Eof \/ Alter \/ NextConnection

TlSpec == TlInit /\ [][TlNext]_tlvars

(* ------------------------------- properties ------------------------------- *)
\* A server that returns a stream shares it with a client that has returned one
\* or still waits for the last message: same version, suite, protocol, keys
\* crossed, same word on resumption, whatever was changed on the way (the
\* Finished messages cover both hellos).
HandshakeAgrees ==
    tlS.pc = "done" =>
        /\ tlC.pc \in {"done", "wait12", "failed"}
        /\ tlC.pc # "failed" =>
            /\ tlC.res.ver = tlS.res.ver /\ tlC.res.suite = tlS.res.suite
            /\ tlC.res.alpn = tlS.res.alpn /\ tlC.res.resumed = tlS.res.resumed
            /\ tlC.res.write = tlS.res.read /\ tlC.res.read = tlS.res.write

\* A server that requires a client certificate never serves a stream without a
\* trusted one: a ticket bought under another policy does not replace it.
ClientAuthKept ==
    tlS.pc = "done" /\ tlCfg.s.auth = "required" => tlS.res.peer = "ok" /\ tlCfg.c.ident = "ok"

\* Two ends that both speak TLS 1.3 never settle on TLS 1.2, even when the hello
\* is rewritten: the missing sentinel and the Finished both stop the client.
NoDowngrade ==
    tlC.pc = "done" /\ Allow13(tlCfg.c) /\ Allow13(tlCfg.s) => tlC.res.ver = 13

\* What two configurations need to meet.  Three limits are of the code's making:
\* a client with a session offers TLS 1.3 alone, an ECDSA client identity must fit
\* the hash of the suite that the server picks for its own identity, and an RSA
\* client identity meets no server that asks for a certificate, because it signs
\* with a scheme that the request does not list.
Meet(c, s) ==
    IF Allow13(c) /\ Allow13(s)
    THEN /\ s.cert = "ok" /\ s.kt # "p521"
         /\ s.auth = "none" \/ (s.auth = "optional" /\ c.ident = "none")
            \/ (c.ident = "ok" /\ CanSign(c.kt, Choose13(s.kt)) /\ Scheme(c.kt) \in CertVerifySchemes)
    ELSE /\ Allow12(c) /\ Allow12(s) /\ s.auth = "none"
         /\ s.cert = "ok" /\ s.kt # "p521" /\ tlStore = TlsNone
\* Unless a hello is changed on the way, a handshake fails only between ends that
\* cannot meet: a stale, foreign or mismatched ticket costs a full handshake, not
\* the connection.
FailureDeserved ==
    (tlC.pc = "failed" \/ tlS.pc = "failed") /\ ~tlAltered => ~Meet(tlCfg.c, tlCfg.s)

\* Two ends of handshake.rs and tls12.rs that return a stream agree on it and on who
\* the client is, at the best version both speak, and nothing else makes them fail.
HandshakesKept == HandshakeAgrees /\ ClientAuthKept /\ NoDowngrade /\ FailureDeserved

-----------------------------------------------------------------------------
(* courierust_tls::x509, which the handshakes hand the peer's chain to:         *)
(* validate_chain, hostname_matches and the name                                *)
(* constraints.  A name is its sequence of labels, most specific first (case    *)
(* and trailing dots are folded before the comparisons); a signature is the key *)
(* that made it.                                                                *)
CONSTANTS
    X5Chains,       \* chains a peer may present, leaf first
    X5Roots,        \* root stores
    X5Names         \* host names the client may want

\* RFC 5280 4.2.1.10: a permitted subtree is given by a name, in which no
\* label is a wildcard.
ASSUME X5Assumption ==
    /\ X5Names \subseteq Seq(STRING)
    /\ \A chain \in X5Chains :
          /\ Len(chain) \in Nat
          /\ \A i \in 1..Len(chain) :
                /\ chain[i].names \subseteq Seq(STRING)
                /\ \A c \in chain[i].nc.permitted \union chain[i].nc.excluded : c.n \in Seq(STRING)
                /\ \A c \in chain[i].nc.permitted : ~Contains(c.n, "*")

VARIABLES x5        \* [chain, roots, name, res]: one call of the verifier
x5vars == <<x5>>

Wild(p) == Len(p) > 1 /\ p[1] = "*"

\* dns_match: equal, or a pattern whose one wildcard stands for one whole label.
DnsMatch(name, p) ==
    \/ name = p
    \/ /\ Wild(p) /\ ~Contains(Tail(p), "*")
       /\ Len(name) = Len(p) /\ Tail(name) = Tail(p)

HostnameMatches(name, names) == \E p \in names : DnsMatch(name, p)

\* subdomain() of dns_name_matches_constraint, with or without a leading dot.
Below(name, c) ==
    Len(name) > Len(c.n) /\ SubSeq(name, Len(name) - Len(c.n) + 1, Len(name)) = c.n

\* dns_name_matches_constraint for an excluded subtree: a wildcard counts when any
\* name it stands for would.
ExcludedOneLabel(p, c) == c.dot /\ Tail(p) = c.n
ExcludedBelowNot(p, c) == FALSE
ExcludedBelow(p, c) == ~c.dot /\ Len(c.n) = Len(p) /\ Tail(c.n) = Tail(p)
ConstraintHits(p, c, excluded) ==
    IF c.n = <<>> THEN TRUE
    ELSE IF excluded /\ Wild(p)
    THEN \/ ~c.dot /\ Tail(p) = c.n
         \/ Below(Tail(p), c)
         \/ ExcludedBelow(p, c)
         \/ ExcludedOneLabel(p, c)
    ELSE IF c.dot THEN Below(p, c)
    ELSE p = c.n \/ Below(p, c)

\* NameConstraints::permits over the DNS names of one certificate.
Permits(nc, names) ==
    \A p \in names :
        /\ nc.permitted # {} => \E c \in nc.permitted : ConstraintHits(p, c, FALSE)
        /\ ~\E c \in nc.excluded : ConstraintHits(p, c, TRUE)

MaxChainLen == 10

\* verify_cert_signature: the issuer's key made the signature.
SignedBy(cert, issuer) == cert.signer = issuer.key

CertSigner(cert) == cert.ca /\ cert.usage # "leaf"
SelfIssued(cert) == cert.issuer = cert.subj

\* The CAs below position i that count against its pathLenConstraint.
CasBelow(chain, i) == Cardinality({j \in 2..(i - 1) : chain[j].ca /\ ~SelfIssued(chain[j])})

Anchored(chain, roots) == Last(chain) \in roots

\* Whether a root outside the chain signs its last certificate.
RootSigns(chain, roots) ==
    \E r \in roots :
        /\ Last(chain).issuer = r.subj /\ CertSigner(r)
        /\ SignedBy(Last(chain), r) /\ SelfIssued(r)

\* Which certificates the constraints of the CA at i are held against.
Subordinates(i) == 1..(i - 1)

ValidateChain(chain, roots) ==
    LET n == Len(chain)  anchored == Anchored(chain, roots)
    IN  /\ n > 0 /\ n <= MaxChainLen
        /\ \A i \in 1..n : chain[i].valid /\ ~chain[i].critical
        /\ \A i \in 1..(n - 1) : /\ chain[i].issuer = chain[i + 1].subj
                                 /\ SignedBy(chain[i], chain[i + 1])
        /\ \A i \in 2..n : CertSigner(chain[i])
        /\ \A i \in 2..(n - 1) : chain[i].pathlen >= 0 => CasBelow(chain, i) <= chain[i].pathlen
        /\ chain[1].usage # "ca"
        /\ IF anchored THEN SelfIssued(Last(chain)) \/ SignedBy(Last(chain), Last(chain))
           ELSE RootSigns(chain, roots)
        /\ chain[1].ca => n = 1 /\ anchored
        /\ \A i \in 2..n :
            (chain[i].nc.permitted \cup chain[i].nc.excluded # {} /\ ~(i = n /\ anchored)) =>
                \A j \in Subordinates(i) : Permits(chain[i].nc, chain[j].names)

\* What the client does with a chain: the name first, then the chain.
XValidate ==
    /\ x5.res = "none"
    /\ x5' = [x5 EXCEPT !.res = IF /\ HostnameMatches(x5.name, x5.chain[1].names)
                                   /\ ValidateChain(x5.chain, x5.roots)
                                THEN "accepted" ELSE "refused"]

X5Init == x5 \in [chain : X5Chains, roots : X5Roots, name : X5Names, res : {"none"}]
X5Next == XValidate
X5Spec == X5Init /\ [][X5Next]_x5vars

(* ------------------------------- properties ------------------------------- *)
\* The names in a subtree.
In(name, c) == c.n = <<>> \/ Below(name, c) \/ (~c.dot /\ name = c.n)

\* A host name is accepted only where every constrained CA above the leaf would
\* have it: whatever wildcard the leaf hides it behind, it is outside each
\* excluded subtree and inside a permitted one; and some trusted root vouches for
\* the path, through CAs alone.
NamesHonoured ==
    x5.res = "accepted" =>
        /\ \A i \in 2..Len(x5.chain) :
            ~(i = Len(x5.chain) /\ Anchored(x5.chain, x5.roots)) =>
                /\ \A c \in x5.chain[i].nc.excluded : ~In(x5.name, c)
                /\ x5.chain[i].nc.permitted # {} =>
                       \E c \in x5.chain[i].nc.permitted : In(x5.name, c)
        /\ \E r \in x5.roots : r = Last(x5.chain) \/ SignedBy(Last(x5.chain), r)
=============================================================================
