------------------------------- MODULE MCWire -------------------------------
(***************************************************************************)
(* What travels, and what the two ends make of it: the fifteen machines    *)
(* that read, write or forward one message, record or packet at a time.    *)
(* They share no state, `part' says which of them moves.                   *)
(*   shake, session, deflate   WebSocket: opening, frames, compression     *)
(*   hpack, qpack, message     header compression, HTTP/3 messages         *)
(*   block                     HTTP/2 frames, header blocks and messages   *)
(*   tls, record, chain        handshakes, records, certificate chains     *)
(*   keys, connect, quictls    QUIC: protection, the endpoint, handshakes  *)
(*   cookies, proxy            the client's jar, a chain of proxies        *)
(***************************************************************************)
EXTENDS WsHandshake, WsSession, Deflate, HeaderTables, H3Message, H2Message, TlsHandshake, TlsRecord,
        QuicKeys, QuicConnect, QuicTls, Cookies, ProxyForward

CONSTANT Parts  \* the parts a run looks at

VARIABLE part

mcvars == <<part, whvars, wsvars, dfvars, hpvars, qpvars, hmvars, hbvars, tlvars,
            trvars, x5vars, qkvars, qcvars, qtvars, ckvars, pfvars>>

AllParts == {"shake", "session", "deflate", "hpack", "qpack", "message", "block", "tls", "record", "chain", "keys",
             "connect", "quictls", "cookies", "proxy"}

Still(q) ==
    CASE q = "shake" -> UNCHANGED whvars
      [] q = "session" -> UNCHANGED wsvars
      [] q = "deflate" -> UNCHANGED dfvars
      [] q = "hpack" -> UNCHANGED hpvars
      [] q = "qpack" -> UNCHANGED qpvars
      [] q = "message" -> UNCHANGED hmvars
      [] q = "block" -> UNCHANGED hbvars
      [] q = "tls" -> UNCHANGED tlvars
      [] q = "record" -> UNCHANGED trvars
      [] q = "chain" -> UNCHANGED x5vars
      [] q = "keys" -> UNCHANGED qkvars
      [] q = "connect" -> UNCHANGED qcvars
      [] q = "quictls" -> UNCHANGED qtvars
      [] q = "cookies" -> UNCHANGED ckvars
      [] q = "proxy" -> UNCHANGED pfvars

Only(p, A) == part = p /\ A /\ UNCHANGED part /\ \A q \in AllParts \ {p} : Still(q)

-----------------------------------------------------------------------------
(* Values of the constants *)

(* ---- WebSocket ---- *)
NoClose == [size |-> 0, code |-> 0, utf8 |-> TRUE]
F(op, fin, body) ==
    WriteHeader([op |-> op, fin |-> fin, rsv1 |-> FALSE, masked |-> TRUE, len |-> Len(body)])
    @@ [body |-> body, close |-> NoClose]
Closing(size, code, utf8) ==
    [F(Close, TRUE, [i \in 1..size |-> 3]) EXCEPT !.close = [size |-> size, code |-> code, utf8 |-> utf8]]

\* The two halves of a character; whole bodies of four bytes and of a surrogate are below.
Bodies == {<<195>>, <<169>>}

\* The frames of a peer: messages in fragments, compressed ones (rsv1), control
\* frames, and headers that break one rule each.
Sent ==
    {F(op, fin, b) : op \in {Text, Continuation}, fin \in BOOLEAN, b \in Bodies}
    \cup {F(Text, TRUE, <<240, 144, 128, 128>>), F(Text, TRUE, <<237, 160>>), F(Binary, FALSE, <<195>>), F(Ping, TRUE, <<65>>), F(Pong, TRUE, <<>>), F(Text, FALSE, <<>>)}
    \cup {Closing(1, 0, TRUE), Closing(2, 1000, TRUE), Closing(2, 1005, TRUE), Closing(2, 1000, FALSE)}
    \cup {F(3, TRUE, <<>>), F(Ping, FALSE, <<>>), F(Ping, TRUE, <<65, 65, 65>>),
          [F(Text, TRUE, <<65>>) EXCEPT !.masked = FALSE], [F(Text, TRUE, <<65>>) EXCEPT !.rsv2 = TRUE],
          [F(Text, TRUE, <<65>>) EXCEPT !.len7 = WsSmall + 1], [F(Text, TRUE, <<65>>) EXCEPT !.len7 = WsSmall + 2],
          [F(Ping, TRUE, <<65>>) EXCEPT !.rsv1 = TRUE], [F(Continuation, TRUE, <<65>>) EXCEPT !.rsv1 = TRUE]}
    \cup {[F(Text, fin, b) EXCEPT !.rsv1 = TRUE] : fin \in BOOLEAN, b \in {<<65, 3>>, <<195, 1>>}}

\* Addresses 2 and 3 are the trusted proxies.
Proxies == {[addr |-> 2, prefix |-> 2]}
Preference == <<"p1", "p2">>

(* ---- header compression ---- *)
\* HPACK: fields in and out of the static table, one of size two, one never indexed.
MCBlocks == {<<<<"a", 1>>>>, <<<<"b", 1>>, <<"a", 2>>>>, <<<<"s", 1>>, <<"c", 1>>, <<"s", 2>>>>, <<<<"w", 1>>, <<"a", 3>>>>}
MCSize == [n \in {"a", "b", "c", "s", "w"} |-> IF n = "w" THEN 2 ELSE 1]
MCStatic == <<<<"s", 1>>, <<"a", 0>>>>
\* QPACK: sections sent while the encoder stream lags, and a table that holds one entry only.
MCRace == [secs |-> {<<<<"b", 1>>>>, <<<<"b", 2>>, <<"a", 1>>>>, <<<<"s", 1>>, <<"b", 1>>, <<"n", 1>>>>}, max |-> 3]
MCEvict == [secs |-> {<<<<"b", 1>>>>, <<<<"b", 2>>>>, <<<<"a", 1>>>>}, max |-> 3]
MCStaticField == {<<"s", 1>>}

\* HTTP/3: the fields of each kind of message and one of the other.
MCFields == [side \in {"request", "response", "head"} |->
               CASE side = "request" -> {"x", "len1", "method", "status1", "path", "https"}
                 [] side = "response" -> {"x", "len1", "method", "status1", "status2", "status304"}
                 [] side = "head" -> {"x", "len0", "len1", "status2"}]

(* ---- HTTP/2 frames: those towards either end, a server, a client, and malformed ones ---- *)
Fr(k, sid, len) == [k |-> k, sid |-> sid, len |-> len, pad |-> -1, prio |-> FALSE, end |-> FALSE, eh |-> TRUE, block |-> <<>>, value |-> 1, ack |-> FALSE]
Block(fs, end, eh) == [Fr("headers", 1, Len(fs)) EXCEPT !.block = fs, !.end = end, !.eh = eh]
Fragment(sid, fs, eh) == [Fr("continuation", sid, Len(fs)) EXCEPT !.block = fs, !.eh = eh]
Ask == <<"GET", "scheme", "path">>
OneField == {Fragment(1, <<f>>, eh) : f \in HbPseudo \cup {"x", "te", "tebad", "connection", "ctl", "len0", "len1", "lenbad"}, eh \in BOOLEAN}
ToEither ==
  {Block(fs, end, eh) : fs \in {<<>>, <<"x">>}, end \in BOOLEAN, eh \in BOOLEAN} \cup OneField
  \cup {Fragment(3, <<"x">>, TRUE), Fr("ping", 0, 8), Fr("priority_update", 0, 4), [Fr("data", 1, 3) EXCEPT !.pad = 1, !.end = TRUE]}
  \cup {[Fr("data", 1, n) EXCEPT !.end = e] : n \in {0, 1}, e \in BOOLEAN}
MCGood ==
  [client \in BOOLEAN |-> ToEither \cup
    IF client
    THEN {Block(fs, end, TRUE) : fs \in {<<"s200">>, <<"s100">>, <<"s204", "len1">>, <<"s200", "len1">>, <<"s200", "len0">>}, end \in BOOLEAN}
         \cup {[Block(<<"s200">>, FALSE, TRUE) EXCEPT !.sid = 3]}
    ELSE {Block(fs, end, TRUE) : fs \in {Ask, Ask \o <<"len1">>, <<"HEAD", "scheme", "path", "len1">>, <<"CONNECT", "auth">>}, end \in BOOLEAN}
         \cup {Block(fs, FALSE, FALSE) : fs \in {<<"GET">>, <<"GET", "scheme">>, Ask}}
         \cup {[Block(Ask, TRUE, TRUE) EXCEPT !.len = 9, !.prio = TRUE, !.pad = 0]}]
BadForStream == {Fr("priority", 1, 4), [Fr("window_update", 1, 4) EXCEPT !.value = 0]}
BadForAll ==
  {[Fr("window_update", 0, 4) EXCEPT !.value = 0], Fr("window_update", 1, 3), Fr("priority", 0, 5), Fr("data", 0, 1), Fr("ping", 1, 8),
   Fr("ping", 0, 7), [Fr("settings", 0, 6) EXCEPT !.ack = TRUE], Fr("settings", 0, 5), Fr("rst", 1, 3), Fr("goaway", 0, 7),
   [Fr("data", 1, 2) EXCEPT !.pad = 2], [Block(Ask, TRUE, TRUE) EXCEPT !.pad = 4, !.len = 4], Fr("push", 1, 4), Fr("unknown", 1, 13)}
MCBad == [f : BadForStream, scope : {"stream"}] \cup [f : BadForAll, scope : {"connection"}]
MCReaders == {[client |-> FALSE, head |-> FALSE], [client |-> TRUE, head |-> FALSE], [client |-> TRUE, head |-> TRUE]}

(* ---- the configurations of the handshakes ---- *)
Client(v, id, kt) ==
    [min |-> v[1], max |-> v[2], alpn |-> <<"h2", "h1">>, ident |-> id, kt |-> kt, share |-> TRUE]
Server(v, alpn, kt, cert, auth, key) ==
    [min |-> v[1], max |-> v[2], alpn |-> alpn, kt |-> kt, cert |-> cert, auth |-> auth, key |-> key]
Versions == {<<12, 12>>, <<12, 13>>, <<13, 13>>}
MCClients ==
    {Client(v, i[1], i[2]) : v \in Versions, i \in {<<"none", "rsa">>, <<"ok", "rsa">>,
                                                    <<"ok", "p384">>, <<"bad", "ed">>}}
    \cup {[Client(<<13, 13>>, "ok", "ed") EXCEPT !.share = FALSE, !.alpn = <<>>]}
MCServers ==
    {Server(v, <<"h1", "h2">>, kt, "ok", a, k) :
        v \in Versions, kt \in {"rsa", "p384"}, a \in {"none", "optional", "required"}, k \in {0, 1}}
    \cup {Server(<<12, 13>>, a, kt, ce, "none", 1) :
        a \in {<<>>, <<"h2">>}, kt \in {"p256", "ed", "p521"}, ce \in {"ok", "bad"}}
    \cup {Server(<<12, 12>>, <<"h2">>, kt, "ok", "none", 1) : kt \in {"p256", "ed", "p521"}}
MCRestarts ==
    {Server(v, <<"h2">>, kt, "ok", a, k) :
        v \in Versions, kt \in {"rsa", "p384"}, a \in {"none", "required"}, k \in {1, 2}}

(* ---- the bounds of the records ---- *)
MCWrites == [e \in Ends |-> IF e = "client" THEN 2 ELSE 0]
MCBurst == [e \in Ends |-> 2]
MCAsks == [e \in Ends |-> IF e = "client" THEN 0 ELSE 1]

(* ---- the chains: names of two to four labels under one top label ---- *)
Hosts ==
    {<<x, "c">> : x \in {"a", "b"}} \cup {<<x, y, "c">> : x \in {"a", "b"}, y \in {"a", "b"}}
    \cup {<<"a", "a", "b", "c">>}
Patterns == Hosts \cup {<<"*">> \o n : n \in {<<"c">>, <<"a", "c">>, <<"b", "c">>, <<"a", "b", "c">>}}
Subtrees == [dot : BOOLEAN, n : Hosts \cup {<<"c">>, <<>>}]
Free == [permitted |-> {}, excluded |-> {}]
Constraints ==
    {Free} \cup {[Free EXCEPT !.permitted = {c}] : c \in Subtrees}
    \cup {[Free EXCEPT !.excluded = {c}] : c \in Subtrees}
Certificate(subj, issuer, key, signer, ca, usage, pathlen, names, nc) ==
    [subj |-> subj, issuer |-> issuer, key |-> key, signer |-> signer, ca |-> ca, usage |-> usage,
     pathlen |-> pathlen, names |-> names, nc |-> nc, valid |-> TRUE, critical |-> FALSE]
Root == Certificate("R", "R", "kr", "kr", TRUE, "any", -1, {}, Free)
Intermediates ==
    {Certificate("I", "R", "ki", "kr", TRUE, "any", 0, {}, nc) : nc \in Constraints}
    \cup {Certificate("I", "R", "ki", "kr", ca, u, -1, {}, Free) :
            ca \in BOOLEAN, u \in {"any", "ca", "leaf"}}
Below1 == Certificate("J", "I", "ki", "ki", TRUE, "ca", -1, {}, Free)
Leaves ==
    {Certificate("L", "I", "kl", g, ca, u, -1, {<<"a", "c">>}, Free) :
        g \in {"ki", "kx"}, ca \in BOOLEAN, u \in {"any", "leaf", "ca"}}
    \cup {Certificate("L", "I", "kl", "ki", FALSE, "leaf", -1, {p}, Free) : p \in Patterns}
MCChains ==
    {<<l, i>> : l \in Leaves, i \in Intermediates}
    \cup {<<l, i, Root>> : l \in {x \in Leaves : x.usage = "leaf"}, i \in Intermediates}
    \cup {<<[l EXCEPT !.issuer = "J"], Below1, i>> :
            l \in {x \in Leaves : x.usage = "leaf"}, i \in {x \in Intermediates : x.nc = Free}}
    \cup {<<[l EXCEPT !.valid = FALSE], i>> : l \in Leaves, i \in {x \in Intermediates : x.nc = Free}}
    \cup {<<Root>>}
MCRoots == {{Root}, {}}
MCNames == Hosts

(* ---- the initial state of the parts that do not move ---- *)
MCTlsConf == [c |-> Client(<<13, 13>>, "none", "rsa"), s |-> Server(<<13, 13>>, <<"h1", "h2">>, "rsa", "ok", "none", 0)]
MCQuicConf == [verify |-> TRUE, calpn |-> {"h3"}, salpn |-> {"h3"}, cert |-> "good", data |-> 1, udp |-> 1200, retry |-> FALSE]
MCPlainRequest ==
    [path |-> <<"a">>, host |-> "h0", ws |-> FALSE, big |-> TRUE, fields |-> {"host"}, nominated |-> {}, via |-> <<>>, xff |-> <<>>]

(* ---- cookies: two hosts of one domain and an address ---- *)
MCJarHosts == {<<"a", "x">>, <<"b", "x">>, <<"1", "x">>}
MCIps == {<<"1", "x">>}
MCJarLimits == {[all |-> 2, host |-> 2], [all |-> 3, host |-> 1]}
MCPaths == {<<"/">>, <<"/", "p">>, <<"/", "p", "/", "q">>, <<"/", "p", "x">>, <<"/", "p", "?", "/">>}
Attr(k, v) == [key |-> k, val |-> v]
Field(n, v, as) == [name |-> n, value |-> v, big |-> FALSE, attrs |-> as]
MCSetCookies == {Field("n", "v", <<>>), [Field("n", "v", <<Attr("max-age", 0)>>) EXCEPT !.big = TRUE], Field("n", "v", <<Attr("path", <<"/", "p">>), Attr("domain", <<>>)>>),
         Field("n", "w", <<Attr("domain", <<"x">>), Attr("path", <<"/", "p">>), Attr("expires", <<2>>)>>),
         Field("n", "v", <<Attr("path", <<"/", "p">>), Attr("expires", <<2>>), Attr("max-age", 0)>>),
         Field("n", "w", <<Attr("domain", <<"x">>), Attr("expires", <<1>>), Attr("expires", Never)>>),
         Field("m", "v", <<Attr("secure", <<>>), Attr("domain", <<"a", "x">>), Attr("max-age", 1), Attr("expires", <<0>>)>>)}

(* ---- a chain of three proxies ---- *)
Rt(host, prefix, base, up) == [host |-> host, prefix |-> prefix, base |-> base, upgrade |-> up]
MCTexts == STRING
MCTrust == [1..3 -> {{}, {0, 1, 2}}]
MCAnswers == {[fields |-> {"connection", "trailer", "x-private", "content-type"}, nominated |-> n] : n \in {{"x-private"}, {"close"}}}
MCRoutes == [h \in 1..3 |-> IF h = 1 THEN <<Rt("", <<"a">>, <<"b", "">>, TRUE), Rt("", <<"">>, <<"">>, FALSE), Rt("h1", <<>>, <<"c">>, FALSE), Rt("", <<"a", "">>, <<"">>, TRUE)>>
                         ELSE IF h = 2 THEN <<Rt("", <<"b">>, <<"a">>, TRUE), Rt("", <<"">>, <<"">>, TRUE)>> ELSE <<Rt("", <<"">>, <<"x">>, TRUE)>>]
MCRequests == [path : {<<"">>, <<"a">>, <<"ax", "b">>, <<"a", "b">>, <<"a", "">>}, host : {"h0", "h1"}, ws : BOOLEAN, big : {FALSE},
             fields : {{"host", "connection", "x-private", "te"}, {"host", "x-forwarded-for", "via"}, {"host", "connection", "upgrade", "x-private"}},
             nominated : {{"x-private"}, {"x-private", "upgrade"}}, via : {<<>>, <<9>>}, xff : {<<>>, <<7, 1>>}]
          \cup [path : {<<"a">>}, host : {"h0"}, ws : {FALSE}, big : {TRUE}, fields : {{"host"}}, nominated : {{}}, via : {<<>>}, xff : {<<>>}]

\* A part that does not move starts in one state.
Init ==
    /\ part \in Parts
    /\ WhInit /\ WsInit /\ HpInit /\ QkInit
    /\ CkInit /\ (part # "cookies" => cklimits.all = 2)
    /\ DfInit /\ (part # "deflate" => huff = <<>> /\ inflater.cap = 8)
    /\ QpInit /\ (part # "qpack" => qpw.mode = "race")
    /\ HmInit /\ (part # "message" => hmside = "request")
    /\ HbInit /\ (part # "block" => hbrole.client /\ hbrole.head)
    /\ TrInit /\ (part # "record" => trVer = 13)
    /\ QcInit /\ (part # "connect" => qcc.addr = CHOOSE a \in QcAddrs : TRUE)
    /\ QtInit /\ (part # "quictls" => qtconf = MCQuicConf)
    /\ IF part = "tls" THEN TRUE ELSE tlCfg = MCTlsConf
    /\ TlInit
    /\ IF part = "chain" THEN X5Init
       ELSE x5 = [chain |-> <<Root>>, roots |-> {}, name |-> <<"a", "c">>, res |-> "none"]
    /\ IF part = "proxy" THEN TRUE ELSE pftrust = [h \in 1..PfHops |-> {}] /\ pfreq = MCPlainRequest
    /\ PfInit

Next ==
    \/ Only("shake", WhNext) \/ Only("session", WsNext) \/ Only("deflate", DfNext)
    \/ Only("hpack", HpNext) \/ Only("qpack", QpNext) \/ Only("message", HmNext)
    \/ Only("block", HbNext)
    \/ Only("tls", TlNext) \/ Only("record", TrNext) \/ Only("chain", X5Next)
    \/ Only("keys", QkNext) \/ Only("connect", QcNext) \/ Only("quictls", QtNext)
    \/ Only("cookies", CkNext) \/ Only("proxy", PfNext)

Spec == Init /\ [][Next]_mcvars

-----------------------------------------------------------------------------
\* Header compression: whatever the order of table updates, settings and sections, a
\* decoder returns the fields the encoder was given (HeaderTables).
FieldsDecode == TablesAgree /\ SectionsDecode

\* Header blocks and bodies: over HTTP/3 and over HTTP/2 a message reaches the application
\* exactly when its frames are one (H3Message, H2Message).
MessagesKept == MessagesExact /\ BlocksExact

=============================================================================
