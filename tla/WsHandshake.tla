---------------------------- MODULE WsHandshake -----------------------------
(***************************************************************************)
(* courierust_ws::handshake, courierust_server::ws::plan and the client's  *)
(* connect_with: one opening handshake.  A client asks for a WebSocket,     *)
(* perhaps through trusted proxies that append to X-Forwarded-For; the      *)
(* server plans subprotocol and permessage-deflate, answers 101 or refuses; *)
(* the client validates the answer against what it offered.                 *)
(* Parameter values are numbers: None for a parameter without a value, Bad  *)
(* for one that is no window size.                                          *)
(***************************************************************************)
EXTENDS Integers, Sequences, SequencesExt, FiniteSets

CONSTANTS WhWindows,   \* window sizes of policies and offers, a subset of 8..15
          WhParams,    \* bound: parameters of an offer
          WhProtocols, \* subprotocols of the server, in its order of preference
          WhNets,      \* trusted networks: [addr, prefix] over WhWidth bits
          WhWidth,     \* width of an address
          WhForged,    \* bound: X-Forwarded-For entries the client sends itself
          WhProxies,   \* bound: trusted proxies on the way
          WhApart      \* bound: of offer, headers and path, one is out of the ordinary in one handshake

ASSUME WhAssumption ==
    /\ WhWindows \subseteq 8..15 /\ WhWindows # {} /\ {WhParams, WhForged, WhProxies, WhWidth} \subseteq Nat /\ WhApart \in BOOLEAN
    /\ WhProtocols \in Seq(STRING)

VARIABLE hs

whvars == <<hs>>

None == 0
Bad == 99
Addresses == 0..(2^WhWidth - 1)
Junk == -1                                 \* an X-Forwarded-For entry that is no address
ParamNames == {"server_no_context_takeover", "client_no_context_takeover",
               "server_max_window_bits", "client_max_window_bits"}
Valued == {"server_max_window_bits", "client_max_window_bits"}
Param == (ParamNames \union {"other"}) \X (WhWindows \union {None, Bad})
Policies == [server : WhWindows, client : WhWindows, prefer : BOOLEAN, advertise : BOOLEAN]
Defects == {"upgrade", "method", "http10", "version", "key", "protocol"}

-----------------------------------------------------------------------------
(* Who the client is *)

\* IpNet::contains: the first `prefix` bits agree; prefix 0 is every address.
NetContains(net, ip) ==
    net.prefix = 0 \/ net.addr \div 2^(WhWidth - net.prefix) = ip \div 2^(WhWidth - net.prefix)
is_trusted_proxy(ip) == \E net \in WhNets : NetContains(net, ip)

\* client_ip: the last entry of X-Forwarded-For that is an address and no trusted proxy.
\* get() returns the first line of the header, so req.xff is that line alone.
ForwardedFor(xff, else) ==
    LET real == {i \in DOMAIN xff : xff[i] # Junk /\ ~is_trusted_proxy(xff[i])}
    IN  IF real = {} THEN else ELSE xff[CHOOSE i \in real : \A j \in real : j <= i]
client_ip(req) ==
    IF ~is_trusted_proxy(req.peer) THEN req.peer
    ELSE ForwardedFor(req.xff, IF req.xreal \in Addresses THEN req.xreal ELSE req.peer)

\* effective_host and is_secure: the forwarded values count behind a trusted proxy only.
effective_host(req) == IF is_trusted_proxy(req.peer) /\ req.xhost # "none" THEN req.xhost ELSE req.host
is_secure(req) == req.tls \/ (is_trusted_proxy(req.peer) /\ req.xproto)

\* split_origin: a port that is the scheme's own is as good as none; OriginPolicy::check.
Port(o) == IF o.port = 0 THEN (IF o.secure THEN 443 ELSE 80) ELSE o.port
SameAs(a, b) == a.secure = b.secure /\ a.host = b.host /\ Port(a) = Port(b)
OriginOk(policy, origin, asked) ==
    CASE policy = "any" -> TRUE
      [] policy = "none" -> origin.host = "none"
      [] OTHER -> origin.host = "none" \/ SameAs(origin, asked)

-----------------------------------------------------------------------------
(* permessage-deflate *)

HasParam(params, name) == \E i \in DOMAIN params : params[i][1] = name
ParamOf(params, name) == params[CHOOSE i \in DOMAIN params : params[i][1] = name][2]
Least(a, b) == IF a < b THEN a ELSE b

\* parse_extension_value refuses a parameter given twice.
ParseOffer(params) == \A i, j \in DOMAIN params : params[i][1] = params[j][1] => i = j

\* PerMessageDeflate::negotiate: an undefined parameter, a value where none belongs or
\* a malformed one declines the offer.
Acceptable(params) ==
    \A i \in DOMAIN params :
       /\ params[i][1] \in ParamNames
       /\ params[i][1] \notin Valued => params[i][2] = None
       /\ params[i][2] # Bad
       /\ params[i][1] = "server_max_window_bits" => params[i][2] # None

\* Faulty variant: the policy's window is selected although the client did not offer it.
ClientWindowPolicy(params, policy) ==
    IF HasParam(params, "client_max_window_bits") /\ ParamOf(params, "client_max_window_bits") # None
    THEN Least(ParamOf(params, "client_max_window_bits"), policy.client) ELSE policy.client

\* The client's window: capped by the policy if the client can limit it, else 15.
ClientWindow(params, policy) ==
    IF ~HasParam(params, "client_max_window_bits") THEN 15
    ELSE IF ParamOf(params, "client_max_window_bits") = None THEN policy.client
    ELSE Least(ParamOf(params, "client_max_window_bits"), policy.client)
ServerWindow(params, policy) ==
    IF HasParam(params, "server_max_window_bits")
    THEN Least(ParamOf(params, "server_max_window_bits"), policy.server) ELSE policy.server
negotiate(params, policy) ==
    [server |-> ServerWindow(params, policy), client |-> ClientWindow(params, policy),
     server_fresh |-> HasParam(params, "server_no_context_takeover") \/ policy.prefer \/ policy.advertise,
     client_fresh |-> HasParam(params, "client_no_context_takeover") \/ policy.prefer]

\* response_header: a window of 15 is left out.
response_header(pm) ==
    (IF pm.server_fresh THEN <<<<"server_no_context_takeover", None>>>> ELSE <<>>)
    \o (IF pm.client_fresh THEN <<<<"client_no_context_takeover", None>>>> ELSE <<>>)
    \o (IF pm.server # 15 THEN <<<<"server_max_window_bits", pm.server>>>> ELSE <<>>)
    \o (IF pm.client # 15 THEN <<<<"client_max_window_bits", pm.client>>>> ELSE <<>>)

\* from_response: what the client refuses in an answer to its offer, and what it takes.
ResponseOk(offer, resp) ==
    /\ \A i \in DOMAIN resp : resp[i][1] \in ParamNames /\ (resp[i][1] \notin Valued => resp[i][2] = None)
    /\ \A n \in Valued : HasParam(resp, n) => ParamOf(resp, n) \in 8..15
    /\ HasParam(resp, "server_max_window_bits") /\ HasParam(offer, "server_max_window_bits")
       => ParamOf(resp, "server_max_window_bits") <= ParamOf(offer, "server_max_window_bits")
    /\ HasParam(resp, "client_max_window_bits") => HasParam(offer, "client_max_window_bits")
WindowOr15(params, n) == IF HasParam(params, n) /\ ParamOf(params, n) # None THEN ParamOf(params, n) ELSE 15
from_response(offer, resp) ==
    [server |-> WindowOr15(resp, "server_max_window_bits"),
     client |-> Least(WindowOr15(resp, "client_max_window_bits"),
                      IF HasParam(resp, "client_max_window_bits")
                      THEN WindowOr15(offer, "client_max_window_bits") ELSE 15),
     server_fresh |-> HasParam(resp, "server_no_context_takeover"),
     client_fresh |-> HasParam(resp, "client_no_context_takeover")]

-----------------------------------------------------------------------------
(* The handshake *)

NoReq == [compress |-> FALSE, offer |-> <<>>, protocols |-> <<>>, defect |-> "none", origin |-> [host |-> "none", secure |-> FALSE, port |-> 0],
          host |-> "h", tls |-> FALSE, peer |-> 0, xff |-> <<>>, xreal |-> Junk, xhost |-> "none", xproto |-> FALSE]
NoPlan == [status |-> 0, protocol |-> "none", compress |-> FALSE,
           pm |-> [server |-> 15, client |-> 15, server_fresh |-> FALSE, client_fresh |-> FALSE]]

WhInit ==
    /\ hs = [pc |-> "connect", req |-> NoReq, plan |-> NoPlan, got |-> NoPlan, client |-> 0,
             policy |-> CHOOSE p \in Policies : TRUE, origins |-> "same", seen |-> 0, apart |-> FALSE]

\* connect_with: what the client puts in its request, beginning with an offer.
Connect ==
    /\ hs.pc = "connect"
    /\ \E params \in BoundedSeq(Param, WhParams), compress \in BOOLEAN, policy \in Policies :
         /\ ~compress => params = <<>> /\ policy = hs.policy
         /\ hs' = [hs EXCEPT !.pc = "headers", !.policy = policy,
                     !.req = [NoReq EXCEPT !.compress = compress, !.offer = params]]

\* Its subprotocols and origin; a foreign client may leave out or spoil a field.
Headers ==
    /\ hs.pc = "headers"
    /\ \E protocols \in BoundedSeq(Range(WhProtocols) \union {"p9"}, 2), defect \in Defects \union {"none"},
          host \in {"none", "h", "other"}, port \in {0, 80, 81}, origins \in {"any", "none", "same"} :
         /\ WhApart /\ hs.req.compress => protocols = <<>> /\ defect = "none" /\ host = "none" /\ origins = "same"
         /\ host = "none" => port = 0
         /\ WhApart /\ defect # "none" => host = "none" /\ origins = "same"
         /\ hs' = [hs EXCEPT !.pc = "path", !.origins = origins,
                     !.req.protocols = protocols, !.req.defect = defect,
                     !.req.origin = [host |-> host, secure |-> FALSE, port |-> port]]

\* The client's own address, and forwarding headers it makes up.
Send ==
    /\ hs.pc = "path"
    /\ \E ip \in Addresses, xff \in BoundedSeq(Addresses \union {Junk}, WhForged), xreal \in {Junk, 0} :
         /\ ~is_trusted_proxy(ip)
         /\ WhApart /\ (hs.req.compress \/ hs.req.protocols # <<>>) => ip = 0 /\ xff = <<>> /\ xreal = Junk
         /\ hs' = [hs EXCEPT !.pc = "plan", !.client = ip, !.req.peer = ip, !.req.xff = xff, !.req.xreal = xreal]

\* A trusted proxy (external) forwards: it appends the address it saw, to the first line or
\* on a line of its own behind it (history: apart), and records host and scheme.
ForwardBy ==
    /\ hs.pc = "plan" /\ hs.seen < WhProxies /\ ~(WhApart /\ hs.req.compress)
    /\ \E ip \in Addresses, behind \in BOOLEAN :
         /\ is_trusted_proxy(ip) /\ (behind => hs.req.xff # <<>>)
         /\ hs' = [hs EXCEPT !.req.peer = ip, !.req.xff = IF behind THEN @ ELSE Append(@, hs.req.peer),
                             !.apart = @ \/ behind, !.seen = @ + 1,
                             !.req.xhost = hs.req.host, !.req.xproto = hs.req.tls]

\* plan, in its order of checks; the refusal carries the status.
Refusal(req, origins) ==
    CASE req.defect = "upgrade" -> 400
      [] req.defect = "method" -> 405
      [] req.defect = "http10" -> 400
      [] req.defect = "version" -> 426
      [] req.defect \in {"key", "protocol"} \/ (req.compress /\ ~ParseOffer(req.offer)) -> 400
      [] \E i, j \in DOMAIN req.protocols : i # j /\ req.protocols[i] = req.protocols[j] -> 400
      [] ~OriginOk(origins, req.origin, [host |-> effective_host(req), secure |-> is_secure(req), port |-> 0]) -> 403
      [] OTHER -> 0
Select(req) ==
    LET usable == {i \in DOMAIN WhProtocols : WhProtocols[i] \in Range(req.protocols)}
    IN  IF usable = {} THEN "none" ELSE WhProtocols[CHOOSE i \in usable : \A j \in usable : i <= j]
Plan ==
    /\ hs.pc = "plan"
    /\ hs' = IF Refusal(hs.req, hs.origins) # 0
             THEN [hs EXCEPT !.pc = "refused", !.plan.status = Refusal(hs.req, hs.origins)]
             ELSE [hs EXCEPT !.pc = "answer",
                     !.plan = [status |-> 101, protocol |-> Select(hs.req),
                               compress |-> hs.req.compress /\ Acceptable(hs.req.offer),
                               pm |-> IF hs.req.compress /\ Acceptable(hs.req.offer)
                                      THEN negotiate(hs.req.offer, hs.policy) ELSE NoPlan.pm]]

\* read_response_head, validate_response and the checks of connect_with.
ReadResponse ==
    /\ hs.pc = "answer"
    /\ LET resp == response_header(hs.plan.pm)
           ok == /\ hs.plan.protocol # "none" => hs.plan.protocol \in Range(hs.req.protocols)
                 /\ hs.plan.compress => hs.req.compress /\ ResponseOk(hs.req.offer, resp)
       IN  hs' = [hs EXCEPT !.pc = IF ok THEN "open" ELSE "failed",
                    !.got = [status |-> 101, protocol |-> hs.plan.protocol, compress |-> hs.plan.compress,
                             pm |-> IF hs.plan.compress THEN from_response(hs.req.offer, resp) ELSE NoPlan.pm]]

WhNext == Connect \/ Headers \/ Send \/ ForwardBy \/ Plan \/ ReadResponse

WhSpec == WhInit /\ [][WhNext]_whvars

-----------------------------------------------------------------------------
(* Properties *)

\* What the server answers to any offer, a client accepts, and the two then hold views
\* that work together: no compressor uses a longer window than the other side's inflater
\* keeps, and an inflater that forgets between messages faces a compressor that does.
NegotiationAgrees ==
    /\ hs.pc # "failed"
    /\ hs.pc = "open" =>
         /\ hs.got.pm.client <= hs.plan.pm.client /\ hs.plan.pm.server <= hs.got.pm.server
         /\ hs.plan.pm.client_fresh => hs.got.pm.client_fresh
         /\ hs.got.pm.server_fresh => hs.plan.pm.server_fresh

\* Behind trusted proxies that append what they saw to the first line of X-Forwarded-For,
\* the address the server takes for the client's is the client's, whatever forwarding
\* headers the client made up.  What a proxy wrote on a line behind it is not read
\* (handshake.rs:243), and then this does not hold.
ClientIpReal == hs.pc \in {"answer", "open"} /\ ~hs.apart => client_ip(hs.req) = hs.client

\* The opening handshake: both ends hold views that work together, and the server
\* knows who it speaks to.
HandshakeHonest == NegotiationAgrees /\ ClientIpReal
=============================================================================
