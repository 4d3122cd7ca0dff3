---------------------------- MODULE ProxyForward ----------------------------
(***************************************************************************)
(* What a request becomes on its way through reverse proxies               *)
(* (courierust_server/reverse_proxy.rs, forward() and websocket()): the    *)
(* route it takes, the target and the fields the upstream is sent, and the *)
(* answer.  The proxies stand in a chain, the upstream of one being the    *)
(* next; which upstream of a route is taken is Proxy's business.  A path   *)
(* is the sequence of its segments, "/a/" ending in an empty one.  Of Via  *)
(* and X-Forwarded-For a request carries the first line, which is the one  *)
(* get() reads; a proxy writes one line.                                   *)
(***************************************************************************)
EXTENDS Integers, Sequences, SequencesExt, FiniteSets

CONSTANTS PfHops,       \* proxies in the chain
          PfTrusted,    \* ways to set up the chain: per proxy the addresses it trusts (the client is 0, proxy h is h)
          PfRoutes,     \* per proxy: its routes in order, matcher and base
          PfRequests,   \* requests a client sends
          PfAnswers,    \* answers of the upstream behind the last proxy
          PfNames       \* hosts, path segments and field names

\* A path as it is configured: no empty segment but a last one.
PfPath == {p \in Seq(PfNames) : \A i \in 1..(Len(p) - 1) : p[i] # ""}
PfRoute == [host : PfNames, prefix : PfPath, base : PfPath, upgrade : BOOLEAN]
PfRequest == [path : Seq(PfNames), host : PfNames, ws : BOOLEAN, big : BOOLEAN, fields : SUBSET PfNames, nominated : SUBSET PfNames,
              via : Seq(Nat), xff : Seq(Nat)]
PfAnswer == [fields : SUBSET PfNames, nominated : SUBSET PfNames]

ASSUME PfAssumption ==
  /\ PfHops \in Nat \ {0} /\ (\A h \in 1..PfHops : PfRoutes[h] \in Seq(PfRoute)) /\ (\A q \in PfRequests : q \in PfRequest)
  /\ PfAnswers \subseteq PfAnswer
  /\ {"", "upstream", "connection", "upgrade", "host", "via", "x-forwarded-for", "x-forwarded-proto", "x-forwarded-host", "content-type"}
       \subseteq PfNames

VARIABLES pftrust,  \* trusted_peers of every proxy
          pfreq,    \* the request as it stands
          pfhop,    \* proxies passed
          pfstat,   \* "moving", "arrived" or the status answered
          pfscore,  \* what the slot of the proxy last at work was finished with
          pfpath,   \* history: per proxy the request it was sent and the route it took
          pfback    \* the answer: what it was from its maker on (history), and the proxies it has still to pass

pfvars == <<pftrust, pfreq, pfhop, pfstat, pfscore, pfpath, pfback>>

-----------------------------------------------------------------------------
(* Routes                                                                  *)

\* trim_end_matches('/')
Trimmed(path) == IF path # <<>> /\ Last(path) = "" THEN Front(path) ELSE path

\* prefix_match(): whole segments.
PrefixMatch(path, prefix) == IsPrefix(Trimmed(prefix), path)

Matches(r, req) == IF r.host # "" THEN req.host = r.host ELSE PrefixMatch(req.path, r.prefix)

\* The keys of max_by_key: a host is above any prefix, and prefixes stand by their length (of
\* those that match one path the one with more segments is longer, a last slash counting one).
Weight(prefix) == Len(Trimmed(prefix)) + Len(prefix)
KeyBelow(q, r) == q.host = "" /\ (r.host # "" \/ Weight(q.prefix) < Weight(r.prefix))

\* entry_for(): the highest key, and the last among equals.
EntryFor(routes, req) ==
  {i \in DOMAIN routes : Matches(routes[i], req) /\
     \A j \in DOMAIN routes : Matches(routes[j], req) => KeyBelow(routes[j], routes[i]) \/ (~KeyBelow(routes[i], routes[j]) /\ j <= i)}

\* target_path(): the base's path, then what follows the matched prefix.
TargetPath(r, req) ==
  LET rest == IF r.host # "" THEN req.path ELSE SubSeq(req.path, Len(Trimmed(r.prefix)) + 1, Len(req.path))
      base == Trimmed(r.base)
  IN IF rest = <<>> /\ base = <<>> THEN <<"">> ELSE base \o rest

-----------------------------------------------------------------------------
(* Fields                                                                  *)

HopByHop == {"connection", "keep-alive", "proxy-connection", "transfer-encoding", "upgrade", "proxy-authenticate",
             "proxy-authorization", "te", "trailer"}
Forwarding == {"host", "via", "x-forwarded-for", "x-forwarded-proto", "x-forwarded-host"}

\* is_hop_by_hop_for(), of a request or an answer
IsHopByHopFor(msg, name) == name \in HopByHop \/ ("connection" \in msg.fields /\ name \in msg.nominated)

\* is_upgrade()
IsUpgrade(req) == "upgrade" \in req.fields \/ ("connection" \in req.fields /\ "upgrade" \in req.nominated)

\* Faulty variant: whatever chain arrives is believed.
ForwardForAny(h, req) == Append(req.xff, h - 1)
\* X-Forwarded-For: the chain of a trusted peer is kept, and the peer's address appended.
ForwardFor(h, req) == (IF h - 1 \in pftrust[h] THEN req.xff ELSE <<>>) \o <<h - 1>>

\* What forward() puts into a request itself; the client adds Host.
Added(req) == {"via", "x-forwarded-for", "x-forwarded-proto", "host"} \cup (IF "host" \in req.fields THEN {"x-forwarded-host"} ELSE {})

\* The request forward() sends to the upstream.
Rewritten(h, r, req) ==
  [req EXCEPT !.path = TargetPath(r, req), !.host = "upstream", !.nominated = {},
              !.fields = {f \in @ : ~IsHopByHopFor(req, f) /\ f \notin Forwarding} \cup Added(req),
              !.via = Append(@, h), !.xff = ForwardFor(h, req)]

\* ws_options(): the fields of the WebSocket leg; no forwarding fields are added there.
WsRewritten(r, req) ==
  [req EXCEPT !.path = TargetPath(r, req), !.host = "upstream", !.nominated = {"upgrade"},
              !.fields = {f \in @ : ~IsHopByHopFor(req, f) /\ f \notin Forwarding} \cup {"connection", "upgrade", "host"},
              !.via = <<>>, !.xff = <<>>]

\* error(): an answer of the proxy's own.
ErrorAnswer == [fields |-> {"content-type"}, nominated |-> {}]

\* What to_client() lets through.
Filtered(ans) == [fields |-> {f \in ans.fields : ~IsHopByHopFor(ans, f)}, nominated |-> {}]

-----------------------------------------------------------------------------
PfInit ==
  /\ pftrust \in PfTrusted /\ pfreq \in PfRequests /\ pfhop = 0 /\ pfstat = "moving" /\ pfscore = "none" /\ pfpath = <<>>
  /\ pfback = [trail |-> <<>>, left |-> 0]

\* Proxy h answers with an error: the proxies before it pass that on.
FailAt(h, status) == pfstat' = status /\ pfback' = [trail |-> <<ErrorAnswer>>, left |-> h - 1]

\* forward() up to the client's execute_unmanaged(): each early return answers.  The slot of a
\* body that is too large is dropped unscored.
Forward(h) ==
  /\ pfstat = "moving" /\ pfhop = h - 1 /\ UNCHANGED pftrust /\ ~pfreq.ws
  /\ LET e == EntryFor(PfRoutes[h], pfreq) IN
     \/ e = {} /\ FailAt(h, "404") /\ UNCHANGED <<pfreq, pfhop, pfscore, pfpath>>
     \/ e # {} /\ IsUpgrade(pfreq) /\ FailAt(h, "501") /\ UNCHANGED <<pfreq, pfhop, pfscore, pfpath>>
     \/ e # {} /\ ~IsUpgrade(pfreq) /\ FailAt(h, "503") /\ UNCHANGED <<pfreq, pfhop, pfscore, pfpath>>   \* NoUpstream, AllBusy
     \/ e # {} /\ ~IsUpgrade(pfreq) /\ pfreq.big /\ FailAt(h, "413") /\ pfscore' = "dropped" /\ UNCHANGED <<pfreq, pfhop, pfpath>>
     \/ /\ e # {} /\ ~IsUpgrade(pfreq) /\ ~pfreq.big
        /\ \E i \in e : /\ pfreq' = Rewritten(h, PfRoutes[h][i], pfreq)
                        /\ pfpath' = Append(pfpath, [req |-> pfreq, route |-> i])
        /\ pfhop' = h /\ pfscore' = "held" /\ UNCHANGED pfback
        /\ pfstat' = IF h = PfHops THEN "arrived" ELSE "moving"

\* websocket(): a route that does not upgrade passes, and the server answers without it.
Upgrade(h) ==
  /\ pfstat = "moving" /\ pfhop = h - 1 /\ UNCHANGED <<pftrust, pfback>> /\ pfreq.ws
  /\ LET e == {i \in EntryFor(PfRoutes[h], pfreq) : PfRoutes[h][i].upgrade} IN
     \/ e = {} /\ pfstat' = "passed" /\ UNCHANGED <<pfreq, pfhop, pfscore, pfpath>>
     \/ e # {} /\ pfstat' = "503" /\ UNCHANGED <<pfreq, pfhop, pfscore, pfpath>>
     \/ /\ e # {} /\ \E i \in e : /\ pfreq' = WsRewritten(PfRoutes[h][i], pfreq)
                                  /\ pfpath' = Append(pfpath, [req |-> pfreq, route |-> i])
        /\ pfhop' = h /\ pfscore' = "held"
        /\ pfstat' = IF h = PfHops THEN "arrived" ELSE "moving"

\* The upstream behind the last proxy answers a request, or takes or fails an upgrade (whose
\* answers the servers' own handshakes make, see WsHandshake).
Answered ==
  /\ pfstat = "arrived"
  /\ \/ ~pfreq.ws /\ pfstat' = "answer" /\ UNCHANGED pfscore /\ \E a \in PfAnswers : pfback' = [trail |-> <<a>>, left |-> PfHops]
     \/ pfreq.ws /\ pfstat' = "502" /\ pfscore' = "failed" /\ UNCHANGED pfback
     \/ pfreq.ws /\ pfstat' = "answer" /\ pfscore' = "reached" /\ UNCHANGED pfback
  /\ UNCHANGED <<pftrust, pfreq, pfhop, pfpath>>

\* The rest of forward(): a transport failure counts against the upstream, an answer of any
\* status or size does not, though to_client() may fail on its body.
ToClient(h) ==
  /\ pfback.left = h /\ UNCHANGED <<pftrust, pfreq, pfhop, pfpath>>
  /\ \/ FailAt(h, "502") /\ pfscore' \in {"failed", "reached"}
     \/ /\ pfback' = [trail |-> Append(pfback.trail, Filtered(Last(pfback.trail))), left |-> h - 1]
        /\ pfscore' = "reached" /\ UNCHANGED pfstat

PfNext == Answered \/ \E h \in 1..PfHops : Forward(h) \/ Upgrade(h) \/ ToClient(h)

PfSpec == PfInit /\ [][PfNext]_pfvars

-----------------------------------------------------------------------------
(***************************************************************************)
(* What the upstream is told can be relied on.  The end of                 *)
(* X-Forwarded-For is the addresses the proxies saw, back to the last one  *)
(* that did not trust its peer, and only a chain of trust keeps what the   *)
(* client wrote; a field that no proxy added was in every request on the   *)
(* way, and in none was it one of that connection, listed or named by      *)
(* Connection; Via has an entry for every proxy passed since the client's  *)
(* own.  (An upgrade is left out of this: its leg carries neither field.)  *)
(* What the client is answered holds, of the fields the answer was made    *)
(* with, only those that belong to no connection on the way back; trailers *)
(* pass as they are.  A route is taken for the request's host, or by whole *)
(* segments, when no host and no prefix of more segments would have        *)
(* matched.                                                                *)
(***************************************************************************)
\* What a segment-wise reading says of a path under a prefix.
Under(path, prefix) == \A i \in 1..Len(Trimmed(prefix)) : i <= Len(path) /\ path[i] = prefix[i]

\* The proxies that did not trust their peer, and the addresses seen from the last of them on.
Doubters(trust, n) == {h \in 1..n : h - 1 \notin trust[h]}
LastDoubter(trust, n) == CHOOSE h \in Doubters(trust, n) : \A g \in Doubters(trust, n) : g <= h
SeenFrom(trust, n) == IF Doubters(trust, n) = {} THEN 0 ELSE LastDoubter(trust, n) - 1
SeenBy(trust, n) == [i \in 1..(n - SeenFrom(trust, n)) |-> SeenFrom(trust, n) + i - 1]

\* What a proxy puts into a request itself.
AddedTo(req) == IF req.ws THEN {"connection", "upgrade", "host"} ELSE Forwarding

\* Every field of the answer as it stands was in each form it had, and was none of that connection.
AnswerClean ==
  \A i \in DOMAIN pfback.trail : i < Len(pfback.trail) =>
     \A f \in Last(pfback.trail).fields : f \in pfback.trail[i].fields /\ ~IsHopByHopFor(pfback.trail[i], f)

ForwardHonest ==
  /\ AnswerClean
  /\ pfhop > 0 /\ ~pfreq.ws =>
       /\ IsSuffix(SeenBy(pftrust, pfhop), pfreq.xff)
       /\ Doubters(pftrust, pfhop) # {} => pfreq.xff = SeenBy(pftrust, pfhop)
       /\ Len(pfreq.via) >= pfhop
  /\ \A h \in 1..pfhop :
       LET asked == pfpath[h].req
           r == PfRoutes[h][pfpath[h].route]
       IN /\ \A f \in pfreq.fields \ AddedTo(pfreq) : f \in asked.fields /\ ~IsHopByHopFor(asked, f)
          /\ r.host \in {"", asked.host}
          /\ r.host = "" => /\ Under(asked.path, r.prefix)
                            /\ \A q \in ToSet(PfRoutes[h]) :
                                 IF q.host = "" THEN Under(asked.path, q.prefix) => Len(Trimmed(q.prefix)) <= Len(Trimmed(r.prefix))
                                                ELSE q.host # asked.host
=============================================================================
