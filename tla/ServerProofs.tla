---------------------------- MODULE ServerProofs ----------------------------
(***************************************************************************)
(* Proofs about the server's life (ServerRun), one connection of the       *)
(* blocking driver (H1Serve), the reverse proxy's upstreams (Proxy), one   *)
(* connection of the event-driven driver (EventConn) and what a request    *)
(* becomes on its way through proxies (ProxyForward), for every value of   *)
(* their constants.                                                        *)
(***************************************************************************)
EXTENDS ServerRun, EventConn, H1Serve, Proxy, ProxyForward, FiniteSetTheorems, TLAPS

-----------------------------------------------------------------------------
(* ServerRun: permits *)

Jobs == {"none", "waiting", "queued", "running", "refused", "dropped", "served", "panicked"}

RunTypes ==
    /\ srv \in [mode : {"event", "blocking"},
                pc : {"setup", "wake", "listen", "accept", "join", "drop", "await", "returned", "failed"},
                reactor : {"none", "top", "poll", "gone"}, worker : {"none", "recv", "gone"},
                idle : {"parked", "told", "asleep"}]
    /\ stop \in [requested : BOOLEAN, reactor_wake : BOOLEAN, listener : BOOLEAN, woke : BOOLEAN,
                 pc : [SrStoppers -> {"idle", "connect", "done"}]]
    /\ backlog \in Seq(Conns)
    /\ job \in [Conns -> Jobs]
    /\ active \in Nat

\* What the listener still holds is a client's first connection, once, or the
\* connection of a stop, which follows the flag.
BacklogInv ==
    /\ \A t \in SrStoppers : stop.pc[t] = "connect" => stop.requested
    /\ \A i \in DOMAIN backlog :
          IF backlog[i] = WAKE THEN stop.requested ELSE job[backlog[i]] = "waiting"
    /\ \A i, j \in DOMAIN backlog : backlog[i] = backlog[j] /\ i # j => backlog[i] = WAKE

RunInv == RunTypes /\ BacklogInv /\ PermitsExact

Holders == {c \in Conns : Held(c)}

\* The connections that hold a permit are finitely many.
LEMMA HoldersFinite ==
    /\ IsFiniteSet(Holders) /\ Cardinality(Holders) \in Nat
    /\ IsFiniteSet(Holders') /\ Cardinality(Holders') \in Nat
<1>1. IsFiniteSet(Conns)
  BY SrAssumption, FS_AddElement DEF Conns
<1>2. Holders \subseteq Conns /\ Holders' \subseteq Conns
  BY DEF Holders
<1> QED BY <1>1, <1>2, FS_Subset, FS_CardinalityType

\* A step that leaves the jobs and the mode alone leaves the permits alone.
LEMMA SameHolders ==
    ASSUME PermitsExact, srv'.mode = srv.mode, UNCHANGED <<job, active>>
    PROVE  PermitsExact'
BY DEF PermitsExact, Held

\* A step of the server thread, the reactor or its worker that touches no connection.
LEMMA ThreadStep ==
    ASSUME RunInv,
           \/ Setup \/ InstallWake \/ InstallListener \/ Join \/ DropPool
           \/ ReactorTurn \/ ReactorPoll \/ WorkerEnds \/ SpuriousWake
    PROVE  RunInv'
<1> USE DEF RunInv
<1>1. /\ UNCHANGED <<backlog, job, active>>
      /\ srv'.mode = srv.mode /\ stop'.pc = stop.pc /\ stop'.requested = stop.requested
  BY DEF RunTypes, Setup, InstallWake, InstallListener, Join, ReactorTurn, ReactorPoll, WorkerEnds, DropPool, SpuriousWake, SrGoto
<1>2. srv' \in [mode : {"event", "blocking"},
                pc : {"setup", "wake", "listen", "accept", "join", "drop", "await", "returned", "failed"},
                reactor : {"none", "top", "poll", "gone"}, worker : {"none", "recv", "gone"},
                idle : {"parked", "told", "asleep"}]
  BY ZenonT(60) DEF RunTypes, Setup, InstallWake, InstallListener, Join, ReactorTurn, ReactorPoll, WorkerEnds, DropPool, SpuriousWake, SrGoto
<1>3. stop' \in [requested : BOOLEAN, reactor_wake : BOOLEAN, listener : BOOLEAN, woke : BOOLEAN,
                 pc : [SrStoppers -> {"idle", "connect", "done"}]]
  BY DEF RunTypes, Setup, InstallWake, InstallListener, Join, ReactorTurn, ReactorPoll, WorkerEnds, DropPool, SpuriousWake
<1>4. RunTypes'
  BY <1>1, <1>2, <1>3 DEF RunTypes
<1>5. BacklogInv'
  BY <1>1 DEF BacklogInv
<1>6. PermitsExact'
  BY <1>1, SameHolders
<1> QED BY <1>4, <1>5, <1>6

\* The accept loop: what it takes is a client that holds nothing yet, or a stop has
\* been requested and it leaves.
LEMMA AcceptStep ==
    ASSUME RunInv, Accept
    PROVE  RunInv'
<1> USE DEF RunInv
<1> DEFINE c == Head(backlog)
<1>1. backlog \in Seq(Conns) /\ backlog # <<>> /\ backlog' = Tail(backlog)
  BY DEF RunTypes, Accept
<1>2. c \in Conns /\ c = backlog[1] /\ 1 \in DOMAIN backlog
  BY <1>1
<1>3. \A i \in DOMAIN backlog' : i + 1 \in DOMAIN backlog /\ backlog'[i] = backlog[i + 1] /\ i + 1 # 1 /\ i \in Nat
  BY <1>1
<1>4. backlog' \in Seq(Conns)
  BY <1>1
<1>5. stop' = stop
  BY DEF Accept
<1>6. ~stop.requested => c # WAKE /\ job[c] = "waiting"
  BY <1>2 DEF BacklogInv
<1>7. \A i \in DOMAIN backlog' : backlog'[i] = WAKE => stop.requested
  BY <1>3 DEF BacklogInv
<1>8. \A i \in DOMAIN backlog' : backlog'[i] # WAKE => backlog'[i] # c /\ job[backlog'[i]] = "waiting"
  BY <1>2, <1>3 DEF BacklogInv
<1>9. \A i, j \in DOMAIN backlog' : backlog'[i] = backlog'[j] /\ i # j => backlog'[i] = WAKE
  BY <1>3 DEF BacklogInv
<1>10. CASE stop.requested /\ SrGoto("join") /\ UNCHANGED <<job, active>>
  <2>1. RunTypes'
    BY <1>4, <1>5, <1>10 DEF RunTypes, SrGoto
  <2>2. BacklogInv'
    BY <1>5, <1>7, <1>8, <1>9, <1>10 DEF BacklogInv
  <2>3. srv'.mode = srv.mode
    BY <1>10 DEF RunTypes, SrGoto
  <2> QED BY <1>10, <2>1, <2>2, <2>3, SameHolders
<1>11. ASSUME ~stop.requested, NEW st \in {"queued", "refused"}, job' = [job EXCEPT ![c] = st]
       PROVE  BacklogInv' /\ job' \in [Conns -> Jobs]
  <2>1. \A d \in Conns \ {c} : job'[d] = job[d]
    BY <1>11 DEF RunTypes
  <2>2. \A i \in DOMAIN backlog' : backlog'[i] \in Conns
    BY <1>4
  <2>3. job' \in [Conns -> Jobs]
    BY <1>2, <1>11 DEF RunTypes, Jobs
  <2> QED BY <1>5, <1>7, <1>8, <1>9, <2>1, <2>2, <2>3 DEF BacklogInv
<1>12. CASE /\ ~stop.requested /\ srv.mode = "blocking" /\ ~TryReserve
            /\ job' = [job EXCEPT ![c] = "refused"]
            /\ UNCHANGED <<srv, active>>
  <2>1. RunTypes' /\ BacklogInv'
    BY <1>4, <1>5, <1>11, <1>12 DEF RunTypes
  <2>2. Holders' = Holders
    BY <1>2, <1>6, <1>12 DEF RunTypes, Holders, Held
  <2>3. job'[WAKE] = "none"
    BY <1>6, <1>12 DEF RunTypes, PermitsExact
  <2> QED BY <1>12, <2>1, <2>2, <2>3 DEF PermitsExact, Holders
<1>13. CASE /\ ~stop.requested /\ (srv.mode = "event" \/ TryReserve)
            /\ job' = [job EXCEPT ![c] = "queued"]
            /\ active' = IF srv.mode = "event" THEN active ELSE active + 1
            /\ UNCHANGED srv
  <2>1. RunTypes' /\ BacklogInv'
    BY <1>4, <1>5, <1>11, <1>13 DEF RunTypes
  <2>2. job'[WAKE] = "none"
    BY <1>6, <1>13 DEF RunTypes, PermitsExact
  <2>3. CASE srv.mode = "event"
    <3>1. Holders' = Holders
      BY <1>13, <2>3 DEF Holders, Held
    <3> QED BY <1>13, <2>1, <2>2, <2>3, <3>1 DEF PermitsExact, Holders
  <2>4. CASE srv.mode = "blocking"
    <3>1. Holders' = Holders \cup {c} /\ c \notin Holders
      BY <1>2, <1>6, <1>13, <2>4 DEF RunTypes, Holders, Held
    <3>2. Cardinality(Holders') = Cardinality(Holders) + 1
      BY <3>1, HoldersFinite, FS_AddElement
    <3>3. active' = active + 1 /\ TryReserve
      BY <1>13, <2>4
    <3>4. MaxConnections > 0 => active' <= MaxConnections
      BY <3>3, SrAssumption DEF TryReserve, RunTypes
    <3> QED BY <2>1, <2>2, <3>2, <3>3, <3>4 DEF PermitsExact, Holders
  <2> QED BY <2>3, <2>4 DEF RunTypes
<1> QED BY <1>10, <1>12, <1>13 DEF Accept

\* Every end of a connection's job gives its permit back, a panic included, and the
\* pool's drop gives back those of the jobs it never started.
LEMMA JobStep ==
    ASSUME RunInv, NEW c \in Conns, JobStarts(c) \/ JobEnds(c) \/ PoolJoined
    PROVE  RunInv'
<1> USE DEF RunInv
<1>1. UNCHANGED <<stop, backlog>> /\ srv'.mode = srv.mode /\ job[WAKE] = "none"
  BY DEF JobStarts, JobEnds, PoolJoined, SrGoto, RunTypes, PermitsExact
<1>2. \A d \in Conns : job[d] \in {"none", "waiting"} => job'[d] = job[d]
  BY DEF JobStarts, JobEnds, PoolJoined, RunTypes
<1>3. BacklogInv'
  <2>1. \A i \in DOMAIN backlog : backlog[i] \in Conns
    BY DEF RunTypes
  <2> QED BY <1>1, <1>2, <2>1 DEF BacklogInv
<1>4. job'[WAKE] = "none"
  BY <1>1, <1>2 DEF Conns
<1>5. job' \in [Conns -> Jobs]
  BY DEF JobStarts, JobEnds, PoolJoined, RunTypes, Jobs
<1>6. srv' \in [mode : {"event", "blocking"},
                pc : {"setup", "wake", "listen", "accept", "join", "drop", "await", "returned", "failed"},
                reactor : {"none", "top", "poll", "gone"}, worker : {"none", "recv", "gone"},
                idle : {"parked", "told", "asleep"}]
  BY DEF JobStarts, JobEnds, PoolJoined, SrGoto, RunTypes
<1>7. active = Cardinality(Holders) /\ (MaxConnections > 0 => active <= MaxConnections)
  BY DEF PermitsExact, Holders
<1>8. active' = Cardinality(Holders')
  <2>1. CASE JobStarts(c)
    <3>1. Holders' = Holders
      BY <2>1 DEF JobStarts, Holders, Held, RunTypes
    <3> QED BY <1>7, <2>1, <3>1 DEF JobStarts
  <2>2. CASE JobEnds(c) /\ Held(c)
    <3>1. Holders' = Holders \ {c} /\ c \in Holders
      BY <2>2 DEF JobEnds, Holders, Held, RunTypes
    <3>2. Cardinality(Holders') = Cardinality(Holders) - 1
      BY <3>1, HoldersFinite, FS_RemoveElement
    <3> QED BY <1>7, <2>2, <3>2 DEF JobEnds
  <2>3. CASE JobEnds(c) /\ ~Held(c)
    <3>1. Holders' = Holders
      BY <2>3 DEF JobEnds, Holders, Held, RunTypes
    <3> QED BY <1>7, <2>3, <3>1 DEF JobEnds
  <2>4. CASE PoolJoined
    <3>1. Holders' = {}
      BY <2>4 DEF PoolJoined, Holders, Held, RunTypes
    <3>2. Cardinality(Holders') = 0
      BY <3>1, FS_EmptySet
    <3>3. active' = active - Cardinality(Holders)
      BY <2>4 DEF PoolJoined, Holders
    <3> QED BY <1>7, <3>2, <3>3, HoldersFinite
  <2> QED BY <2>1, <2>2, <2>3, <2>4
<1>9. active' <= active
  BY <1>7, HoldersFinite DEF JobStarts, JobEnds, PoolJoined, RunTypes, Holders
<1>10. active' \in Nat
  BY <1>8, HoldersFinite
<1>11. RunTypes'
  BY <1>1, <1>5, <1>6, <1>10 DEF RunTypes
<1>12. PermitsExact'
  BY <1>4, <1>7, <1>8, <1>9, <1>10, SrAssumption DEF PermitsExact, Holders, RunTypes
<1> QED BY <1>3, <1>11, <1>12

\* request() sets the flag before it connects, and a client connects once.
LEMMA OutsideStep ==
    ASSUME RunInv,
           \/ \E t \in SrStoppers : RequestSwap(t) \/ RequestWake(t)
           \/ \E c \in SrClients : Connect(c)
    PROVE  RunInv'
<1> USE DEF RunInv
<1>1. CASE \E t \in SrStoppers : RequestSwap(t)
  <2>1. PICK t \in SrStoppers : RequestSwap(t)
    BY <1>1
  <2>2. UNCHANGED <<srv, backlog, job, active>> /\ stop'.requested = TRUE
    BY <2>1 DEF RequestSwap, StopTo, RunTypes
  <2>3. RunTypes'
    BY <2>1, <2>2 DEF RequestSwap, StopTo, RunTypes
  <2>4. BacklogInv'
    BY <2>2 DEF BacklogInv
  <2> QED BY <2>2, <2>3, <2>4, SameHolders
<1>2. CASE \E t \in SrStoppers : RequestWake(t)
  <2>1. PICK t \in SrStoppers : RequestWake(t)
    BY <1>2
  <2>2. UNCHANGED <<srv, job, active>> /\ stop.requested /\ stop'.requested = stop.requested
    BY <2>1 DEF RequestWake, StopTo, RunTypes, BacklogInv
  <2>3. backlog' \in Seq(Conns)
    BY <2>1 DEF RequestWake, RunTypes, Conns
  <2>4. RunTypes'
    BY <2>1, <2>2, <2>3 DEF RequestWake, StopTo, RunTypes
  <2>5. \A i \in DOMAIN backlog' : (i \in DOMAIN backlog /\ backlog'[i] = backlog[i]) \/ backlog'[i] = WAKE
    BY <2>1 DEF RequestWake, RunTypes
  <2>6. BacklogInv'
    BY <2>2, <2>5 DEF BacklogInv
  <2> QED BY <2>2, <2>4, <2>6, SameHolders
<1>3. CASE \E c \in SrClients : Connect(c)
  <2>1. PICK c \in SrClients : Connect(c)
    BY <1>3
  <2>2. c \in Conns /\ c # WAKE /\ WAKE \in Conns
    BY SrAssumption DEF Conns
  <2>3. UNCHANGED <<srv, stop, active>> /\ job[c] = "none" /\ job' = [job EXCEPT ![c] = "waiting"]
        /\ backlog' = Append(backlog, c)
    BY <2>1 DEF Connect
  <2>4. RunTypes'
    BY <2>2, <2>3 DEF RunTypes, Jobs
  <2>5. /\ DOMAIN backlog' = 1..Len(backlog) + 1 /\ DOMAIN backlog = 1..Len(backlog) /\ Len(backlog) \in Nat
        /\ backlog'[Len(backlog) + 1] = c
        /\ \A i \in DOMAIN backlog : backlog'[i] = backlog[i]
    BY <2>3 DEF RunTypes
  <2>6. \A i \in DOMAIN backlog : backlog[i] \in Conns /\ backlog[i] # c
    BY <2>2, <2>3 DEF BacklogInv, RunTypes
  <2>7. \A d \in Conns \ {c} : job'[d] = job[d]
    BY <2>3 DEF RunTypes
  <2>8. job'[c] = "waiting"
    BY <2>2, <2>3 DEF RunTypes
  <2>9. BacklogInv'
    <3>1. \A i \in DOMAIN backlog' :
            IF backlog'[i] = WAKE THEN stop'.requested ELSE job'[backlog'[i]] = "waiting"
      BY <2>2, <2>3, <2>5, <2>6, <2>7, <2>8 DEF BacklogInv
    <3>2. \A i, j \in DOMAIN backlog' : backlog'[i] = backlog'[j] /\ i # j => backlog'[i] = WAKE
      BY <2>5, <2>6 DEF BacklogInv
    <3> QED BY <2>3, <3>1, <3>2 DEF BacklogInv
  <2>10. Holders' = Holders /\ job'[WAKE] = "none"
    BY <2>2, <2>3, <2>7, <2>8 DEF Holders, Held, PermitsExact
  <2> QED BY <2>3, <2>4, <2>9, <2>10 DEF PermitsExact, Holders
<1> QED BY <1>1, <1>2, <1>3

\* For every number of clients and stopping threads and every limit, the counter of
\* try_reserve() is exactly the connections that hold a ConnectionPermit and stays
\* within max_connections, whatever panics or is dropped with the pool, and the
\* connection of a stop is never taken for a client's.
THEOREM PermitsStayExact == SrSpec => []PermitsExact
<1>1. SrInit => RunInv
  <2> SUFFICES ASSUME SrInit PROVE RunInv
    OBVIOUS
  <2>1. RunTypes
    <3>1. stop \in [requested : BOOLEAN, reactor_wake : BOOLEAN, listener : BOOLEAN, woke : BOOLEAN,
                    pc : [SrStoppers -> {"idle", "connect", "done"}]]
      BY DEF SrInit
    <3>2. backlog \in Seq(Conns) /\ job \in [Conns -> Jobs] /\ active \in Nat
      BY DEF SrInit, Jobs
    <3>3. \E mode \in {"event", "blocking"} :
             srv = [mode |-> mode, pc |-> "setup", reactor |-> "none", worker |-> "none", idle |-> "parked"]
      BY DEF SrInit
    <3> QED BY <3>1, <3>2, <3>3 DEF RunTypes
  <2>2. BacklogInv
    BY DEF SrInit, BacklogInv
  <2>3. Holders = {} /\ job[WAKE] = "none"
    BY DEF SrInit, Holders, Held, Conns
  <2>4. PermitsExact
    <3>1. Cardinality(Holders) = 0 /\ active = 0
      BY <2>3, FS_EmptySet DEF SrInit
    <3>2. MaxConnections > 0 => active <= MaxConnections
      BY <3>1, SrAssumption
    <3> QED BY <2>3, <3>1, <3>2 DEF PermitsExact, Holders
  <2> QED BY <2>1, <2>2, <2>4 DEF RunInv
<1>2. RunInv /\ [SrNext]_srvars => RunInv'
  <2> SUFFICES ASSUME RunInv, [SrNext]_srvars PROVE RunInv'
    OBVIOUS
  <2>1. CASE UNCHANGED srvars
    BY <2>1 DEF srvars, RunInv, RunTypes, BacklogInv, PermitsExact, Held
  <2>2. WAKE \in Conns
    BY DEF Conns
  <2> QED BY <2>1, <2>2, ThreadStep, AcceptStep, JobStep, OutsideStep
          DEF SrNext, ServerThread, OtherThreads, Stopping, JobSteps
<1>3. RunInv => PermitsExact
  BY DEF RunInv
<1> QED BY <1>1, <1>2, <1>3, PTL DEF SrSpec

-----------------------------------------------------------------------------
(* H1Serve: answers in order *)

Whats == {"whole", "head", "end"} \cup Final

FlightParts == [req : 1..HsRequests, part : {"head", "body"}]

ServeTypes ==
    /\ hs \in [pc : {"line", "head", "body", "route", "handle", "respond", "stream", "refuse",
                     "closed", "h2", "websocket", "tunnel"},
               req : Nat, rx : {"none", "live", "ended", "failed"}, tail : BOOLEAN]
    /\ peer \in [kind : [1..HsRequests -> HsKinds], sent : 0..HsRequests, half : BOOLEAN,
                 parts : Seq(FlightParts), closed : BOOLEAN]
    /\ out \in Seq(Nat \X Whats)
    /\ given \in Seq(Nat)
    /\ hs.pc \notin {"line", "closed"} => hs.req \in 1..HsRequests

\* What the client sends behind a part.
Behind(p) == IF p.part = "head" /\ peer.kind[p.req] \in WithBody THEN Part(p.req, "body")
                                                                ELSE Part(p.req + 1, "head")

\* The part the client sends next, and the one the reader is going to find.
NextSent == Part(peer.sent + 1, IF peer.half THEN "body" ELSE "head")
Upcoming == IF peer.parts # <<>> THEN peer.parts[1] ELSE NextSent

\* The parts in flight are the client's, in order, and the reader is where it
\* believes to be: at a request line unless a body is due.
PartsInv ==
    /\ peer.half => peer.sent < HsRequests /\ peer.kind[peer.sent + 1] \in WithBody
    /\ \A i \in DOMAIN peer.parts :
          Behind(peer.parts[i]) = IF i < Len(peer.parts) THEN peer.parts[i + 1] ELSE NextSent
    /\ hs.pc = "head" => peer.parts # <<>> /\ Upcoming = Part(hs.req, "head")
    /\ hs.pc = "body" => Upcoming = Part(hs.req, "body")
    /\ (hs.pc \in {"line", "route", "handle"} \/ (hs.pc \in {"respond", "stream"} /\ KeepsAlive))
          => Upcoming = Part(hs.req + 1, "head")
    /\ ~hs.tail

\* The last thing written, by what the thread is doing.
LastInv ==
    LET last == out[Len(out)] IN
    /\ hs.pc = "line" => IF out = <<>> THEN hs.req = 0 ELSE last[1] = hs.req /\ last[2] \in {"whole", "end"}
    /\ hs.pc \in {"head", "body", "route", "handle", "respond", "refuse"} =>
          IF out = <<>> THEN hs.req = 1 ELSE last[1] = hs.req - 1 /\ last[2] \in {"whole", "end"}
    /\ hs.pc = "stream" => out # <<>> /\ last = <<hs.req, "head">>

AnsweredBefore(n) == \A r \in 1..n : \E j \in DOMAIN out : out[j][1] = r /\ out[j][2] \in {"whole", "end"}

\* The requests behind the thread were answered, and only those were given away.
GivenInv ==
    /\ AnsweredBefore(IF hs.pc = "line" THEN hs.req ELSE hs.req - 1)
    /\ \A i \in DOMAIN given :
          /\ given[i] <= hs.req
          /\ hs.pc \in {"head", "body", "route", "handle", "refuse"} => given[i] < hs.req

ServeInv == ServeTypes /\ PartsInv /\ LastInv /\ GivenInv /\ AnswersInOrder

OutOrder(o) ==
    \A i \in DOMAIN o :
        /\ o[i][2] \in Final => i = Len(o)
        /\ o[i][2] = "head" => i = Len(o) \/ o[i + 1] = <<o[i][1], "end">>
        /\ i > 1 => o[i][1] = IF o[i - 1][2] = "head" THEN o[i - 1][1] ELSE o[i - 1][1] + 1

\* One more thing written: nothing follows a final answer, only its end an open body,
\* and the numbers go up by one.
LEMMA OutGrows ==
    ASSUME NEW o \in Seq(Nat \X Whats), OutOrder(o), NEW e \in Nat \X Whats,
           o # <<>> => /\ o[Len(o)][2] \notin Final
                       /\ IF o[Len(o)][2] = "head" THEN e = <<o[Len(o)][1], "end">>
                                                   ELSE e[1] = o[Len(o)][1] + 1
    PROVE  OutOrder(Append(o, e))
<1> DEFINE more == Append(o, e)
           n == Len(o)
<1>1. /\ n \in Nat /\ DOMAIN o = 1..n /\ DOMAIN more = 1..n + 1 /\ Len(more) = n + 1
      /\ more[n + 1] = e /\ \A i \in 1..n : more[i] = o[i]
      /\ o # <<>> <=> n > 0
  OBVIOUS
<1> HIDE DEF more, n
<1>2. \A i \in 1..n : /\ o[i][2] \in Final => i = n
                      /\ o[i][2] = "head" => i = n \/ o[i + 1] = <<o[i][1], "end">>
                      /\ i > 1 => o[i][1] = IF o[i - 1][2] = "head" THEN o[i - 1][1] ELSE o[i - 1][1] + 1
  BY <1>1 DEF OutOrder, n
<1>3. n > 0 => /\ o[n][2] \notin Final
               /\ IF o[n][2] = "head" THEN e = <<o[n][1], "end">> ELSE e[1] = o[n][1] + 1
  BY <1>1 DEF n
<1>4. ASSUME NEW i \in 1..n + 1
      PROVE  /\ more[i][2] \in Final => i = n + 1
             /\ more[i][2] = "head" => i = n + 1 \/ more[i + 1] = <<more[i][1], "end">>
             /\ i > 1 => more[i][1] = IF more[i - 1][2] = "head" THEN more[i - 1][1] ELSE more[i - 1][1] + 1
  <2>1. CASE i < n
    <3>1. i \in 1..n /\ i + 1 \in 1..n /\ (i > 1 => i - 1 \in 1..n) /\ i # n
      BY <1>1, <2>1
    <3>2. /\ o[i][2] \notin Final
          /\ o[i][2] = "head" => o[i + 1] = <<o[i][1], "end">>
          /\ i > 1 => o[i][1] = IF o[i - 1][2] = "head" THEN o[i - 1][1] ELSE o[i - 1][1] + 1
      BY <1>2, <3>1
    <3>3. more[i] = o[i] /\ more[i + 1] = o[i + 1] /\ (i > 1 => more[i - 1] = o[i - 1])
      BY <1>1, <3>1
    <3> QED BY <3>2, <3>3
  <2>2. CASE i = n
    <3>1. i \in 1..n /\ n > 0 /\ (i > 1 => i - 1 \in 1..n)
      BY <1>1, <2>2
    <3>2. more[i] = o[i] /\ more[i + 1] = e /\ (i > 1 => more[i - 1] = o[i - 1])
      BY <1>1, <2>2, <3>1
    <3>3. i > 1 => o[i][1] = IF o[i - 1][2] = "head" THEN o[i - 1][1] ELSE o[i - 1][1] + 1
      BY <1>2, <3>1
    <3> QED BY <1>3, <2>2, <3>1, <3>2, <3>3
  <2>3. CASE i = n + 1
    <3>1. i > 1 => n > 0 /\ i - 1 = n /\ n \in 1..n
      BY <1>1, <2>3
    <3>2. more[i] = e /\ (i > 1 => more[i - 1] = o[n])
      BY <1>1, <2>3, <3>1
    <3>3. i > 1 => e[1] = IF o[n][2] = "head" THEN o[n][1] ELSE o[n][1] + 1
      BY <1>3, <3>1
    <3> QED BY <2>3, <3>2, <3>3
  <2> QED BY <1>1, <2>1, <2>2, <2>3
<1>5. OutOrder(more)
  BY <1>1, <1>4 DEF OutOrder
<1> QED BY <1>5 DEF more

\* Types after a step.
LEMMA ServeTypeStep ==
    ASSUME ServeTypes, PartsInv, [HsNext]_hsvars
    PROVE  ServeTypes'
<1> USE HsAssumption
<1> DEFINE Peers == [kind : [1..HsRequests -> HsKinds], sent : 0..HsRequests, half : BOOLEAN,
                     parts : Seq(FlightParts), closed : BOOLEAN]
           Pcs == {"line", "head", "body", "route", "handle", "respond", "stream", "refuse",
                   "closed", "h2", "websocket", "tunnel"}
           Threads == [pc : Pcs, req : Nat, rx : {"none", "live", "ended", "failed"}, tail : BOOLEAN]
<1>1. hs \in Threads /\ peer \in Peers
  BY DEF ServeTypes
<1>2. ASSUME NEW l \in Pcs, HsGoto(l) PROVE hs' \in Threads /\ hs'.pc = l /\ hs'.req = hs.req
  BY <1>1, <1>2 DEF HsGoto
<1>3. ASSUME Take, peer.parts # <<>> PROVE peer' \in Peers
  <2>1. Tail(peer.parts) \in Seq(FlightParts)
    BY <1>1, <1>3
  <2> QED BY <1>1, <1>3, <2>1 DEF Take
<1>4. ASSUME NEW w \in Whats, Wrote(w) PROVE out' \in Seq(Nat \X Whats)
  BY <1>1, <1>4 DEF Wrote, ServeTypes
<1>5. ASSUME given' = Append(given, hs.req) PROVE given' \in Seq(Nat)
  BY <1>1, <1>5 DEF ServeTypes
<1>6. CASE ReadLine
  <2>1. NextPart \in FlightParts
    BY <1>1, <1>6 DEF ReadLine, NextPart
  <2>2. NextPart.req \in 1..HsRequests /\ (NextPart.part = "body") \in BOOLEAN
    BY <2>1 DEF FlightParts
  <2>3. PICK n \in 1..HsRequests, b \in BOOLEAN, l \in Pcs :
            hs' = [hs EXCEPT !.req = n, !.tail = b, !.pc = l]
    BY <1>6, <2>2, Zenon DEF ReadLine
  <2>4. hs' \in Threads /\ hs'.req \in 1..HsRequests
    <3>1. hs \in Threads /\ n \in Nat
      BY <1>1
    <3>2. hs' = [pc |-> l, req |-> n, rx |-> hs.rx, tail |-> b]
      BY <2>3, <3>1
    <3> QED BY <3>1, <3>2
  <2> QED BY <1>6, <2>4 DEF ReadLine, ServeTypes
<1>7. CASE ReadHead
  <2>1. peer.parts # <<>> /\ hs.req \in 1..HsRequests
    BY <1>7 DEF ReadHead, PartsInv, ServeTypes
  <2>2. \E l \in Pcs : HsGoto(l)
    BY <1>7 DEF ReadHead
  <2> QED BY <1>2, <1>3, <1>7, <2>1, <2>2 DEF ReadHead, ServeTypes
<1>8. CASE ReadBody
  <2>1. hs.req \in 1..HsRequests
    BY <1>8 DEF ReadBody, ServeTypes
  <2>2. \E l \in Pcs : HsGoto(l)
    BY <1>8 DEF ReadBody
  <2> QED BY <1>2, <1>3, <1>8, <2>1, <2>2 DEF ReadBody, ServeTypes
<1>9. CASE ReadEof
  BY <1>2, <1>9 DEF ReadEof, ServeTypes
<1>10. CASE ReadTimeout
  <2>1. out' \in Seq(Nat \X Whats)
    BY <1>1, <1>10 DEF ReadTimeout, ServeTypes, Whats, Final
  <2> QED BY <1>2, <1>10, <2>1 DEF ReadTimeout, ServeTypes
<1>11. CASE Refuse
  BY <1>2, <1>4, <1>11 DEF Refuse, ServeTypes, Whats, Final
<1>12. CASE Route
  <2>1. out' \in Seq(Nat \X Whats) /\ given' \in Seq(Nat)
    BY <1>4, <1>5, <1>12 DEF Route, ServeTypes, Whats, Final
  <2>2. \E l \in Pcs : HsGoto(l)
    BY <1>12 DEF Route
  <2>3. hs.req \in 1..HsRequests /\ UNCHANGED peer
    BY <1>12 DEF Route, ServeTypes
  <2> QED BY <1>1, <1>2, <2>1, <2>2, <2>3 DEF ServeTypes
<1>13. CASE Handle1
  <2>1. out' \in Seq(Nat \X Whats) /\ given' \in Seq(Nat)
    BY <1>4, <1>5, <1>13 DEF Handle1, ServeTypes, Whats, Final
  <2>2. \E l \in Pcs : HsGoto(l)
    BY <1>13 DEF Handle1
  <2>3. hs.req \in 1..HsRequests /\ UNCHANGED peer
    BY <1>13 DEF Handle1, ServeTypes
  <2> QED BY <1>1, <1>2, <2>1, <2>2, <2>3 DEF ServeTypes
<1>14. CASE RespondWhole
  <2>1. \E l \in Pcs : HsGoto(l)
    BY <1>14 DEF RespondWhole
  <2> QED BY <1>2, <1>4, <1>14, <2>1 DEF RespondWhole, ServeTypes, Whats
<1>15. CASE RespondStream
  <2>1. hs' \in Threads /\ hs'.req = hs.req
    BY <1>1, <1>15 DEF RespondStream
  <2>2. out' \in Seq(Nat \X Whats)
    BY <1>4, <1>15 DEF RespondStream, Whats
  <2> QED BY <1>15, <2>1, <2>2 DEF RespondStream, ServeTypes
<1>16. CASE StreamEnds
  <2>1. \E l \in Pcs : HsGoto(l)
    BY <1>16 DEF StreamEnds
  <2>2. out' \in Seq(Nat \X Whats)
    BY <1>4, <1>16 DEF StreamEnds, Whats, ServeTypes
  <2> QED BY <1>2, <1>16, <2>1, <2>2 DEF StreamEnds, ServeTypes
<1>17. CASE ProducerEnds
  <2>1. hs' \in Threads /\ hs'.req = hs.req /\ hs'.pc = hs.pc
    BY <1>1, <1>17 DEF ProducerEnds
  <2> QED BY <1>17, <2>1 DEF ProducerEnds, ServeTypes
<1>18. CASE PeerSends
  <2> DEFINE r == peer.sent + 1
             p == Part(r, IF peer.half THEN "body" ELSE "head")
             whole == peer.half \/ peer.kind[r] \notin WithBody
  <2>1. peer' = [peer EXCEPT !.parts = Append(@, p), !.sent = IF whole THEN r ELSE @, !.half = ~whole]
    BY <1>18 DEF PeerSends
  <2>2. r \in 1..HsRequests
    BY <1>1, <1>18 DEF PeerSends
  <2>3. p \in FlightParts
    BY <2>2 DEF Part, FlightParts
  <2>4. Append(peer.parts, p) \in Seq(FlightParts)
    BY <1>1, <2>3
  <2>5. r \in 0..HsRequests /\ peer.sent \in 0..HsRequests /\ (~whole) \in BOOLEAN
    BY <1>1, <2>2
  <2> HIDE DEF p, whole, r
  <2>6. peer' \in Peers
    BY <1>1, <2>1, <2>4, <2>5
  <2> QED BY <1>18, <2>6 DEF PeerSends, ServeTypes
<1>19. CASE PeerCloses
  <2>1. peer' \in Peers
    BY <1>1, <1>19 DEF PeerCloses
  <2> QED BY <1>19, <2>1 DEF PeerCloses, ServeTypes
<1>20. CASE UNCHANGED hsvars
  BY <1>20 DEF hsvars, ServeTypes
<1> QED BY <1>6, <1>7, <1>8, <1>9, <1>10, <1>11, <1>12, <1>13, <1>14, <1>15, <1>16, <1>17, <1>18, <1>19, <1>20
        DEF HsNext, Thread

\* The parts in flight follow each other, up to the one the client sends next.
Chain ==
    /\ peer.half => peer.sent < HsRequests /\ peer.kind[peer.sent + 1] \in WithBody
    /\ \A i \in DOMAIN peer.parts :
          Behind(peer.parts[i]) = IF i < Len(peer.parts) THEN peer.parts[i + 1] ELSE NextSent

\* Reading a part moves the reader to the one behind it.
LEMMA TakeChain ==
    ASSUME ServeTypes, PartsInv, Take, peer.parts # <<>>
    PROVE  Chain' /\ Upcoming' = Behind(peer.parts[1]) /\ peer'.kind = peer.kind
<1> DEFINE parts == peer.parts
           n == Len(parts)
<1>1. parts \in Seq(FlightParts) /\ n \in Nat /\ n > 0
  BY DEF ServeTypes
<1>2. /\ peer'.parts = Tail(parts) /\ peer'.kind = peer.kind
      /\ peer'.sent = peer.sent /\ peer'.half = peer.half
  BY DEF ServeTypes, Take
<1>3. /\ Len(peer'.parts) = n - 1 /\ DOMAIN peer'.parts = 1..n - 1
      /\ \A i \in 1..n - 1 : peer'.parts[i] = parts[i + 1]
      /\ (peer'.parts # <<>>) <=> n > 1
  <2>1. \A q \in Seq(FlightParts) : Len(q) > 0 =>
          /\ Len(Tail(q)) = Len(q) - 1 /\ DOMAIN Tail(q) = 1..Len(q) - 1
          /\ \A i \in 1..Len(q) - 1 : Tail(q)[i] = q[i + 1]
          /\ Tail(q) \in Seq(FlightParts)
    OBVIOUS
  <2>2. \A q \in Seq(FlightParts) : (q # <<>>) <=> Len(q) > 0
    OBVIOUS
  <2>3. Tail(parts) \in Seq(FlightParts) /\ Len(Tail(parts)) = n - 1
    BY <1>1, <2>1
  <2>4. (Tail(parts) # <<>>) <=> n - 1 > 0
    BY <2>2, <2>3
  <2>5. (Tail(parts) # <<>>) <=> n > 1
    BY <1>1, <2>4
  <2>6. DOMAIN Tail(parts) = 1..n - 1 /\ \A i \in 1..n - 1 : Tail(parts)[i] = parts[i + 1]
    BY <1>1, <2>1
  <2> QED BY <1>2, <2>3, <2>5, <2>6
<1>4. \A i \in 1..n : Behind(parts[i]) = IF i < n THEN parts[i + 1] ELSE NextSent
  BY <1>1 DEF PartsInv
<1>5. NextSent' = NextSent
  BY <1>2 DEF NextSent, Part
<1> HIDE DEF n, parts
<1>6. ASSUME NEW i \in 1..n - 1
      PROVE  Behind(peer.parts[i])' = IF i < n - 1 THEN peer'.parts[i + 1] ELSE NextSent'
  <2>1. i + 1 \in 1..n /\ (i < n - 1 <=> i + 1 < n) /\ (i < n - 1 => i + 1 \in 1..n - 1)
    BY <1>1
  <2>2. PICK p : p = parts[i + 1]
    OBVIOUS
  <2>3. peer'.parts[i] = p
    BY <1>3, <2>2
  <2>4. Behind(p) = IF i + 1 < n THEN parts[i + 2] ELSE NextSent
    BY <1>1, <1>4, <2>1, <2>2
  <2>5. i < n - 1 => peer'.parts[i + 1] = parts[i + 2]
    BY <1>1, <1>3, <2>1
  <2>6. Behind(peer.parts[i])' = Behind(p)
    BY <1>2, <2>3 DEF Behind, Part
  <2> QED BY <1>5, <2>1, <2>4, <2>5, <2>6
<1>7. Chain'
  BY <1>2, <1>3, <1>6 DEF Chain, PartsInv
<1>8. Upcoming' = Behind(parts[1])
  <2>1. Behind(parts[1]) = IF 1 < n THEN parts[2] ELSE NextSent
    BY <1>1, <1>4
  <2>2. 1 < n => peer'.parts[1] = parts[2]
    BY <1>1, <1>3
  <2> QED BY <1>1, <1>3, <1>5, <2>1, <2>2 DEF Upcoming
<1> QED BY <1>2, <1>7, <1>8 DEF parts

\* The client's next part is the one that follows, and sending it changes nothing for
\* the reader.
LEMMA SendChain ==
    ASSUME ServeTypes, PartsInv, PeerSends
    PROVE  /\ Chain' /\ Upcoming' = Upcoming /\ peer'.kind = peer.kind
           /\ peer.parts # <<>> => peer'.parts # <<>>
<1> DEFINE parts == peer.parts
           n == Len(parts)
           r == peer.sent + 1
           whole == peer.half \/ peer.kind[r] \notin WithBody
<1> USE HsAssumption
<1>1. parts \in Seq(FlightParts) /\ n \in Nat /\ peer.sent \in Nat /\ peer.sent < HsRequests
  BY DEF ServeTypes, PeerSends
<1>2. /\ peer'.parts = Append(parts, NextSent) /\ peer'.kind = peer.kind
      /\ peer'.sent = (IF whole THEN r ELSE peer.sent)
      /\ peer'.half = ~whole
  BY DEF ServeTypes, PeerSends, NextSent
<1>3. /\ Len(peer'.parts) = n + 1 /\ DOMAIN peer'.parts = 1..n + 1
      /\ \A i \in 1..n : peer'.parts[i] = parts[i]
      /\ peer'.parts[n + 1] = NextSent /\ peer'.parts # <<>>
      /\ (parts # <<>>) <=> n > 0
  BY <1>1, <1>2
<1>4. \A i \in 1..n : Behind(parts[i]) = IF i < n THEN parts[i + 1] ELSE NextSent
  BY <1>1 DEF PartsInv
<1>5. Behind(NextSent) = NextSent'
  <2>1. CASE peer.half
    BY <1>1, <1>2, <2>1 DEF Behind, NextSent, Part
  <2>2. CASE ~peer.half /\ peer.kind[r] \notin WithBody
    BY <1>1, <1>2, <2>2 DEF Behind, NextSent, Part
  <2>3. CASE ~peer.half /\ peer.kind[r] \in WithBody
    BY <1>1, <1>2, <2>3 DEF Behind, NextSent, Part
  <2> QED BY <2>1, <2>2, <2>3
<1>6. peer'.half => peer'.sent < HsRequests /\ peer'.kind[peer'.sent + 1] \in WithBody
  BY <1>1, <1>2
<1> HIDE DEF n, parts, r, whole
<1>7. ASSUME NEW i \in 1..n + 1
      PROVE  Behind(peer.parts[i])' = IF i < n + 1 THEN peer'.parts[i + 1] ELSE NextSent'
  <2>1. PICK p : p = peer'.parts[i]
    OBVIOUS
  <2>2. Behind(peer.parts[i])' = Behind(p)
    BY <1>2, <2>1 DEF Behind, Part
  <2>3. CASE i = n + 1
    BY <1>3, <1>5, <2>1, <2>2, <2>3, <1>1
  <2>4. CASE i < n
    <3>1. i \in 1..n /\ i + 1 \in 1..n /\ i < n + 1
      BY <1>1, <2>4
    <3> QED BY <1>3, <1>4, <2>1, <2>2, <2>4, <3>1
  <2>5. CASE i = n
    <3>1. i \in 1..n /\ i < n + 1 /\ ~(i < n)
      BY <1>1, <2>5
    <3> QED BY <1>3, <1>4, <2>1, <2>2, <2>5, <3>1
  <2> QED BY <1>1, <2>3, <2>4, <2>5
<1>8. Chain'
  BY <1>3, <1>6, <1>7 DEF Chain
<1>9. Upcoming' = Upcoming
  <2>1. n = 0 => peer'.parts[1] = NextSent
    BY <1>3
  <2>2. n > 0 => peer'.parts[1] = parts[1]
    BY <1>1, <1>3
  <2> QED BY <1>1, <1>3, <2>1, <2>2 DEF Upcoming, parts
<1> QED BY <1>2, <1>3, <1>8, <1>9

\* No part of a body is ever read as a request line.
LEMMA PartsStep ==
    ASSUME ServeTypes, PartsInv, [HsNext]_hsvars
    PROVE  PartsInv'
<1> USE HsAssumption
<1>0. PartsInv => Chain
  BY DEF PartsInv, Chain
<1>1. CASE ReadLine
  <2>1. peer.parts # <<>> /\ Upcoming = Part(hs.req + 1, "head") /\ UNCHANGED peer
    BY <1>1 DEF ReadLine, PartsInv
  <2>2. NextPart = peer.parts[1] /\ Upcoming = peer.parts[1]
    BY <2>1 DEF NextPart, Upcoming, ServeTypes
  <2>3. NextPart.req = hs.req + 1 /\ NextPart.part = "head"
    BY <2>1, <2>2 DEF Part
  <2>4. hs'.req = hs.req + 1 /\ ~hs'.tail /\ hs'.pc \in {"refuse", "head"}
    BY <1>1, <2>3 DEF ReadLine, ServeTypes
  <2>5. Upcoming' = Upcoming /\ Chain'
    BY <1>0, <2>1 DEF Upcoming, NextSent, Chain, Behind, Part
  <2> QED BY <2>1, <2>4, <2>5 DEF PartsInv, Chain
<1>2. CASE ReadHead
  <2>1. peer.parts # <<>> /\ Upcoming = Part(hs.req, "head") /\ Take
    BY <1>2 DEF ReadHead, PartsInv
  <2>2. Chain' /\ Upcoming' = Behind(peer.parts[1]) /\ peer'.kind = peer.kind
    BY <2>1, TakeChain
  <2>3. peer.parts[1] = Part(hs.req, "head")
    BY <2>1 DEF Upcoming
  <2>4. Behind(peer.parts[1]) = IF Kind \in WithBody THEN Part(hs.req, "body") ELSE Part(hs.req + 1, "head")
    BY <2>3 DEF Behind, Part, Kind
  <2>5. hs'.req = hs.req /\ ~hs'.tail /\ Kind' = Kind
    BY <1>2, <2>2 DEF ReadHead, HsGoto, ServeTypes, PartsInv, Kind
  <2>6. /\ hs'.pc \in {"refuse", "closed", "respond", "body", "route"}
        /\ hs'.pc = "respond" => Kind = "nohost"
        /\ hs'.pc = "body" => Kind \in WithBody
        /\ hs'.pc = "route" => Kind \notin WithBody
    BY <1>2 DEF ReadHead, HsGoto, ServeTypes, WithBody
  <2>7. hs'.pc = "respond" => ~KeepsAlive'
    BY <2>5, <2>6 DEF KeepsAlive
  <2> QED BY <2>2, <2>4, <2>5, <2>6, <2>7 DEF PartsInv, Chain
<1>3. CASE ReadBody
  <2>1. peer.parts # <<>> /\ Upcoming = Part(hs.req, "body") /\ Take
    BY <1>3 DEF ReadBody, PartsInv
  <2>2. Chain' /\ Upcoming' = Behind(peer.parts[1])
    BY <2>1, TakeChain
  <2>3. peer.parts[1] = Part(hs.req, "body")
    BY <2>1 DEF Upcoming
  <2>4. Behind(peer.parts[1]) = Part(hs.req + 1, "head")
    BY <2>3 DEF Behind, Part
  <2>5. hs'.req = hs.req /\ ~hs'.tail /\ hs'.pc \in {"refuse", "route"}
    BY <1>3 DEF ReadBody, HsGoto, ServeTypes, PartsInv
  <2> QED BY <2>2, <2>4, <2>5 DEF PartsInv, Chain
<1>4. CASE PeerSends
  <2>1. /\ Chain' /\ Upcoming' = Upcoming /\ peer'.kind = peer.kind /\ hs' = hs
        /\ peer.parts # <<>> => peer'.parts # <<>>
    BY <1>4, SendChain DEF PeerSends
  <2>2. KeepsAlive' = KeepsAlive
    BY <2>1 DEF KeepsAlive, Kind
  <2> QED BY <2>1, <2>2 DEF PartsInv, Chain
<1>5. CASE PeerCloses \/ UNCHANGED hsvars
  <2>1. /\ hs' = hs /\ peer'.kind = peer.kind /\ peer'.parts = peer.parts
        /\ peer'.sent = peer.sent /\ peer'.half = peer.half
    BY <1>5 DEF PeerCloses, hsvars, ServeTypes
  <2>2. KeepsAlive' = KeepsAlive /\ Upcoming' = Upcoming /\ Chain'
    BY <1>0, <2>1 DEF KeepsAlive, Kind, Upcoming, NextSent, Chain, Behind, Part
  <2> QED BY <2>1, <2>2 DEF PartsInv, Chain
<1>6. CASE \/ ReadEof \/ ReadTimeout \/ Refuse \/ Route \/ Handle1
           \/ RespondWhole \/ RespondStream \/ StreamEnds \/ ProducerEnds
  <2>1. peer' = peer /\ hs'.req = hs.req /\ hs'.tail = hs.tail
    BY <1>6 DEF ReadEof, ReadTimeout, Refuse, Route, Handle1, RespondWhole, RespondStream, StreamEnds,
                ProducerEnds, HsGoto, ServeTypes
  <2>2. Upcoming' = Upcoming /\ Chain' /\ KeepsAlive' = KeepsAlive
    BY <1>0, <2>1 DEF Upcoming, NextSent, Chain, Behind, Part, KeepsAlive, Kind
  <2>3. hs'.pc \in {"head", "body"} => FALSE
    BY <1>6 DEF ReadEof, ReadTimeout, Refuse, Route, Handle1, RespondWhole, RespondStream, StreamEnds,
                ProducerEnds, HsGoto, ServeTypes
  <2>4. (hs'.pc \in {"line", "route", "handle"} \/ (hs'.pc \in {"respond", "stream"} /\ KeepsAlive))
           => Upcoming = Part(hs.req + 1, "head")
    <3>1. CASE ReadEof \/ ReadTimeout \/ Refuse
      BY <3>1 DEF ReadEof, ReadTimeout, Refuse, HsGoto, ServeTypes
    <3>2. CASE Route \/ Handle1
      BY <3>2 DEF Route, Handle1, HsGoto, PartsInv
    <3>3. CASE RespondWhole \/ RespondStream \/ StreamEnds \/ ProducerEnds
      BY <3>3 DEF RespondWhole, RespondStream, StreamEnds, ProducerEnds, HsGoto, PartsInv, ServeTypes
    <3> QED BY <1>6, <3>1, <3>2, <3>3
  <2> QED BY <2>1, <2>2, <2>3, <2>4 DEF PartsInv, Chain
<1> QED BY <1>1, <1>2, <1>3, <1>4, <1>5, <1>6 DEF HsNext, Thread

\* What is behind the last conjunct of AnswersInOrder.
GivenOrder ==
    \A i \in DOMAIN given :
        /\ i > 1 => given[i] > given[i - 1]
        /\ AnsweredBefore(given[i] - 1)

\* An append, in the words of the invariants.
LEMMA WroteOne ==
    ASSUME ServeTypes, NEW e \in Nat \X Whats, out' = Append(out, e)
    PROVE  /\ out' # <<>> /\ out'[Len(out')] = e /\ out' \in Seq(Nat \X Whats)
           /\ \A j \in DOMAIN out : j \in DOMAIN out' /\ out'[j] = out[j]
           /\ \E j \in DOMAIN out' : out'[j] = e
<1>1. out \in Seq(Nat \X Whats)
  BY DEF ServeTypes
<1>2. Len(out') = Len(out) + 1 /\ Len(out) \in Nat /\ DOMAIN out' = 1..Len(out) + 1 /\ DOMAIN out = 1..Len(out)
  BY <1>1
<1>3. out'[Len(out) + 1] = e /\ (\A j \in 1..Len(out) : out'[j] = out[j]) /\ out' \in Seq(Nat \X Whats)
  BY <1>1
<1> QED BY <1>2, <1>3, SMTT(60)

\* Answers are never taken back.
LEMMA AnswersStay ==
    ASSUME ServeTypes, out' = out \/ \E e \in Nat \X Whats : out' = Append(out, e), NEW n, AnsweredBefore(n)
    PROVE  AnsweredBefore(n)'
BY WroteOne DEF AnsweredBefore

\* A step that writes nothing, or one thing allowed behind the last, keeps the order.
LEMMA OrderKept ==
    ASSUME ServeTypes, ServeInv, NEW e \in Nat \X Whats, out' = Append(out, e), hs.pc \notin {"closed", "h2", "websocket", "tunnel"},
           e[1] = IF hs.pc = "line" THEN hs.req + 1 ELSE hs.req,
           hs.pc = "stream" => e[2] = "end"
    PROVE  OutOrder(out')
<1>1. out \in Seq(Nat \X Whats) /\ OutOrder(out)
  BY DEF ServeTypes, ServeInv, AnswersInOrder, OutOrder
<1>2. hs.req \in Nat
  BY DEF ServeTypes
<1>3. out # <<>> => /\ out[Len(out)][2] \notin Final
                    /\ IF out[Len(out)][2] = "head" THEN e = <<out[Len(out)][1], "end">>
                                                    ELSE e[1] = out[Len(out)][1] + 1
  <2>1. CASE hs.pc = "line"
    BY <2>1, <1>2 DEF ServeInv, LastInv, Final
  <2>2. CASE hs.pc = "stream"
    BY <2>2, <1>2 DEF ServeInv, LastInv, Final
  <2>3. CASE hs.pc \in {"head", "body", "route", "handle", "respond", "refuse"}
    <3>1. out # <<>> => out[Len(out)][1] = hs.req - 1 /\ out[Len(out)][2] \in {"whole", "end"}
      BY <2>3 DEF ServeInv, LastInv
    <3> QED BY <2>3, <3>1, <1>2 DEF Final
  <2> QED BY <2>1, <2>2, <2>3 DEF ServeTypes
<1> QED BY <1>1, <1>3, OutGrows

\* The order of what is given to the handler.
LEMMA GivenKept ==
    ASSUME ServeInv, given' = Append(given, hs.req), hs.pc \in {"route", "handle"},
           out' = out \/ \E e \in Nat \X Whats : out' = Append(out, e)
    PROVE  GivenOrder' /\ \A i \in DOMAIN given' : given'[i] <= hs.req
<1>1. ServeTypes /\ given \in Seq(Nat) /\ hs.req \in Nat
  BY DEF ServeInv, ServeTypes
<1>2. /\ DOMAIN given = 1..Len(given) /\ Len(given) \in Nat
      /\ DOMAIN given' = 1..Len(given) + 1
      /\ given'[Len(given) + 1] = hs.req
      /\ \A i \in 1..Len(given) : given'[i] = given[i] /\ given[i] \in Nat
  BY <1>1
<1>3. \A i \in 1..Len(given) : given[i] < hs.req
  BY <1>2 DEF ServeInv, GivenInv
<1>4. AnsweredBefore(hs.req - 1)
  BY DEF ServeInv, GivenInv
<1>5. \A i \in 1..Len(given) : (i > 1 => given[i] > given[i - 1]) /\ AnsweredBefore(given[i] - 1)
  BY <1>2 DEF ServeInv, AnswersInOrder, AnsweredBefore
<1>6. \A n : AnsweredBefore(n) => AnsweredBefore(n)'
  BY <1>1, AnswersStay
<1>7. ASSUME NEW i \in 1..Len(given) + 1
      PROVE  /\ i > 1 => given'[i] > given'[i - 1]
             /\ \E n : n = given'[i] - 1 /\ AnsweredBefore(n)
             /\ given'[i] <= hs.req
  <2>1. CASE i = Len(given) + 1
    <3>1. given'[i] = hs.req
      BY <1>2, <2>1
    <3>2. i > 1 => i - 1 \in 1..Len(given)
      BY <1>2, <2>1
    <3>3. i > 1 => given'[i - 1] < hs.req /\ given'[i - 1] \in Nat
      BY <1>2, <1>3, <3>2
    <3>4. i > 1 => given'[i] > given'[i - 1]
      BY <1>1, <3>1, <3>3
    <3>5. \E n : n = given'[i] - 1 /\ AnsweredBefore(n)
      BY <1>4, <3>1
    <3> QED BY <1>1, <3>1, <3>4, <3>5
  <2>2. CASE i \in 1..Len(given)
    <3>1. i > 1 => i - 1 \in 1..Len(given)
      BY <1>2, <2>2
    <3> QED BY <1>1, <1>2, <1>3, <1>5, <2>2, <3>1
  <2> QED BY <1>2, <2>1, <2>2
<1>8. \A i \in DOMAIN given' : AnsweredBefore(given[i] - 1)'
  <2> SUFFICES ASSUME NEW i \in 1..Len(given) + 1 PROVE AnsweredBefore(given[i] - 1)'
    BY <1>2
  <2>1. PICK n : n = given'[i] - 1 /\ AnsweredBefore(n)
    BY <1>7
  <2>2. AnsweredBefore(n)'
    BY <1>6, <2>1
  <2> QED BY <2>1, <2>2 DEF AnsweredBefore
<1> QED BY <1>2, <1>7, <1>8 DEF GivenOrder

\* The same when nothing is given.
LEMMA GivenSame ==
    ASSUME ServeInv, given' = given, out' = out \/ \E e \in Nat \X Whats : out' = Append(out, e)
    PROVE  GivenOrder'
<1>1. ServeTypes
  BY DEF ServeInv
<1>2. \A n : AnsweredBefore(n) => AnsweredBefore(n)'
  BY <1>1, AnswersStay
<1>3. \A i \in DOMAIN given : (i > 1 => given[i] > given[i - 1]) /\ AnsweredBefore(given[i] - 1)
  BY DEF ServeInv, AnswersInOrder, AnsweredBefore
<1>4. \A i \in DOMAIN given : AnsweredBefore(given[i] - 1)'
  <2> SUFFICES ASSUME NEW i \in DOMAIN given PROVE AnsweredBefore(given[i] - 1)'
    OBVIOUS
  <2>1. PICK n : n = given[i] - 1 /\ AnsweredBefore(n)
    BY <1>3
  <2>2. AnsweredBefore(n)'
    BY <1>2, <2>1
  <2> QED BY <2>1, <2>2 DEF AnsweredBefore
<1> QED BY <1>3, <1>4 DEF GivenOrder

\* Every step keeps the answers in order.
LEMMA AnswerStep ==
    ASSUME ServeInv, ServeTypes', PartsInv', [HsNext]_hsvars
    PROVE  LastInv' /\ GivenInv' /\ AnswersInOrder'
<1> USE HsAssumption
<1>1. ServeTypes /\ PartsInv /\ LastInv /\ GivenInv /\ AnswersInOrder
  BY DEF ServeInv
<1>2. hs.req \in Nat /\ hs'.req \in Nat /\ given \in Seq(Nat) /\ out \in Seq(Nat \X Whats)
  BY <1>1 DEF ServeTypes
<1>3. OutOrder(out) /\ ((out # <<>> /\ out[Len(out)][2] = "end") => hs.rx = "ended")
  BY <1>1 DEF AnswersInOrder, OutOrder
<1>4. ASSUME OutOrder(out'), GivenOrder', (out' # <<>> /\ out'[Len(out')][2] = "end") => hs'.rx = "ended"
      PROVE  AnswersInOrder'
  <2>1. ~hs'.tail
    BY DEF PartsInv
  <2> QED BY <1>4, <2>1 DEF AnswersInOrder, OutOrder, GivenOrder, AnsweredBefore
\* Nothing is written.
<1>5. CASE ReadLine
  <2>1. UNCHANGED <<peer, out, given>> /\ hs'.rx = hs.rx /\ hs'.pc \in {"refuse", "head"} /\ hs.pc = "line"
    BY <1>1, <1>5 DEF ReadLine, ServeTypes
  <2>2. hs'.req = hs.req + 1
    <3>1. Upcoming = Part(hs.req + 1, "head") /\ Upcoming = peer.parts[1]
      BY <1>1, <1>5 DEF ReadLine, PartsInv, Upcoming
    <3>2. NextPart = peer.parts[1]
      BY <1>1, <1>5 DEF ReadLine, NextPart, ServeTypes
    <3> QED BY <1>1, <1>5, <3>1, <3>2 DEF ReadLine, Part, ServeTypes
  <2>3. LastInv'
    <3>1. IF out = <<>> THEN hs.req = 0 ELSE out[Len(out)][1] = hs.req /\ out[Len(out)][2] \in {"whole", "end"}
      BY <1>1, <2>1 DEF LastInv
    <3>2. hs'.req = 1 <=> hs.req = 0
      BY <1>2, <2>2
    <3>3. hs'.req - 1 = hs.req
      BY <1>2, <2>2
    <3> QED BY <2>1, <3>1, <3>2, <3>3 DEF LastInv
  <2>4. \A i \in DOMAIN given : given[i] \in Nat /\ given[i] <= hs.req
    BY <1>1, <1>2 DEF GivenInv
  <2>5. \A i \in DOMAIN given' : given'[i] <= hs'.req /\ given'[i] < hs'.req
    BY <1>2, <2>1, <2>2, <2>4
  <2>6. AnsweredBefore(hs.req)
    BY <1>1, <2>1 DEF GivenInv
  <2>7. GivenInv'
    BY <1>2, <2>1, <2>2, <2>5, <2>6 DEF GivenInv, AnsweredBefore
  <2>8. GivenOrder'
    BY <2>1, GivenSame
  <2> QED BY <1>3, <1>4, <2>1, <2>3, <2>7, <2>8
<1>6. CASE \/ ReadHead \/ ReadBody \/ ReadEof \/ ProducerEnds \/ PeerSends \/ PeerCloses \/ UNCHANGED hsvars
  <2>1. UNCHANGED <<out, given>> /\ hs'.req = hs.req
    BY <1>1, <1>6 DEF ReadHead, ReadBody, ReadEof, ProducerEnds, PeerSends, PeerCloses, hsvars, HsGoto, ServeTypes
  <2>2. (hs'.rx = hs.rx) \/ (hs.pc = "stream" /\ hs'.pc = "stream")
    BY <1>1, <1>6 DEF ReadHead, ReadBody, ReadEof, ProducerEnds, PeerSends, PeerCloses, hsvars, HsGoto, ServeTypes
  <2>3. \/ hs'.pc = hs.pc \/ hs'.pc = "closed"
        \/ hs.pc \in {"head", "body"} /\ hs'.pc \in {"body", "route", "respond", "refuse"}
    BY <1>1, <1>6 DEF ReadHead, ReadBody, ReadEof, ProducerEnds, PeerSends, PeerCloses, hsvars, HsGoto, ServeTypes
  <2>4. LastInv'
    <3>1. CASE hs'.pc = hs.pc
      BY <1>1, <2>1, <3>1 DEF LastInv
    <3>2. CASE hs'.pc = "closed"
      BY <3>2 DEF LastInv
    <3>3. CASE hs.pc \in {"head", "body"} /\ hs'.pc \in {"body", "route", "respond", "refuse"}
      BY <1>1, <2>1, <3>3 DEF LastInv
    <3> QED BY <2>3, <3>1, <3>2, <3>3
  <2>5. AnsweredBefore(hs.req - 1) /\ (hs.pc = "line" => AnsweredBefore(hs.req))
    BY <1>1, <1>2 DEF GivenInv, AnsweredBefore
  <2>6. GivenInv'
    <3>1. \A i \in DOMAIN given' : given'[i] <= hs'.req
                 /\ (hs'.pc \in {"head", "body", "route", "handle", "refuse"} => given'[i] < hs'.req)
      BY <1>1, <2>1, <2>3 DEF GivenInv
    <3>2. hs'.pc = "line" => hs.pc = "line"
      BY <2>3
    <3> QED BY <2>1, <2>5, <3>1, <3>2 DEF GivenInv, AnsweredBefore
  <2>7. GivenOrder'
    BY <2>1, GivenSame
  <2>8. (out' # <<>> /\ out'[Len(out')][2] = "end") => hs'.rx = "ended"
    BY <1>1, <1>3, <2>1, <2>2 DEF LastInv
  <2> QED BY <1>3, <1>4, <2>1, <2>4, <2>6, <2>7, <2>8
\* Something is written: what it is and where it leads.
<1>7. ASSUME NEW w \in Whats, NEW n \in Nat, out' = Append(out, <<n, w>>),
             n = (IF hs.pc = "line" THEN hs.req + 1 ELSE hs.req),
             hs.pc \notin {"closed", "h2", "websocket", "tunnel"},
             hs.pc = "stream" => w = "end",
             w = "end" => hs'.rx = "ended",
             hs'.req = hs.req, GivenOrder', \A i \in DOMAIN given' : given'[i] <= hs.req,
             \/ hs'.pc \in {"closed", "h2", "websocket", "tunnel"}
             \/ hs'.pc = "line" /\ w \in {"whole", "end"} /\ hs.pc \in {"respond", "stream"}
             \/ hs'.pc = "stream" /\ w = "head" /\ hs.pc = "respond"
      PROVE  LastInv' /\ GivenInv' /\ AnswersInOrder'
  <2> DEFINE e == <<n, w>>
  <2>1. e \in Nat \X Whats /\ e[1] = n /\ e[2] = w
    OBVIOUS
  <2>2. OutOrder(out')
    BY <1>1, <1>7, <2>1, OrderKept DEF ServeInv
  <2>3. out' # <<>> /\ out'[Len(out')] = e /\ \E j \in DOMAIN out' : out'[j] = e
    BY <1>1, <1>7, <2>1, WroteOne
  <2>4. AnswersInOrder'
    BY <1>4, <1>7, <2>1, <2>2, <2>3
  <2>5. LastInv'
    BY <1>7, <2>1, <2>3 DEF LastInv
  <2>6. AnsweredBefore(hs.req - 1)
    BY <1>1, <1>2 DEF GivenInv, AnsweredBefore
  <2>7. AnsweredBefore(hs.req - 1)'
    <3>1. PICK m : m = hs.req - 1
      OBVIOUS
    <3>2. AnsweredBefore(m)'
      BY <1>1, <1>7, <2>1, <2>6, <3>1, AnswersStay
    <3> QED BY <1>7, <3>1, <3>2 DEF AnsweredBefore
  <2>8. hs'.pc = "line" => AnsweredBefore(hs.req)'
    <3> SUFFICES ASSUME hs'.pc = "line", NEW r \in 1..hs.req
                 PROVE  \E j \in DOMAIN out' : out'[j][1] = r /\ out'[j][2] \in {"whole", "end"}
      BY <1>7 DEF AnsweredBefore
    <3>1. CASE r = hs.req
      BY <1>7, <2>1, <2>3, <3>1
    <3>2. CASE r \in 1..hs.req - 1
      BY <1>7, <2>7, <3>2 DEF AnsweredBefore
    <3> QED BY <1>2, <3>1, <3>2
  <2>9. GivenInv'
    BY <1>7, <2>7, <2>8 DEF GivenInv
  <2> QED BY <2>4, <2>5, <2>9
<1>8. \A i \in DOMAIN given : given[i] <= hs.req
  BY <1>1 DEF GivenInv
<1>9. ASSUME given' = given, NEW e \in Nat \X Whats, out' = Append(out, e)
      PROVE  GivenOrder' /\ \A i \in DOMAIN given' : given'[i] <= hs.req
  BY <1>8, <1>9, GivenSame
<1>10. CASE ReadTimeout
  <2>1. PICK n \in Nat : n = IF hs.pc = "line" THEN hs.req + 1 ELSE hs.req
    BY <1>2
  <2>2. /\ out' = Append(out, <<n, "408">>) /\ given' = given /\ hs'.req = hs.req /\ hs'.pc = "closed"
        /\ hs.pc \in {"line", "body"} /\ "408" \in Whats
    BY <1>1, <1>10, <2>1 DEF ReadTimeout, HsGoto, ServeTypes, Whats, Final
  <2> QED BY <1>7, <1>9, <2>1, <2>2
<1>11. CASE Refuse
  <2>1. /\ out' = Append(out, <<hs.req, "refusal">>) /\ given' = given /\ hs'.req = hs.req /\ hs'.pc = "closed"
        /\ hs.pc = "refuse" /\ "refusal" \in Whats
    BY <1>1, <1>11 DEF Refuse, Wrote, HsGoto, ServeTypes, Whats, Final
  <2> QED BY <1>2, <1>7, <1>9, <2>1
<1>12. CASE RespondWhole
  <2>1. /\ out' = Append(out, <<hs.req, "whole">>) /\ given' = given /\ hs'.req = hs.req
        /\ hs'.pc \in {"line", "closed"} /\ hs.pc = "respond" /\ "whole" \in Whats
    BY <1>1, <1>12 DEF RespondWhole, Wrote, HsGoto, ServeTypes, Whats
  <2> QED BY <1>2, <1>7, <1>9, <2>1
<1>13. CASE RespondStream
  <2>1. /\ out' = Append(out, <<hs.req, "head">>) /\ given' = given /\ hs'.req = hs.req
        /\ hs'.pc = "stream" /\ hs.pc = "respond" /\ "head" \in Whats
    BY <1>1, <1>13 DEF RespondStream, Wrote, ServeTypes, Whats
  <2> QED BY <1>2, <1>7, <1>9, <2>1
<1>14. CASE StreamEnds
  <2>1. CASE hs.rx = "ended"
    <3>1. /\ out' = Append(out, <<hs.req, "end">>) /\ given' = given /\ hs'.req = hs.req /\ hs'.rx = "ended"
          /\ hs'.pc \in {"line", "closed"} /\ hs.pc = "stream" /\ "end" \in Whats
      BY <1>1, <1>14, <2>1 DEF StreamEnds, Wrote, HsGoto, ServeTypes, Whats
    <3> QED BY <1>2, <1>7, <1>9, <3>1
  <2>2. CASE hs.rx # "ended"
    <3>1. /\ UNCHANGED <<out, given>> /\ hs'.req = hs.req /\ hs'.rx = hs.rx /\ hs'.pc = "closed" /\ hs.pc = "stream"
      BY <1>1, <1>14, <2>2 DEF StreamEnds, HsGoto, ServeTypes
    <3>2. LastInv'
      BY <3>1 DEF LastInv
    <3>3. GivenInv'
      BY <1>1, <3>1 DEF GivenInv, AnsweredBefore
    <3>4. GivenOrder'
      BY <3>1, GivenSame
    <3> QED BY <1>3, <1>4, <3>1, <3>2, <3>3, <3>4
  <2> QED BY <2>1, <2>2
<1>15. CASE Route \/ Handle1
  <2>1. hs.pc \in {"route", "handle"} /\ hs'.req = hs.req /\ hs'.rx = hs.rx
    BY <1>1, <1>15 DEF Route, Handle1, HsGoto, ServeTypes
  <2>2. CASE out' = out
    <3>1. hs'.pc \in {"handle", "respond"}
      <4>1. \A w : ~Wrote(w)
        BY <1>2, <2>2 DEF Wrote
      <4> QED BY <1>1, <1>15, <4>1 DEF Route, Handle1, HsGoto, ServeTypes
    <3>2. CASE given' = given
      <4>1. hs.pc = "handle" => given' # given
        BY <1>2, <1>15 DEF Route, Handle1
      <4>2. hs.pc = "route"
        BY <2>1, <3>2, <4>1
      <4>3. LastInv'
        BY <1>1, <2>1, <2>2, <3>1, <4>2 DEF LastInv
      <4>4. GivenInv'
        BY <1>1, <2>1, <2>2, <3>1, <3>2, <4>2 DEF GivenInv, AnsweredBefore
      <4>5. GivenOrder'
        BY <2>2, <3>2, GivenSame
      <4> QED BY <1>3, <1>4, <2>1, <2>2, <4>3, <4>4, <4>5
    <3>3. CASE given' # given
      <4>1. given' = Append(given, hs.req) /\ hs'.pc = "respond"
        <5>1. \A w : ~Wrote(w)
          BY <1>2, <2>2 DEF Wrote
        <5> QED BY <1>1, <1>15, <3>3, <5>1 DEF Route, Handle1, HsGoto, ServeTypes
      <4>2. GivenOrder' /\ \A i \in DOMAIN given' : given'[i] <= hs.req
        BY <2>1, <2>2, <4>1, GivenKept
      <4>3. LastInv'
        BY <1>1, <2>1, <2>2, <4>1 DEF LastInv
      <4>4. AnsweredBefore(hs.req - 1)
        BY <1>1, <2>1 DEF GivenInv
      <4>5. GivenInv'
        BY <2>1, <2>2, <4>1, <4>2, <4>4 DEF GivenInv, AnsweredBefore
      <4> QED BY <1>3, <1>4, <2>1, <2>2, <4>2, <4>3, <4>5
    <3> QED BY <3>2, <3>3
  <2>3. CASE out' # out
    <3>1. PICK w \in {"101", "200"} : Wrote(w)
      BY <1>15, <2>3 DEF Route, Handle1
    <3>2. given' = Append(given, hs.req) /\ hs'.pc \in {"h2", "websocket", "tunnel"}
      BY <1>1, <1>15, <2>3 DEF Route, Handle1, HsGoto, ServeTypes
    <3>3. out' = Append(out, <<hs.req, w>>) /\ <<hs.req, w>> \in Nat \X Whats /\ w \in Whats
      BY <1>2, <3>1 DEF Wrote, Whats, Final
    <3>4. GivenOrder' /\ \A i \in DOMAIN given' : given'[i] <= hs.req
      BY <2>1, <3>2, <3>3, GivenKept
    <3> QED BY <1>2, <1>7, <2>1, <3>1, <3>2, <3>3, <3>4
  <2> QED BY <2>2, <2>3
<1> QED BY <1>5, <1>6, <1>10, <1>11, <1>12, <1>13, <1>14, <1>15 DEF HsNext, Thread

\* For any number of requests of any kinds, at any pace of the client: every response
\* answers the next request, nothing follows a refusal, a switch of protocol or an
\* unfinished body, no part of a body is taken for a request line, and the handler is
\* given a request only when all before it were answered.
THEOREM AnswersStayInOrder == HsSpec => []AnswersInOrder
<1>1. HsInit => ServeInv
  <2> SUFFICES ASSUME HsInit PROVE ServeInv
    OBVIOUS
  <2>1. PICK ks \in [1..HsRequests -> HsKinds] :
          peer = [kind |-> ks, sent |-> 0, half |-> FALSE, parts |-> <<>>, closed |-> FALSE]
    BY DEF HsInit
  <2>2. hs = [pc |-> "line", req |-> 0, rx |-> "none", tail |-> FALSE] /\ out = <<>> /\ given = <<>>
    BY DEF HsInit
  <2>3. ServeTypes
    <3>1. peer \in [kind : [1..HsRequests -> HsKinds], sent : 0..HsRequests, half : BOOLEAN,
                    parts : Seq(FlightParts), closed : BOOLEAN]
      BY <2>1, HsAssumption
    <3> QED BY <2>2, <3>1 DEF ServeTypes
  <2>4. PartsInv
    BY <2>1, <2>2 DEF PartsInv, Upcoming, NextSent, Part
  <2>5. LastInv /\ GivenInv /\ AnswersInOrder
    BY <2>2 DEF LastInv, GivenInv, AnswersInOrder, AnsweredBefore
  <2> QED BY <2>3, <2>4, <2>5 DEF ServeInv
<1>2. ServeInv /\ [HsNext]_hsvars => ServeInv'
  <2> SUFFICES ASSUME ServeInv, [HsNext]_hsvars PROVE ServeInv'
    OBVIOUS
  <2>1. ServeTypes' /\ PartsInv'
    BY ServeTypeStep, PartsStep DEF ServeInv
  <2> QED BY <2>1, AnswerStep DEF ServeInv
<1>3. ServeInv => AnswersInOrder
  BY DEF ServeInv
<1> QED BY <1>1, <1>2, <1>3, PTL DEF HsSpec

-----------------------------------------------------------------------------
(* Proxy: requests in flight *)

ProxyTypes ==
    /\ rot.in_flight \in [Upstreams -> Nat]
    /\ DOMAIN rot = {"cursor", "count", "in_flight", "failures", "ejected"}
    /\ call \in [PxRequests -> [pc : {"idle", "held"}, on : Nat]]
    /\ \A r \in PxRequests : call[r].pc = "held" => call[r].on \in Upstreams

OnUpstream(u) == {r \in PxRequests : call[r].pc = "held" /\ call[r].on = u}

ProxyInv == ProxyTypes /\ InFlightExact

\* What reserve() chooses is an upstream with room.
LEMMA ChosenHasRoom ==
    ASSUME NEW u \in Chosen
    PROVE  u \in Upstreams /\ HasRoom(u)
<1>1. CASE Usable # {}
  BY <1>1 DEF Chosen, InTurn, LeastLoaded, Usable
<1>2. CASE Usable = {}
  BY <1>2 DEF Chosen, Probe
<1> QED BY <1>1, <1>2

\* The requests of an upstream are finitely many.
LEMMA OnUpstreamFinite ==
    ASSUME NEW u
    PROVE  /\ IsFiniteSet(OnUpstream(u)) /\ Cardinality(OnUpstream(u)) \in Nat
           /\ IsFiniteSet(OnUpstream(u)') /\ Cardinality(OnUpstream(u)') \in Nat
<1>1. OnUpstream(u) \subseteq PxRequests /\ OnUpstream(u)' \subseteq PxRequests
  BY DEF OnUpstream
<1> QED BY <1>1, PxAssumption, FS_Subset, FS_CardinalityType

\* A request that gives its upstream back.
LEMMA ReleaseStep ==
    ASSUME ProxyInv, NEW r \in PxRequests, call[r].pc = "held",
           call' = [call EXCEPT ![r].pc = "idle"],
           rot'.in_flight = [rot.in_flight EXCEPT ![call[r].on] = @ - 1],
           DOMAIN rot' = DOMAIN rot
    PROVE  ProxyInv'
<1> DEFINE u == call[r].on
<1>1. u \in Upstreams /\ r \in OnUpstream(u)
  BY DEF ProxyInv, ProxyTypes, OnUpstream
<1>2. \A v \in Upstreams \ {u} : OnUpstream(v)' = OnUpstream(v)
  BY DEF ProxyInv, ProxyTypes, OnUpstream
<1>3. PICK w : w = u
  OBVIOUS
<1>4. OnUpstream(w)' = OnUpstream(w) \ {r}
  BY <1>3 DEF ProxyInv, ProxyTypes, OnUpstream
<1>5. Cardinality(OnUpstream(w)') = Cardinality(OnUpstream(w)) - 1 /\ Cardinality(OnUpstream(w)') \in Nat
  BY <1>1, <1>3, <1>4, OnUpstreamFinite, FS_RemoveElement
<1>6. \A v \in Upstreams : rot.in_flight[v] = Cardinality(OnUpstream(v)) /\ (PxLimit > 0 => rot.in_flight[v] <= PxLimit)
  BY DEF ProxyInv, InFlightExact, OnUpstream
<1>7. rot'.in_flight[w] = Cardinality(OnUpstream(w)')
  BY <1>1, <1>3, <1>5, <1>6 DEF ProxyInv, ProxyTypes
<1>8. \A v \in Upstreams : rot'.in_flight[v] = Cardinality(OnUpstream(v)') /\ rot'.in_flight[v] <= rot.in_flight[v]
  <2>1. rot'.in_flight[w] <= rot.in_flight[w]
    BY <1>1, <1>3, <1>5, <1>6, <1>7, OnUpstreamFinite
  <2>2. \A v \in Upstreams \ {u} : rot'.in_flight[v] = rot.in_flight[v] /\ rot.in_flight[v] \in Nat
    BY <1>1 DEF ProxyInv, ProxyTypes
  <2> QED BY <1>2, <1>3, <1>6, <1>7, <2>1, <2>2
<1>9. rot'.in_flight \in [Upstreams -> Nat]
  <2>1. rot'.in_flight[w] \in Nat
    BY <1>5, <1>7
  <2> QED BY <1>1, <1>3, <2>1 DEF ProxyInv, ProxyTypes
<1>10. ProxyTypes'
  BY <1>9 DEF ProxyInv, ProxyTypes
<1>11. InFlightExact'
  <2>1. \A v \in Upstreams : PxLimit > 0 => rot'.in_flight[v] <= PxLimit
    BY <1>6, <1>8, <1>9, PxAssumption DEF ProxyInv, ProxyTypes
  <2> QED BY <1>8, <2>1 DEF InFlightExact, OnUpstream
<1> QED BY <1>10, <1>11 DEF ProxyInv

\* A request that takes an upstream.
LEMMA ReserveStep ==
    ASSUME ProxyInv, NEW r \in PxRequests, Reserve(r)
    PROVE  ProxyInv'
<1>1. CASE UNCHANGED <<rot, call>>
  BY <1>1 DEF ProxyInv, ProxyTypes, InFlightExact
<1>2. CASE \E u \in Chosen :
            /\ rot' = [rot EXCEPT !.cursor = (@ + 1) % PxCursor, !.count = @ + 1, !.in_flight[u] = @ + 1]
            /\ call' = [call EXCEPT ![r] = [pc |-> "held", on |-> u]]
  <2>1. PICK u \in Chosen :
            /\ rot' = [rot EXCEPT !.cursor = (@ + 1) % PxCursor, !.count = @ + 1, !.in_flight[u] = @ + 1]
            /\ call' = [call EXCEPT ![r] = [pc |-> "held", on |-> u]]
    BY <1>2
  <2>2. u \in Upstreams /\ u \in Nat /\ HasRoom(u)
    BY ChosenHasRoom, PxAssumption DEF Upstreams
  <2>3. call[r].pc = "idle"
    BY DEF Reserve
  <2>4. OnUpstream(u)' = OnUpstream(u) \cup {r} /\ r \notin OnUpstream(u)
    BY <2>1, <2>2, <2>3 DEF ProxyInv, ProxyTypes, OnUpstream
  <2>5. \A v \in Upstreams \ {u} : OnUpstream(v)' = OnUpstream(v)
    BY <2>1, <2>2, <2>3 DEF ProxyInv, ProxyTypes, OnUpstream
  <2>6. Cardinality(OnUpstream(u)') = Cardinality(OnUpstream(u)) + 1
    BY <2>4, OnUpstreamFinite, FS_AddElement
  <2>7. \A v \in Upstreams : rot.in_flight[v] = Cardinality(OnUpstream(v)) /\ (PxLimit > 0 => rot.in_flight[v] <= PxLimit)
    BY DEF ProxyInv, InFlightExact, OnUpstream
  <2>8. rot'.in_flight = [rot.in_flight EXCEPT ![u] = @ + 1] /\ DOMAIN rot' = DOMAIN rot
    BY <2>1 DEF ProxyInv, ProxyTypes
  <2>9. /\ rot'.in_flight \in [Upstreams -> Nat] /\ rot'.in_flight[u] = rot.in_flight[u] + 1
        /\ \A v \in Upstreams \ {u} : rot'.in_flight[v] = rot.in_flight[v]
    BY <2>2, <2>8 DEF ProxyInv, ProxyTypes
  <2>10. PxLimit > 0 => rot'.in_flight[u] <= PxLimit
    BY <2>2, <2>9, PxAssumption DEF HasRoom, ProxyInv, ProxyTypes
  <2>11. call' \in [PxRequests -> [pc : {"idle", "held"}, on : Nat]]
    BY <2>1, <2>2 DEF ProxyInv, ProxyTypes
  <2>12. \A q \in PxRequests : call'[q].pc = "held" => call'[q].on \in Upstreams
    BY <2>1, <2>2 DEF ProxyInv, ProxyTypes
  <2>13. ProxyTypes'
    BY <2>8, <2>9, <2>11, <2>12 DEF ProxyInv, ProxyTypes
  <2>14. InFlightExact'
    BY <2>2, <2>5, <2>6, <2>7, <2>9, <2>10 DEF InFlightExact, OnUpstream
  <2> QED BY <2>13, <2>14 DEF ProxyInv
<1> QED BY <1>1, <1>2 DEF Reserve

\* For any number of upstreams and requests and every limit, the in-flight count of an
\* upstream is exactly the requests that hold it, on every exit path, and within
\* max_in_flight; a probe of an ejected upstream included.
THEOREM InFlightStaysExact == PxSpec => []InFlightExact
<1>1. PxInit => ProxyInv
  <2> SUFFICES ASSUME PxInit PROVE ProxyInv
    OBVIOUS
  <2>1. ProxyTypes
    BY DEF PxInit, ProxyTypes
  <2>2. \A u \in Upstreams : OnUpstream(u) = {}
    BY DEF PxInit, OnUpstream
  <2>3. \A u \in Upstreams : Cardinality(OnUpstream(u)) = 0
    BY <2>2, FS_EmptySet
  <2>4. \A u \in Upstreams : rot.in_flight[u] = 0
    BY DEF PxInit
  <2>5. InFlightExact
    BY <2>3, <2>4, PxAssumption DEF InFlightExact, OnUpstream
  <2> QED BY <2>1, <2>5 DEF ProxyInv
<1>2. ProxyInv /\ [PxNext]_pxvars => ProxyInv'
  <2> SUFFICES ASSUME ProxyInv, [PxNext]_pxvars PROVE ProxyInv'
    OBVIOUS
  <2>1. CASE \E r \in PxRequests : Reserve(r)
    BY <2>1, ReserveStep
  <2>2. CASE \E r \in PxRequests : Discharge(r)
    <3>1. PICK r \in PxRequests : Discharge(r)
      BY <2>2
    <3>2. rot'.in_flight = [rot.in_flight EXCEPT ![call[r].on] = @ - 1] /\ DOMAIN rot' = DOMAIN rot
      BY <3>1 DEF Discharge, ProxyInv, ProxyTypes
    <3> QED BY <3>1, <3>2, ReleaseStep DEF Discharge
  <2>3. CASE \E r \in PxRequests : Finish(r)
    <3>1. PICK r \in PxRequests : Finish(r)
      BY <2>3
    <3>2. rot'.in_flight = [rot.in_flight EXCEPT ![call[r].on] = @ - 1] /\ DOMAIN rot' = DOMAIN rot
      BY <3>1 DEF Finish, ProxyInv, ProxyTypes
    <3> QED BY <3>1, <3>2, ReleaseStep DEF Finish
  <2>4. CASE Tick
    <3>1. rot'.in_flight = rot.in_flight /\ DOMAIN rot' = DOMAIN rot /\ call' = call
      BY <2>4 DEF Tick, ProxyInv, ProxyTypes
    <3> QED BY <3>1 DEF ProxyInv, ProxyTypes, InFlightExact
  <2>5. CASE Bridging \/ UNCHANGED pxvars
    <3>1. UNCHANGED <<rot, call>>
      BY <2>5 DEF Bridging, BridgeOpen, PumpStop, PumpMessage, PumpClose, ClientMessage, ClientLegEnds,
                  UpstreamEnds, Relay, pxvars
    <3> QED BY <3>1 DEF ProxyInv, ProxyTypes, InFlightExact
  <2> QED BY <2>1, <2>2, <2>3, <2>4, <2>5 DEF PxNext
<1>3. ProxyInv => InFlightExact
  BY DEF ProxyInv
<1> QED BY <1>1, <1>2, <1>3, PTL DEF PxSpec

-----------------------------------------------------------------------------
(***************************************************************************)
(* EventConn: ResponsesWhole, for every script, number of requests and     *)
(* chunks.  A full socket cuts what is written anywhere, so the invariant  *)
(* speaks of the parts written and those still buffered as one sequence.   *)
(***************************************************************************)

EcParts == [req : 0..NRequests, part : 0..(NChunks + 1)]

EcScripts == [Requests -> [kind : Kinds, close : BOOLEAN, coding : {"length", "chunked"}, pipelined : BOOLEAN]]

InTypes ==
    /\ sent \in 0..LastUnit /\ got \in 0..sent /\ read \in 0..got /\ eof \in BOOLEAN
    /\ phase \in {"head", "chunked", "done"} /\ clock \in {"off", "on", "late"}
    /\ parsed \in 0..NRequests

OutTypes ==
    /\ wire \in Seq(EcParts) /\ ecout \in Seq(EcParts) /\ Len(ecout) <= 2
    /\ keep_alive \in BOOLEAN /\ switch \in {"none", "upgrade", "tunnel"}
    /\ stream \in 0..NRequests
    /\ made \in [Requests -> 0..NChunks] /\ done \in [Requests -> BOOLEAN]
    /\ ecpc \in {"parked", "write", "pump", "switch", "parse", "closed", "upgrade", "tunnel"}
    /\ end \in {"open", "clean", "error", "switched"}

EcTypes == script \in EcScripts /\ InTypes /\ OutTypes

\* A request line is parsed only where the client put one: a chunked request is never
\* left again.  Nothing is buffered once write_more() is through, and a connection
\* about to switch parses no more.
ReadInv ==
    /\ phase # "chunked" => read = parsed /\ \A k \in 1..parsed : script[k].coding = "length"
    /\ phase # "head" => parsed > 0
    /\ ecpc \in {"pump", "switch", "parse"} => ecout = <<>>
    /\ ecpc = "parse" => switch = "none"

Emitted == Range(wire) \cup Range(ecout)

\* The chunks of a body leave in their order, and its end behind all of them.
BodyInv ==
    /\ stream # 0 => script[stream].kind = "stream"
    /\ \A k \in Requests, i \in 1..NChunks : RChunk(k, i) \in Emitted =>
          i <= made[k] /\ \A j \in 1..i : RChunk(k, j) \in Emitted
    /\ \A k \in Requests : REnd(k) \in Emitted /\ script[k].kind = "stream" =>
          done[k] /\ \A i \in 1..made[k] : RChunk(k, i) \in Range(wire)

\* A pending switch stands behind its head, written or buffered.
SwitchInv ==
    /\ switch # "none" =>
          /\ parsed \in Requests /\ script[parsed].kind = switch
          /\ RHead(parsed) \in Emitted
          /\ Buffered => IF ecout = <<>> THEN wire # <<>> /\ wire[Len(wire)] = RHead(parsed)
                                         ELSE ecout = <<RHead(parsed)>>
    /\ end = "switched" => switch # "none" /\ ecpc = switch /\ ecout = <<>>

EndedUpTo(parts, n) ==
    /\ \A p \in Range(parts) : REnd(p.req) \in Range(parts)
    /\ \A k \in 1..n : REnd(k) \in Range(parts)

\* Without a switch, whatever began has ended, up to the request being parsed.
AnsweredTo == IF phase = "head" THEN parsed ELSE parsed - 1
InTurnInv ==
    Buffered =>
      /\ OneByOne(wire \o ecout)
      /\ switch = "none" => EndedUpTo(wire \o ecout, AnsweredTo)

ConnInv == EcTypes /\ ReadInv /\ BodyInv /\ SwitchInv /\ InTurnInv

\* A nonempty set of natural numbers has a least element.
LEMMA LeastNumber ==
    ASSUME NEW S \in SUBSET Nat, S # {}
    PROVE  \E x \in S : \A y \in S : x <= y
<1> DEFINE Below == {ss \in Nat \X Nat : ss[1] < ss[2]}
<1>1. IsWellFoundedOn(Below, Nat)
  BY NatLessThanWellFounded DEF OpToRel
<1>2. \A x, y \in Nat : <<y, x>> \notin Below => x <= y
  OBVIOUS
<1> HIDE DEF Below
<1>3. \E x \in S : \A y \in S : ~(<<y, x>> \in Below)
  BY <1>1, WFMin
<1> QED BY <1>2, <1>3

\* A set of numbers without gaps is as large as its largest number.
LEMMA PrefixCounts ==
    ASSUME NEW n \in Nat, NEW S \in SUBSET (1..n), \A i \in S : \A j \in 1..i : j \in S
    PROVE  Cardinality(S) \in 0..n /\ S = 1..Cardinality(S)
<1> DEFINE Out == {i \in 1..(n + 1) : i \notin S}
<1>1. Out \in SUBSET Nat /\ n + 1 \in Out
  OBVIOUS
<1>2. PICK x \in Out : \A y \in Out : x <= y
  <2> HIDE DEF Out
  <2> QED BY <1>1, LeastNumber
<1>3. x \in 1..(n + 1) /\ x \notin S
  OBVIOUS
<1>4. \A i \in 1..(x - 1) : i \in S
  BY <1>2, <1>3
<1>5. \A i \in S : i \in 1..(x - 1)
  <2>1. \A i \in S : ~(x \in 1..i)
    BY <1>3
  <2>2. \A i \in S : i \in 1..n
    OBVIOUS
  <2> QED BY <1>3, <2>1, <2>2
<1>6. S = 1..(x - 1)
  BY <1>4, <1>5
<1>7. Cardinality(1..(x - 1)) = x - 1
  BY <1>3, FS_Interval
<1> QED BY <1>3, <1>6, <1>7

\* pump_body() counts the chunks it has taken: they are the first ones.
LEMMA TakenCounts ==
    ASSUME EcTypes, BodyInv, NEW k \in Requests
    PROVE  /\ Taken(k) \in 0..made[k] /\ made[k] \in 0..NChunks
           /\ \A i \in 1..NChunks : RChunk(k, i) \in Emitted <=> i <= Taken(k)
<1> DEFINE S == {i \in 1..NChunks : RChunk(k, i) \in Emitted}
<1>1. NChunks \in Nat /\ made[k] \in 0..NChunks
  BY ConnAssumption DEF EcTypes, OutTypes
<1>2. Taken(k) = Cardinality(S)
  BY DEF Taken, Emitted
<1>3. \A i \in S : i <= made[k] /\ \A j \in 1..i : j \in S
  BY <1>1 DEF BodyInv
<1>4. Cardinality(S) \in 0..NChunks /\ S = 1..Cardinality(S)
  <2>1. S \in SUBSET (1..NChunks)
    OBVIOUS
  <2> HIDE DEF S
  <2> QED BY <1>1, <1>3, <2>1, PrefixCounts
<1>5. Cardinality(S) <= made[k]
  <2> HIDE DEF S
  <2> QED BY <1>1, <1>3, <1>4
<1>6. \A i \in 1..NChunks : RChunk(k, i) \in Emitted <=> i \in S
  OBVIOUS
<1> HIDE DEF S
<1> QED BY <1>1, <1>2, <1>4, <1>5, <1>6

\* Parts go to the socket, or stay in the buffer when it is full.
Emits(parts) ==
    /\ ecout = <<>>
    /\ \/ wire' = wire \o parts /\ ecout' = <<>>
       \/ wire' = wire /\ ecout' = parts

LEMMA EmptyConcat ==
    ASSUME NEW S, NEW s \in Seq(S)
    PROVE  s \o <<>> = s /\ <<>> \o s = s
OBVIOUS

LEMMA RangeConcat ==
    ASSUME NEW S, NEW s \in Seq(S), NEW t \in Seq(S)
    PROVE  s \o t \in Seq(S) /\ Range(s \o t) = Range(s) \cup Range(t)
<1>1. s \o t \in Seq(S) /\ Len(s \o t) = Len(s) + Len(t)
  OBVIOUS
<1>2. \A i \in 1..Len(s) : i \in DOMAIN (s \o t) /\ (s \o t)[i] = s[i]
  OBVIOUS
<1>3. \A i \in 1..Len(t) : Len(s) + i \in DOMAIN (s \o t) /\ (s \o t)[Len(s) + i] = t[i]
  OBVIOUS
<1>4. \A i \in DOMAIN (s \o t) : i \in 1..Len(s) \/ (i - Len(s) \in 1..Len(t) /\ i = Len(s) + (i - Len(s)))
  BY <1>1
<1>5. Range(s) \subseteq Range(s \o t) /\ Range(t) \subseteq Range(s \o t)
  <2>1. DOMAIN s = 1..Len(s) /\ DOMAIN t = 1..Len(t)
    OBVIOUS
  <2>2. Range(s) \subseteq Range(s \o t)
    BY <1>2, <2>1 DEF Range
  <2>3. ASSUME NEW i \in 1..Len(t) PROVE t[i] \in Range(s \o t)
    BY <1>3 DEF Range
  <2> QED BY <2>1, <2>2, <2>3 DEF Range
<1>6. ASSUME NEW i \in DOMAIN (s \o t) PROVE (s \o t)[i] \in Range(s) \cup Range(t)
  <2>1. CASE i \in 1..Len(s)
    BY <1>2, <2>1 DEF Range
  <2>2. CASE i - Len(s) \in 1..Len(t)
    BY <1>3, <1>4, <2>2 DEF Range
  <2> QED BY <1>4, <2>1, <2>2
<1>7. Range(s \o t) \subseteq Range(s) \cup Range(t)
  BY <1>6 DEF Range
<1> QED BY <1>1, <1>5, <1>7

LEMMA EmitEffect ==
    ASSUME wire \in Seq(EcParts), NEW parts \in Seq(EcParts), Emits(parts)
    PROVE  /\ wire' \in Seq(EcParts) /\ ecout' \in {<<>>, parts}
           /\ wire \o ecout = wire /\ wire' \o ecout' = wire \o parts
           /\ Range(wire) \subseteq Range(wire') /\ Range(wire' \o ecout') = Range(wire) \cup Range(parts)
           /\ Emitted = Range(wire) /\ Emitted' = Range(wire) \cup Range(parts)
<1>1. Range(<<>>) = {}
  BY DEF Range
<1>2. wire \o parts \in Seq(EcParts) /\ Range(wire \o parts) = Range(wire) \cup Range(parts)
  BY RangeConcat
<1>3. wire \o <<>> = wire /\ (wire \o parts) \o <<>> = wire \o parts
  BY <1>2, EmptyConcat
<1> QED BY <1>1, <1>2, <1>3 DEF Emits, Emitted

\* The rest of the buffer is written.
LEMMA FlushEffect ==
    ASSUME wire \in Seq(EcParts), ecout \in Seq(EcParts), wire' = wire \o ecout, ecout' = <<>>
    PROVE  /\ wire' \in Seq(EcParts) /\ wire' \o ecout' = wire \o ecout
           /\ Range(wire) \subseteq Range(wire') /\ Emitted' = Emitted
<1>1. Range(<<>>) = {}
  BY DEF Range
<1>2. wire \o ecout \in Seq(EcParts) /\ Range(wire \o ecout) = Range(wire) \cup Range(ecout)
  BY RangeConcat
<1>3. (wire \o ecout) \o <<>> = wire \o ecout
  BY <1>2, EmptyConcat
<1> QED BY <1>1, <1>2, <1>3 DEF Emitted

LEMMA RangeBefore ==
    ASSUME NEW S, NEW w \in Seq(S), NEW j \in 1..(Len(w) + 1)
    PROVE  Range(SubSeq(w, 1, j - 1)) = {w[i] : i \in 1..(j - 1)}
<1>1. SubSeq(w, 1, j - 1) = [i \in 1..(j - 1) |-> w[i]]
  OBVIOUS
<1>2. DOMAIN [i \in 1..(j - 1) |-> w[i]] = 1..(j - 1)
  OBVIOUS
<1> QED BY <1>1, <1>2 DEF Range

\* A part may follow when it belongs to the response that is open, or all have ended.
LEMMA OneMorePart ==
    ASSUME NEW w \in Seq(EcParts), OneByOne(w), NEW p \in EcParts,
           \A q \in Range(w) : q.req = p.req \/ REnd(q.req) \in Range(w),
           \A k \in 1..(p.req - 1) : REnd(k) \in Range(w),
           p # RHead(p.req) => RHead(p.req) \in Range(w)
    PROVE  OneByOne(Append(w, p))
<1> DEFINE v == Append(w, p)
<1>1. v \in Seq(EcParts) /\ Len(v) = Len(w) + 1 /\ v[Len(w) + 1] = p /\ \A i \in 1..Len(w) : v[i] = w[i]
  OBVIOUS
<1>2. Range(w) = {w[i] : i \in 1..Len(w)}
  BY DEF Range
<1> HIDE DEF v
<1>3. ASSUME NEW j \in 1..Len(w) PROVE Range(SubSeq(v, 1, j - 1)) = Range(SubSeq(w, 1, j - 1)) /\ v[j] = w[j]
  <2>1. j \in 1..(Len(w) + 1) /\ j \in 1..(Len(v) + 1) /\ \A i \in 1..(j - 1) : v[i] = w[i]
    BY <1>1
  <2>2. {v[i] : i \in 1..(j - 1)} = {w[i] : i \in 1..(j - 1)}
    BY <2>1
  <2> QED BY <1>1, <2>1, <2>2, RangeBefore
<1>4. Range(SubSeq(v, 1, Len(w))) = Range(w)
  <2>1. Len(w) + 1 \in 1..(Len(v) + 1) /\ (Len(w) + 1) - 1 = Len(w)
    BY <1>1
  <2>2. Range(SubSeq(v, 1, Len(w))) = {v[i] : i \in 1..Len(w)}
    BY <1>1, <2>1, RangeBefore
  <2>3. {v[i] : i \in 1..Len(w)} = {w[i] : i \in 1..Len(w)}
    BY <1>1
  <2> QED BY <1>2, <2>2, <2>3
<1>5. OneByOne(v)
  <2> SUFFICES ASSUME NEW j \in 1..Len(v)
               PROVE  LET now    == v[j].req
                          before == Range(SubSeq(v, 1, j - 1))
                      IN  /\ \A q \in before : q.req = now \/ REnd(q.req) \in before
                          /\ \A k \in 1..(now - 1) : REnd(k) \in before
                          /\ v[j] # RHead(now) => RHead(now) \in before
    BY DEF OneByOne
  <2>1. CASE j \in 1..Len(w)
    BY <1>3, <2>1 DEF OneByOne
  <2>2. CASE j = Len(w) + 1
    <3>1. v[j] = p /\ Range(SubSeq(v, 1, j - 1)) = Range(w)
      BY <1>1, <1>4, <2>2
    <3> QED BY <3>1
  <2> QED BY <1>1, <2>1, <2>2
<1> QED BY <1>5 DEF v

\* What is written of an ordered sequence is ordered.
LEMMA OrderedPrefix ==
    ASSUME NEW w \in Seq(EcParts), NEW t \in Seq(EcParts), OneByOne(w \o t)
    PROVE  OneByOne(w)
<1> DEFINE v == w \o t
<1>1. v \in Seq(EcParts) /\ Len(v) = Len(w) + Len(t) /\ \A i \in 1..Len(w) : v[i] = w[i]
  OBVIOUS
<1>2. OneByOne(v)
  OBVIOUS
<1> HIDE DEF v
<1>3. ASSUME NEW j \in 1..Len(w)
      PROVE  j \in 1..Len(v) /\ Range(SubSeq(v, 1, j - 1)) = Range(SubSeq(w, 1, j - 1)) /\ v[j] = w[j]
  <2>1. j \in 1..(Len(w) + 1) /\ j \in 1..(Len(v) + 1) /\ j \in 1..Len(v) /\ \A i \in 1..(j - 1) : v[i] = w[i]
    BY <1>1
  <2>2. {v[i] : i \in 1..(j - 1)} = {w[i] : i \in 1..(j - 1)}
    BY <2>1
  <2> QED BY <1>1, <2>1, <2>2, RangeBefore
<1>4. ASSUME NEW j \in 1..Len(w)
      PROVE  LET now    == w[j].req
                 before == Range(SubSeq(w, 1, j - 1))
             IN  /\ \A q \in before : q.req = now \/ REnd(q.req) \in before
                 /\ \A k \in 1..(now - 1) : REnd(k) \in before
                 /\ w[j] # RHead(now) => RHead(now) \in before
  BY <1>2, <1>3 DEF OneByOne
<1> QED BY <1>4 DEF OneByOne

LEMMA PartTypes ==
    ASSUME NEW k \in 0..NRequests
    PROVE  /\ RHead(k) \in EcParts /\ REnd(k) \in EcParts /\ RHead(k).req = k /\ REnd(k).req = k
           /\ \A i \in 1..NChunks : RChunk(k, i) \in EcParts /\ RChunk(k, i).req = k
BY ConnAssumption DEF RHead, REnd, RChunk, EcPart, EcParts

\* The head of a response behind responses that have ended.
LEMMA HeadFollows ==
    ASSUME NEW w \in Seq(EcParts), OneByOne(w), NEW k \in 0..NRequests, EndedUpTo(w, k - 1)
    PROVE  OneByOne(w \o <<RHead(k)>>)
<1>1. RHead(k) \in EcParts /\ RHead(k).req = k
  BY PartTypes
<1>2. OneByOne(Append(w, RHead(k)))
  BY <1>1, OneMorePart DEF EndedUpTo
<1>3. w \o <<RHead(k)>> = Append(w, RHead(k))
  BY <1>1
<1> QED BY <1>2, <1>3

\* A whole response behind responses that have ended, or a refusal.
LEMMA ResponseFollows ==
    ASSUME NEW w \in Seq(EcParts), OneByOne(w), NEW k \in 0..NRequests, NEW n \in Nat,
           EndedUpTo(w, n), k - 1 <= n
    PROVE  /\ OneByOne(w \o <<RHead(k), REnd(k)>>)
           /\ EndedUpTo(w \o <<RHead(k), REnd(k)>>, n)
           /\ k = n + 1 => EndedUpTo(w \o <<RHead(k), REnd(k)>>, k)
<1>1. RHead(k) \in EcParts /\ RHead(k).req = k /\ REnd(k) \in EcParts /\ REnd(k).req = k
  BY PartTypes
<1> DEFINE v == Append(w, RHead(k))
<1>2. v \in Seq(EcParts) /\ v = w \o <<RHead(k)>>
  BY <1>1
<1>3. EndedUpTo(w, k - 1)
  BY DEF EndedUpTo
<1>4. OneByOne(v)
  BY <1>2, <1>3, HeadFollows
<1>5. <<RHead(k)>> \in Seq(EcParts) /\ Range(<<RHead(k)>>) = {RHead(k)}
  BY <1>1 DEF Range
<1>6. Range(v) = Range(w) \cup {RHead(k)}
  <2>1. PICK t \in Seq(EcParts) : t = <<RHead(k)>>
    BY <1>5
  <2>2. Range(w \o t) = Range(w) \cup Range(t)
    BY RangeConcat
  <2> QED BY <1>2, <1>5, <2>1, <2>2
<1>7. <<RHead(k), REnd(k)>> \in Seq(EcParts) /\ Range(<<RHead(k), REnd(k)>>) = {RHead(k), REnd(k)}
  BY <1>1 DEF Range
<1>8. w \o <<RHead(k), REnd(k)>> = Append(v, REnd(k))
  BY <1>1
<1>9. Range(w \o <<RHead(k), REnd(k)>>) = Range(w) \cup {RHead(k), REnd(k)}
  <2>1. PICK t \in Seq(EcParts) : t = <<RHead(k), REnd(k)>>
    BY <1>7
  <2>2. Range(w \o t) = Range(w) \cup Range(t)
    BY RangeConcat
  <2> QED BY <1>7, <2>1, <2>2
<1> HIDE DEF v
<1>10. OneByOne(Append(v, REnd(k)))
  <2>1. \A q \in Range(v) : q.req = k \/ REnd(q.req) \in Range(v)
    BY <1>1, <1>3, <1>6 DEF EndedUpTo
  <2>2. \A i \in 1..(k - 1) : REnd(i) \in Range(v)
    BY <1>3, <1>6 DEF EndedUpTo
  <2> QED BY <1>1, <1>2, <1>4, <1>6, <2>1, <2>2, OneMorePart
<1>11. EndedUpTo(w \o <<RHead(k), REnd(k)>>, n)
  BY <1>1, <1>9 DEF EndedUpTo
<1>12. k = n + 1 => EndedUpTo(w \o <<RHead(k), REnd(k)>>, k)
  BY <1>9, <1>11 DEF EndedUpTo
<1> QED BY <1>8, <1>10, <1>11, <1>12

-----------------------------------------------------------------------------
(* EventConn: types and what is read *)

LEMMA UnitsCount ==
    /\ LastUnit \in Nat
    /\ (\A k \in Requests : script[k].coding = "length") => LastUnit = NRequests
<1> DEFINE C == {j \in 1..NRequests : script[j].coding = "chunked"}
<1>1. NRequests \in Nat \ {0}
  BY ConnAssumption
<1>2. IsFiniteSet(C) /\ Cardinality(C) \in Nat
  <2>1. IsFiniteSet(1..NRequests)
    BY <1>1, FS_Interval
  <2>2. C \subseteq 1..NRequests
    OBVIOUS
  <2> HIDE DEF C
  <2> QED BY <2>1, <2>2, FS_Subset, FS_CardinalityType
<1>3. {j \in 1..((NRequests + 1) - 1) : script[j].coding = "chunked"} = C
  BY <1>1
<1>4. LastUnit = ((NRequests + 1) + Cardinality(C)) - 1
  <2>1. HeadAt(NRequests + 1) = (NRequests + 1) + Cardinality({j \in 1..((NRequests + 1) - 1) : script[j].coding = "chunked"})
    BY DEF HeadAt
  <2>2. LastUnit = HeadAt(NRequests + 1) - 1
    BY DEF LastUnit
  <2>3. HeadAt(NRequests + 1) = (NRequests + 1) + Cardinality(C)
    BY ONLY <1>3, <2>1
  <2> QED BY ONLY <2>2, <2>3
<1>5. (\A k \in Requests : script[k].coding = "length") => Cardinality(C) = 0
  <2>1. (\A k \in Requests : script[k].coding = "length") => C = {}
    BY DEF Requests
  <2> HIDE DEF C
  <2> QED BY <2>1, FS_EmptySet
<1>6. PICK n \in Nat : n = Cardinality(C)
  BY <1>2
<1>7. LastUnit = NRequests + n
  BY <1>1, <1>4, <1>6
<1> QED BY <1>1, <1>5, <1>6, <1>7

LEMMA TypesEnough == ASSUME EcTypes PROVE EcTypeOK
<1>1. Range(ecout) \subseteq EcParts /\ Range(wire) \subseteq EcParts
  BY DEF EcTypes, OutTypes, Range
<1> QED BY <1>1 DEF EcTypes, InTypes, OutTypes, EcTypeOK, EcParts

\* A head is parsed only while the client has requests to send.
LEMMA ParsedBounded == ASSUME EcTypes, ReadInv, ParseHead PROVE parsed + 1 \in Requests
<1>1. NRequests \in Nat \ {0} /\ parsed \in 0..NRequests /\ read = parsed
  BY ConnAssumption DEF EcTypes, InTypes, ReadInv, ParseHead
<1>2. read < LastUnit
  <2>1. read \in Nat /\ got \in Nat /\ sent \in Nat /\ read < got /\ got <= sent /\ sent <= LastUnit
    BY UnitsCount DEF EcTypes, InTypes, ParseHead
  <2> QED BY <2>1, UnitsCount
<1>3. parsed # NRequests
  <2> SUFFICES ASSUME parsed = NRequests PROVE FALSE
    OBVIOUS
  <2>1. \A k \in Requests : script[k].coding = "length"
    BY DEF ReadInv, ParseHead, Requests
  <2> QED BY <1>1, <1>2, <2>1, UnitsCount
<1> QED BY <1>1, <1>3 DEF Requests

InputStep ==
    \/ ParseHead \/ ParseChunked \/ ParseMore \/ Fill \/ FillEof
    \/ ClientSends \/ ClientCloses \/ DeadlinePasses

\* Reading touches nothing that is written, and answers nothing.
LEMMA InputTypes ==
    ASSUME EcTypes, ReadInv, InputStep
    PROVE  /\ UNCHANGED <<script, outVars, made, done>>
           /\ EcTypes' /\ ReadInv'
           /\ (end' = "switched" => end = "switched") /\ (UNCHANGED ecpc \/ ecpc = "parse")
           /\ (switch # "none" => UNCHANGED parsed)
           /\ AnsweredTo' = AnsweredTo
<1>1. UNCHANGED <<script, outVars, made, done>>
  BY DEF InputStep, ParseHead, ParseChunked, ParseMore, Fill, FillEof, ClientSends, ClientCloses, DeadlinePasses, Goto, Close
<1>2. LastUnit' = LastUnit /\ LastUnit \in Nat
  BY <1>1, UnitsCount DEF LastUnit, HeadAt
<1>3. /\ sent \in 0..LastUnit /\ got \in 0..sent /\ read \in 0..got /\ parsed \in 0..NRequests
      /\ NRequests \in Nat
  BY ConnAssumption DEF EcTypes, InTypes
<1> USE DEF EcTypes, InTypes, OutTypes, ReadInv, AnsweredTo, outVars
<1>4. CASE ParseHead
  <2>1. parsed + 1 \in Requests
    BY <1>4, ParsedBounded
  <2>2. script[parsed + 1].coding \in {"length", "chunked"}
    BY <2>1 DEF EcScripts
  <2>3. \A k \in 1..(parsed + 1) : k \in 1..parsed \/ k = parsed + 1
    BY <1>3
  <2>4. read + 1 \in 0..got
    BY <1>2, <1>3, <1>4 DEF ParseHead
  <2>5. parsed + 1 \in 0..NRequests /\ parsed + 1 > 0 /\ (parsed + 1) - 1 = parsed
    <3>1. PICK n \in Nat, p \in Nat : n = NRequests /\ p = parsed
      BY <1>3
    <3>2. p + 1 \in 1..n
      BY <2>1, <3>1 DEF Requests
    <3>3. p + 1 \in 0..n /\ p + 1 > 0 /\ (p + 1) - 1 = p
      BY <3>1, <3>2
    <3> QED BY <3>1, <3>3
  <2>6. InTypes'
    BY <1>2, <1>4, <2>2, <2>4, <2>5 DEF ParseHead
  <2>7. ReadInv'
    BY <1>1, <1>4, <2>2, <2>3, <2>5 DEF ParseHead
  <2>8. AnsweredTo' = AnsweredTo
    BY <1>4, <2>2, <2>5 DEF ParseHead
  <2> QED BY <1>4, <2>6, <2>7, <2>8 DEF ParseHead
<1>5. CASE ParseChunked
  <2>1. read + 1 \in 0..got
    BY <1>2, <1>3, <1>5 DEF ParseChunked
  <2> QED BY <1>1, <1>2, <1>5, <2>1 DEF ParseChunked
<1>6. CASE ParseMore
  <2>1. ecpc = "parse" /\ UNCHANGED <<sent, got, read, eof, phase, parsed, end>> /\ clock' \in {"off", "on", "late"} /\ ecpc' = "parked"
    BY <1>6 DEF ParseMore, Started, Goto
  <2>2. InTypes'
    BY <1>2, <2>1
  <2>3. OutTypes'
    BY <1>1, <2>1
  <2>4. ReadInv'
    BY <1>1, <2>1
  <2> QED BY <1>1, <2>1, <2>2, <2>3, <2>4
<1>7. CASE Fill
  <2>1. got' \in 0..sent /\ read \in 0..got'
    BY <1>2, <1>3, <1>7 DEF Fill
  <2> QED BY <1>1, <1>2, <1>7, <2>1 DEF Fill, Started
<1>8. CASE FillEof
  <2>1. sent \in 0..sent /\ read \in 0..sent
    BY <1>2, <1>3
  <2> QED BY <1>1, <1>2, <1>8, <2>1 DEF FillEof, Started, Close
<1>9. CASE ClientSends
  <2>1. sent + 1 \in 0..LastUnit /\ got \in 0..(sent + 1)
    BY <1>2, <1>3, <1>9 DEF ClientSends
  <2> QED BY <1>1, <1>2, <1>9, <2>1 DEF ClientSends
<1>10. CASE ClientCloses
  BY <1>1, <1>2, <1>10 DEF ClientCloses
<1>11. CASE DeadlinePasses
  BY <1>1, <1>2, <1>11 DEF DeadlinePasses
<1> QED BY <1>4, <1>5, <1>6, <1>7, <1>8, <1>9, <1>10, <1>11 DEF InputStep

\* What is neither written nor read on leaves the answers as they are.
LEMMA QuietTurn ==
    ASSUME EcTypes, BodyInv, SwitchInv, InTurnInv, UNCHANGED <<script, outVars, made, done>>,
           switch # "none" => UNCHANGED parsed, AnsweredTo' = AnsweredTo,
           end' = "switched" => \/ end = "switched" /\ UNCHANGED ecpc
                                \/ switch # "none" /\ ecpc' = switch /\ ecout = <<>>
    PROVE  BodyInv' /\ SwitchInv' /\ InTurnInv'
<1>1. UNCHANGED <<script, ecout, wire, switch, stream, made, done>>
  BY DEF outVars
<1>2. Emitted' = Emitted /\ Buffered' = Buffered
  BY <1>1 DEF Emitted, Buffered
<1>3. BodyInv'
  BY <1>1, <1>2 DEF BodyInv
<1>4. SwitchInv'
  BY <1>1, <1>2 DEF SwitchInv
<1>5. InTurnInv'
  BY <1>1, <1>2 DEF InTurnInv
<1> QED BY <1>3, <1>4, <1>5

LEMMA InputKeeps == ASSUME ConnInv, InputStep PROVE ConnInv'
<1>1. /\ UNCHANGED <<script, outVars, made, done>> /\ EcTypes' /\ ReadInv'
      /\ (end' = "switched" => end = "switched") /\ (UNCHANGED ecpc \/ ecpc = "parse")
      /\ (switch # "none" => UNCHANGED parsed) /\ AnsweredTo' = AnsweredTo
  BY InputTypes DEF ConnInv
<1>2. end = "switched" => ecpc # "parse"
  BY DEF ConnInv, SwitchInv, EcTypes, OutTypes
<1>3. BodyInv' /\ SwitchInv' /\ InTurnInv'
  BY <1>1, <1>2, QuietTurn DEF ConnInv
<1> QED BY <1>1, <1>3 DEF ConnInv

\* Steps that only move on.
Moves(from, next) ==
    /\ ecpc = from /\ Goto(next)
    /\ UNCHANGED <<script, inVars, outVars, made, done>>

LEMMA MovesKeep ==
    ASSUME ConnInv, NEW from \in {"parked", "write", "pump", "switch"}, 
           NEW next \in {"parked", "write", "pump", "switch", "parse"}, Moves(from, next),
           next \in {"pump", "switch", "parse"} => ecout = <<>>, next = "parse" => switch = "none"
    PROVE  ConnInv'
<1>1. /\ UNCHANGED <<script, sent, got, read, eof, phase, clock, parsed>>
      /\ UNCHANGED <<ecout, wire, keep_alive, switch, stream, made, done, end>>
      /\ ecpc = from /\ ecpc' = next
  BY DEF Moves, Goto, inVars, outVars
<1>2. LastUnit' = LastUnit /\ AnsweredTo' = AnsweredTo
  BY <1>1 DEF LastUnit, HeadAt, AnsweredTo
<1>3. EcTypes'
  BY <1>1, <1>2 DEF ConnInv, EcTypes, InTypes, OutTypes
<1>4. ReadInv'
  BY <1>1 DEF ConnInv, ReadInv
<1>5. end' # "switched"
  BY <1>1 DEF ConnInv, SwitchInv, EcTypes, OutTypes
<1>6. UNCHANGED outVars
  BY <1>1 DEF outVars
<1>7. BodyInv' /\ SwitchInv' /\ InTurnInv'
  BY <1>1, <1>2, <1>5, <1>6, QuietTurn DEF ConnInv
<1> QED BY <1>3, <1>4, <1>7 DEF ConnInv

LEMMA SwitchKeeps == ASSUME ConnInv, Switch PROVE ConnInv'
<1>1. CASE switch = "none"
  <2>1. Moves("switch", "parse") /\ ecout = <<>>
    BY <1>1 DEF Switch, Moves, ConnInv, ReadInv
  <2> QED BY <1>1, <2>1, MovesKeep
<1>2. CASE switch # "none"
  <2>1. /\ UNCHANGED <<script, sent, got, read, eof, phase, clock, parsed>>
        /\ UNCHANGED <<ecout, wire, keep_alive, switch, stream, made, done>>
        /\ ecpc' = switch /\ end' = "switched" /\ ecout = <<>> /\ switch \in {"upgrade", "tunnel"}
    BY <1>2 DEF Switch, inVars, outVars, ConnInv, ReadInv, EcTypes, OutTypes
  <2>2. LastUnit' = LastUnit /\ AnsweredTo' = AnsweredTo /\ UNCHANGED outVars
    BY <2>1 DEF LastUnit, HeadAt, AnsweredTo, outVars
  <2>3. EcTypes'
    BY <2>1, <2>2 DEF ConnInv, EcTypes, InTypes, OutTypes
  <2>4. ReadInv'
    BY <2>1 DEF ConnInv, ReadInv
  <2>5. BodyInv' /\ SwitchInv' /\ InTurnInv'
    BY <1>2, <2>1, <2>2, QuietTurn DEF ConnInv
  <2> QED BY <2>3, <2>4, <2>5 DEF ConnInv
<1> QED BY <1>1, <1>2

\* A producer adds to a body, or ends it, only while the body is not done.
LEMMA ProducerKeeps ==
    ASSUME ConnInv, NEW k \in Requests, Produce(k) \/ EcFinish(k)
    PROVE  ConnInv'
<1>1. /\ UNCHANGED <<script, sent, got, read, eof, phase, clock, parsed>>
      /\ UNCHANGED <<ecout, wire, keep_alive, switch, stream, ecpc, end>>
      /\ ~done[k] /\ NChunks \in Nat
  BY ConnAssumption DEF Produce, EcFinish, inVars, outVars
<1>2. \A m \in Requests : made[m] \in 0..NChunks /\ done[m] \in BOOLEAN
  BY DEF ConnInv, EcTypes, OutTypes
<1>3. /\ made' \in [Requests -> 0..NChunks] /\ done' \in [Requests -> BOOLEAN]
      /\ \A m \in Requests : made[m] <= made'[m] /\ made'[m] \in 0..NChunks
      /\ \A m \in Requests : done[m] => done'[m] /\ made'[m] = made[m]
  <2>1. CASE Produce(k)
    <3>1. made[k] + 1 \in 0..NChunks
      BY <1>1, <1>2, <2>1 DEF Produce
    <3> QED BY <1>1, <1>2, <2>1, <3>1 DEF Produce, ConnInv, EcTypes, OutTypes
  <2>2. CASE EcFinish(k)
    BY <1>1, <1>2, <2>2 DEF EcFinish, ConnInv, EcTypes, OutTypes
  <2> QED BY <2>1, <2>2
<1>4. LastUnit' = LastUnit /\ AnsweredTo' = AnsweredTo /\ Emitted' = Emitted /\ Buffered' = Buffered
  BY <1>1 DEF LastUnit, HeadAt, AnsweredTo, Emitted, Buffered
<1>5. EcTypes'
  BY <1>1, <1>3, <1>4 DEF ConnInv, EcTypes, InTypes, OutTypes
<1>6. ReadInv'
  BY <1>1 DEF ConnInv, ReadInv
<1>7. BodyInv'
  <2>1. stream' # 0 => script'[stream'].kind = "stream"
    BY <1>1 DEF ConnInv, BodyInv
  <2>2. ASSUME NEW m \in Requests, NEW i \in 1..NChunks, RChunk(m, i) \in Emitted
        PROVE  i <= made'[m] /\ \A j \in 1..i : RChunk(m, j) \in Emitted
    <3>1. i <= made[m] /\ \A j \in 1..i : RChunk(m, j) \in Emitted
      BY <2>2 DEF ConnInv, BodyInv
    <3>2. made[m] <= made'[m] /\ made[m] \in Nat /\ made'[m] \in Nat /\ i \in Nat
      BY <1>1, <1>2, <1>3
    <3> QED BY <3>1, <3>2
  <2>3. ASSUME NEW m \in Requests, REnd(m) \in Emitted, script[m].kind = "stream"
        PROVE  done'[m] /\ \A i \in 1..made'[m] : RChunk(m, i) \in Range(wire)
    <3>1. done[m] /\ \A i \in 1..made[m] : RChunk(m, i) \in Range(wire)
      BY <2>3 DEF ConnInv, BodyInv
    <3> QED BY <1>3, <3>1
  <2> QED BY <1>1, <1>4, <2>1, <2>2, <2>3 DEF BodyInv, RChunk, REnd, EcPart
<1>8. SwitchInv'
  BY <1>1, <1>4 DEF ConnInv, SwitchInv, RHead, EcPart
<1>9. InTurnInv'
  BY <1>1, <1>4 DEF ConnInv, InTurnInv
<1> QED BY <1>5, <1>6, <1>7, <1>8, <1>9 DEF ConnInv

\* write_more() goes on with what is buffered.
LEMMA WriteKeeps == ASSUME ConnInv, Write PROVE ConnInv'
<1>1. wire \in Seq(EcParts) /\ ecout \in Seq(EcParts)
  BY DEF ConnInv, EcTypes, OutTypes
<1>2. CASE ecout = <<>>
  <2>1. Moves("write", "pump")
    BY <1>2 DEF Write, Moves, outVars
  <2> QED BY <1>2, <2>1, MovesKeep
<1>3. CASE ecout # <<>> /\ WouldBlock(ecout)
  <2>1. Moves("write", "parked")
    BY <1>3 DEF Write, Moves, WouldBlock, outVars
  <2> QED BY <2>1, MovesKeep
<1>4. CASE ecout # <<>> /\ WriteAll(ecout) /\ (IF keep_alive THEN Goto("pump") ELSE Close("clean"))
  <2>1. /\ UNCHANGED <<script, sent, got, read, eof, phase, clock, parsed>>
        /\ UNCHANGED <<keep_alive, switch, stream, made, done>>
        /\ wire' = wire \o ecout /\ ecout' = <<>> /\ ecpc = "write"
        /\ ecpc' \in {"pump", "closed"} /\ end' \in {end, "clean"}
    BY <1>4 DEF Write, WriteAll, Goto, Close, inVars
  <2>2. /\ wire' \in Seq(EcParts) /\ wire' \o ecout' = wire \o ecout
        /\ Range(wire) \subseteq Range(wire') /\ Emitted' = Emitted
    BY <1>1, <2>1, FlushEffect
  <2>3. LastUnit' = LastUnit /\ AnsweredTo' = AnsweredTo /\ Buffered' = Buffered
    BY <2>1 DEF LastUnit, HeadAt, AnsweredTo, Buffered
  <2>4. end' \in {"open", "clean", "error"}
    BY <2>1 DEF ConnInv, SwitchInv, EcTypes, OutTypes
  <2>5. EcTypes'
    <3>1. InTypes'
      BY <2>1, <2>3 DEF ConnInv, EcTypes, InTypes
    <3>2. ecout' \in Seq(EcParts) /\ Len(ecout') <= 2
      BY <2>1
    <3>3. OutTypes'
      BY <2>1, <2>2, <2>4, <3>2 DEF ConnInv, EcTypes, OutTypes
    <3> QED BY <2>1, <3>1, <3>3 DEF ConnInv, EcTypes
  <2>6. ReadInv'
    BY <2>1 DEF ConnInv, ReadInv
  <2>7. BodyInv'
    BY <2>1, <2>2 DEF ConnInv, BodyInv, RChunk, REnd, EcPart
  <2>8. SwitchInv'
    <3>1. ASSUME switch # "none", Buffered PROVE wire' # <<>> /\ wire'[Len(wire')] = RHead(parsed)
      <4>1. ecout = <<RHead(parsed)>> /\ parsed \in Requests
        BY <1>4, <3>1 DEF ConnInv, SwitchInv
      <4>2. wire' = Append(wire, RHead(parsed))
        BY <1>1, <2>1, <4>1
      <4> QED BY <1>1, <4>2
    <3> QED BY <2>1, <2>2, <2>3, <2>4, <3>1 DEF ConnInv, SwitchInv, RHead, EcPart
  <2>9. InTurnInv'
    BY <2>1, <2>2, <2>3 DEF ConnInv, InTurnInv
  <2> QED BY <2>5, <2>6, <2>7, <2>8, <2>9 DEF ConnInv
<1> QED BY <1>2, <1>3, <1>4 DEF Write, WriteMore

\* What every step that answers something has in common.
Answers(parts) ==
    /\ Emits(parts)
    /\ UNCHANGED <<script, sent, got, read, eof, clock, parsed, made, done>>
    /\ phase' = phase \/ (phase = "done" /\ phase' = "head")
    /\ keep_alive' \in BOOLEAN /\ stream' \in 0..NRequests /\ switch' \in {"none", "upgrade", "tunnel"}
    /\ ecpc' \in {"parked", "closed", "write"} \/ (ecpc' \in {"pump", "switch"} /\ ecout' = <<>>)
    /\ end' \in {"open", "clean", "error"}

LEMMA WriteMoreEmits ==
    ASSUME ConnInv, ecpc \in {"pump", "parse"}, NEW parts, NEW keep \in BOOLEAN, NEW next, WriteMore(parts, keep, next)
    PROVE  /\ Emits(parts) /\ end' \in {"open", "clean", "error"}
           /\ ecpc' \in {"parked", "closed"} \/ (ecpc' = next /\ ecout' = <<>>)
<1>1. ecout = <<>> /\ end \in {"open", "clean", "error"}
  BY DEF ConnInv, ReadInv, SwitchInv, EcTypes, OutTypes
<1> QED BY <1>1 DEF WriteMore, WriteAll, WouldBlock, Goto, Close, Emits

\* A step that answers keeps types and bodies when its chunks come in their order,
\* and the end of a body behind all of them.
LEMMA AnswersKeep ==
    ASSUME ConnInv, NEW parts \in Seq(EcParts), Len(parts) <= 2, Answers(parts),
           stream' # 0 => script[stream'].kind = "stream",
           \A k \in Requests, i \in 1..NChunks : RChunk(k, i) \in Range(parts) =>
              i <= made[k] /\ \A j \in 1..i : RChunk(k, j) \in Emitted \cup Range(parts),
           \A k \in Requests : REnd(k) \in Range(parts) /\ script[k].kind = "stream" =>
              done[k] /\ \A i \in 1..made[k] : RChunk(k, i) \in Emitted
    PROVE  EcTypes' /\ ReadInv' /\ BodyInv'
<1>1. wire \in Seq(EcParts)
  BY DEF ConnInv, EcTypes, OutTypes
<1>2. /\ wire' \in Seq(EcParts) /\ ecout' \in {<<>>, parts} /\ Range(wire) \subseteq Range(wire')
      /\ Emitted = Range(wire) /\ Emitted' = Range(wire) \cup Range(parts)
  BY <1>1, EmitEffect DEF Answers
<1>3. LastUnit' = LastUnit
  BY DEF LastUnit, HeadAt, Answers
<1>4. EcTypes'
  <2>1. InTypes'
    BY <1>3 DEF ConnInv, EcTypes, InTypes, Answers
  <2>2. ecout' \in Seq(EcParts) /\ Len(ecout') <= 2
    <3>1. CASE ecout' = <<>>
      BY <3>1
    <3>2. CASE ecout' = parts
      BY <3>2
    <3> QED BY <1>2, <3>1, <3>2
  <2>3. OutTypes'
    BY <1>2, <2>2 DEF ConnInv, EcTypes, OutTypes, Answers
  <2> QED BY <2>1, <2>3 DEF ConnInv, EcTypes, Answers
<1>5. ReadInv'
  BY DEF ConnInv, ReadInv, Answers
<1>6. BodyInv'
  <2>1. UNCHANGED <<script, made, done>>
    BY DEF Answers
  <2>2. ASSUME NEW k \in Requests, NEW i \in 1..NChunks, RChunk(k, i) \in Emitted'
        PROVE  i <= made[k] /\ \A j \in 1..i : RChunk(k, j) \in Emitted'
    <3>1. CASE RChunk(k, i) \in Emitted
      BY <1>2, <3>1 DEF ConnInv, BodyInv
    <3>2. CASE RChunk(k, i) \in Range(parts)
      BY <1>2, <3>2
    <3> QED BY <1>2, <2>2, <3>1, <3>2
  <2>3. ASSUME NEW k \in Requests, REnd(k) \in Emitted', script[k].kind = "stream"
        PROVE  done[k] /\ \A i \in 1..made[k] : RChunk(k, i) \in Range(wire')
    <3>1. CASE REnd(k) \in Emitted
      BY <1>2, <2>3, <3>1 DEF ConnInv, BodyInv
    <3>2. CASE REnd(k) \in Range(parts)
      BY <1>2, <2>3, <3>2
    <3> QED BY <1>2, <2>3, <3>1, <3>2
  <2> QED BY <2>1, <2>2, <2>3 DEF BodyInv, RChunk, REnd, EcPart
<1> QED BY <1>4, <1>5, <1>6

\* While a body streams, chunks may go out behind a pending switch.
LEMMA StreamAnswers ==
    ASSUME ConnInv, stream # 0, NEW parts \in Seq(EcParts), Answers(parts), UNCHANGED switch
    PROVE  SwitchInv' /\ InTurnInv'
<1>1. wire \in Seq(EcParts)
  BY DEF ConnInv, EcTypes, OutTypes
<1>2. Emitted \subseteq Emitted'
  BY <1>1, EmitEffect DEF Answers
<1>3. ~Buffered /\ ~Buffered'
  BY DEF ConnInv, EcTypes, OutTypes, BodyInv, Buffered, Requests, Answers
<1>4. SwitchInv'
  BY <1>2, <1>3 DEF ConnInv, SwitchInv, Answers, RHead, EcPart
<1> QED BY <1>3, <1>4 DEF InTurnInv

LEMMA PumpChunkKeeps == ASSUME ConnInv, PumpChunk PROVE ConnInv'
<1> DEFINE next == Taken(stream) + 1
           chunk == <<RChunk(stream, next)>>
<1>1. /\ stream \in Requests /\ NChunks \in Nat /\ NRequests \in Nat
      /\ stream \in 0..NRequests /\ ecout = <<>> /\ end \in {"open", "clean", "error"}
  BY ConnAssumption DEF PumpChunk, ConnInv, EcTypes, OutTypes, ReadInv, SwitchInv, Requests
<1>2. /\ Taken(stream) \in 0..made[stream] /\ made[stream] \in 0..NChunks
      /\ \A i \in 1..NChunks : RChunk(stream, i) \in Emitted <=> i <= Taken(stream)
  BY <1>1, TakenCounts DEF ConnInv
<1>3. next \in 1..NChunks /\ next <= made[stream]
  BY <1>1, <1>2 DEF PumpChunk
<1>4. chunk \in Seq(EcParts) /\ Len(chunk) <= 2 /\ Range(chunk) = {RChunk(stream, next)}
  <2>1. RChunk(stream, next) \in EcParts
    BY <1>1, <1>3, PartTypes
  <2> HIDE DEF next
  <2> QED BY <2>1 DEF Range
<1>5. Answers(chunk) /\ UNCHANGED <<switch, stream>>
  BY <1>1 DEF PumpChunk, Answers, Emits, WriteAll, WouldBlock, Goto, inVars, ConnInv, EcTypes, OutTypes
<1>6. ASSUME NEW k \in Requests, NEW i \in 1..NChunks, RChunk(k, i) \in Range(chunk)
      PROVE  i <= made[k] /\ \A j \in 1..i : RChunk(k, j) \in Emitted \cup Range(chunk)
  <2>1. k = stream /\ i = next
    BY <1>4, <1>6 DEF RChunk, EcPart
  <2>2. \A j \in 1..next : j = next \/ (j \in 1..NChunks /\ j <= Taken(stream))
    <3>1. PICK n \in Nat, c \in Nat : n = Taken(stream) /\ c = NChunks
      BY <1>1, <1>2
    <3>2. n + 1 \in 1..c
      BY <1>3, <3>1
    <3>3. \A j \in 1..(n + 1) : j = n + 1 \/ (j \in 1..c /\ j <= n)
      BY <3>1, <3>2
    <3> QED BY <3>1, <3>3
  <2> HIDE DEF next, chunk
  <2> QED BY <1>2, <1>3, <1>4, <2>1, <2>2
<1>7. \A k \in Requests : ~(REnd(k) \in Range(chunk))
  BY <1>1, <1>3, <1>4 DEF REnd, RChunk, EcPart
<1>8. stream' # 0 => script[stream'].kind = "stream"
  BY <1>5 DEF ConnInv, BodyInv
<1> HIDE DEF chunk, next
<1>9. EcTypes' /\ ReadInv' /\ BodyInv'
  BY <1>4, <1>5, <1>6, <1>7, <1>8, AnswersKeep
<1>10. SwitchInv' /\ InTurnInv'
  BY <1>1, <1>4, <1>5, StreamAnswers DEF PumpChunk
<1> QED BY <1>9, <1>10 DEF ConnInv

LEMMA PumpEndKeeps == ASSUME ConnInv, PumpEnd PROVE ConnInv'
<1> DEFINE last == <<REnd(stream)>>
<1>1. /\ stream \in Requests /\ NChunks \in Nat /\ NRequests \in Nat
      /\ stream \in 0..NRequests /\ keep_alive \in BOOLEAN
  BY ConnAssumption DEF PumpEnd, ConnInv, EcTypes, OutTypes, Requests
<1>2. /\ Taken(stream) \in 0..made[stream] /\ made[stream] \in 0..NChunks
      /\ \A i \in 1..NChunks : RChunk(stream, i) \in Emitted <=> i <= Taken(stream)
  BY <1>1, TakenCounts DEF ConnInv
<1>3. last \in Seq(EcParts) /\ Len(last) <= 2 /\ Range(last) = {REnd(stream)}
  <2>1. REnd(stream) \in EcParts
    BY <1>1, PartTypes
  <2> QED BY <2>1 DEF Range
<1>4. /\ Emits(last) /\ end' \in {"open", "clean", "error"}
      /\ ecpc' \in {"parked", "closed"} \/ (ecpc' = "switch" /\ ecout' = <<>>)
  <2>1. WriteMore(last, keep_alive, "switch") /\ ecpc \in {"pump", "parse"}
    BY DEF PumpEnd
  <2> HIDE DEF last
  <2> QED BY <1>1, <2>1, WriteMoreEmits
<1>5. Answers(last) /\ UNCHANGED switch /\ stream' = 0
  <2> HIDE DEF last
  <2> QED BY <1>1, <1>4 DEF PumpEnd, Answers, inVars, ConnInv, EcTypes, OutTypes
<1>6. ASSUME NEW k \in Requests, REnd(k) \in Range(last)
      PROVE  done[k] /\ \A i \in 1..made[k] : RChunk(k, i) \in Emitted
  <2>1. k = stream
    BY <1>3, <1>6 DEF REnd, EcPart
  <2>2. \A i \in 1..made[stream] : i \in 1..NChunks /\ i <= Taken(stream)
    BY <1>1, <1>2 DEF PumpEnd
  <2> QED BY <1>2, <2>1, <2>2 DEF PumpEnd
<1>7. \A k \in Requests, i \in 1..NChunks : ~(RChunk(k, i) \in Range(last))
  BY <1>1, <1>3 DEF REnd, RChunk, EcPart
<1> HIDE DEF last
<1>8. EcTypes' /\ ReadInv' /\ BodyInv'
  BY <1>3, <1>5, <1>6, <1>7, AnswersKeep
<1>9. SwitchInv' /\ InTurnInv'
  BY <1>1, <1>3, <1>5, StreamAnswers DEF PumpEnd
<1> QED BY <1>8, <1>9 DEF ConnInv

\* A refusal holds no part of a response to a request.
LEMMA RefusalParts ==
    /\ Refusal \in Seq(EcParts) /\ Len(Refusal) <= 2 /\ <<>> \in Seq(EcParts) /\ Len(<<>>) <= 2
    /\ \A t \in {<<>>, Refusal} : \A k \in Requests :
          REnd(k) \notin Range(t) /\ \A i \in 1..NChunks : RChunk(k, i) \notin Range(t)
<1>1. NRequests \in Nat /\ NChunks \in Nat
  BY ConnAssumption
<1>2. RHead(0) \in EcParts /\ REnd(0) \in EcParts
  BY <1>1, PartTypes
<1>3. Refusal \in Seq(EcParts) /\ Len(Refusal) <= 2 /\ Range(Refusal) = {RHead(0), REnd(0)}
  BY <1>2 DEF Refusal, Range
<1>4. Range(<<>>) = {}
  BY DEF Range
<1>5. \A k \in Requests : k # 0
  BY <1>1 DEF Requests
<1> QED BY <1>3, <1>4, <1>5 DEF RHead, REnd, RChunk, EcPart

LEMMA PumpFailsKeeps == ASSUME ConnInv, PumpFails PROVE ConnInv'
<1>1. PICK t \in {<<>>, Refusal} : wire' = wire \o t
  <2>1. wire \o <<>> = wire
    BY EmptyConcat DEF ConnInv, EcTypes, OutTypes
  <2> QED BY <2>1 DEF PumpFails
<1>2. t \in Seq(EcParts) /\ Len(t) <= 2
  BY RefusalParts
<1>3. Answers(t) /\ UNCHANGED switch /\ stream' = 0
  <2>1. ecout = <<>> /\ 0 \in 0..NRequests
    BY ConnAssumption DEF PumpFails, ConnInv, ReadInv
  <2> QED BY <1>1, <2>1 DEF PumpFails, Answers, Emits, Close, inVars, ConnInv, EcTypes, OutTypes
<1>4. EcTypes' /\ ReadInv' /\ BodyInv'
  BY <1>2, <1>3, RefusalParts, AnswersKeep
<1>5. SwitchInv' /\ InTurnInv'
  BY <1>2, <1>3, StreamAnswers DEF PumpFails
<1> QED BY <1>4, <1>5 DEF ConnInv

\* Where requests are parsed, nothing is buffered and all before this one are answered.
LEMMA AtParse ==
    ASSUME ConnInv, ecpc = "parse"
    PROVE  /\ wire \in Seq(EcParts) /\ ecout = <<>> /\ wire \o ecout = wire /\ switch = "none"
           /\ end \in {"open", "clean", "error"} /\ AnsweredTo \in Nat /\ NRequests \in Nat
           /\ Buffered => OneByOne(wire) /\ EndedUpTo(wire, AnsweredTo)
<1>1. wire \in Seq(EcParts) /\ ecout = <<>> /\ switch = "none" /\ end \in {"open", "clean", "error"}
  BY DEF ConnInv, EcTypes, OutTypes, ReadInv, SwitchInv
<1>2. wire \o ecout = wire
  BY <1>1, EmptyConcat
<1>3. AnsweredTo \in Nat /\ NRequests \in Nat
  <2>1. parsed \in Nat /\ (phase # "head" => parsed > 0) /\ NRequests \in Nat
    BY ConnAssumption DEF ConnInv, EcTypes, InTypes, ReadInv
  <2> QED BY <2>1 DEF AnsweredTo
<1>4. Buffered => OneByOne(wire) /\ EndedUpTo(wire, AnsweredTo)
  BY <1>1, <1>2 DEF ConnInv, InTurnInv
<1> QED BY <1>1, <1>2, <1>3, <1>4

\* The server's own refusal comes between responses, never inside of one.
LEMMA RefusalKeeps ==
    ASSUME ConnInv, ecpc = "parse", NEW t \in {<<>>, Refusal}, Answers(t),
           UNCHANGED <<phase, switch>>, stream' \in {0, stream}
    PROVE  ConnInv'
<1>1. t \in Seq(EcParts) /\ Len(t) <= 2
  BY RefusalParts
<1>2. EcTypes' /\ ReadInv' /\ BodyInv'
  <2>1. stream' # 0 => script[stream'].kind = "stream"
    BY DEF ConnInv, BodyInv
  <2> QED BY <1>1, <2>1, RefusalParts, AnswersKeep
<1>3. SwitchInv'
  BY AtParse DEF SwitchInv, Answers
<1>4. InTurnInv'
  <2> SUFFICES ASSUME Buffered PROVE OneByOne(wire' \o ecout') /\ EndedUpTo(wire' \o ecout', AnsweredTo)
    BY DEF InTurnInv, Buffered, AnsweredTo, Answers, OneByOne, EndedUpTo, RHead, REnd, EcPart
  <2>1. wire' \o ecout' = wire \o t
    BY <1>1, AtParse, EmitEffect DEF Answers
  <2>2. CASE t = <<>>
    BY <2>1, <2>2, AtParse
  <2>3. CASE t = Refusal
    <3>1. 0 \in 0..NRequests /\ 0 - 1 <= AnsweredTo
      BY AtParse
    <3>2. OneByOne(wire \o <<RHead(0), REnd(0)>>) /\ EndedUpTo(wire \o <<RHead(0), REnd(0)>>, AnsweredTo)
      BY <3>1, AtParse, ResponseFollows
    <3> QED BY <2>1, <2>3, <3>2 DEF Refusal
  <2> QED BY <2>2, <2>3
<1> QED BY <1>2, <1>3, <1>4 DEF ConnInv

LEMMA ParseTimeoutKeeps == ASSUME ConnInv, ParseTimeout PROVE ConnInv'
<1>1. /\ Emits(Refusal) /\ end' \in {"open", "clean", "error"}
      /\ ecpc' \in {"parked", "closed"} \/ (ecpc' = "parked" /\ ecout' = <<>>)
  <2>1. PICK t : t = Refusal
    OBVIOUS
  <2>2. WriteMore(t, FALSE, "parked") /\ ecpc \in {"pump", "parse"}
    BY <2>1 DEF ParseTimeout
  <2> QED BY <2>1, <2>2, WriteMoreEmits
<1>2. Answers(Refusal)
  <2>1. 0 \in 0..NRequests
    BY ConnAssumption
  <2> QED BY <1>1, <2>1 DEF ParseTimeout, Answers, inVars, ConnInv, EcTypes, OutTypes
<1> QED BY <1>2, RefusalKeeps DEF ParseTimeout, inVars

LEMMA ParseFailsKeeps == ASSUME ConnInv, ParseFails PROVE ConnInv'
<1>1. PICK t \in {<<>>, Refusal} : wire' = wire \o t
  <2>1. wire \o <<>> = wire
    BY EmptyConcat DEF ConnInv, EcTypes, OutTypes
  <2> QED BY <2>1 DEF ParseFails
<1>2. Answers(t)
  BY <1>1, AtParse DEF ParseFails, Answers, Emits, Close, inVars, ConnInv, EcTypes, OutTypes
<1> QED BY <1>2, RefusalKeeps DEF ParseFails, inVars

-----------------------------------------------------------------------------
(* EventConn: the answer to a request *)

LEMMA HandleKeeps == ASSUME ConnInv, Handle PROVE ConnInv'
<1>1. /\ ecpc = "parse" /\ phase = "done" /\ phase' = "head"
      /\ UNCHANGED <<script, sent, got, read, eof, clock, parsed, made, done>>
  BY DEF Handle
<1>2. /\ parsed \in Requests /\ parsed \in 0..NRequests /\ AnsweredTo = parsed - 1 /\ AnsweredTo' = parsed
      /\ parsed \in Nat /\ NRequests \in Nat /\ NChunks \in Nat /\ script[parsed].close \in BOOLEAN
      /\ parsed = AnsweredTo + 1 /\ Buffered' = Buffered
  <2>1. parsed \in 0..NRequests /\ parsed > 0 /\ NRequests \in Nat /\ NChunks \in Nat
    BY <1>1, ConnAssumption DEF ConnInv, EcTypes, InTypes, ReadInv
  <2>2. parsed \in Requests /\ AnsweredTo = parsed - 1 /\ AnsweredTo' = parsed /\ parsed = AnsweredTo + 1
    BY <1>1, <2>1 DEF Requests, AnsweredTo
  <2>3. script[parsed].close \in BOOLEAN
    BY <2>2 DEF ConnInv, EcTypes, EcScripts
  <2> QED BY <1>1, <2>1, <2>2, <2>3 DEF Buffered
<1>3. /\ wire \in Seq(EcParts) /\ ecout = <<>> /\ wire \o ecout = wire /\ switch = "none"
      /\ end \in {"open", "clean", "error"}
      /\ (Buffered => OneByOne(wire) /\ EndedUpTo(wire, AnsweredTo))
  BY <1>1, AtParse
<1>4. RHead(parsed) \in EcParts /\ REnd(parsed) \in EcParts
  BY <1>2, PartTypes
<1> DEFINE head == <<RHead(parsed)>>
           whole == <<RHead(parsed), REnd(parsed)>>
<1>5. /\ head \in Seq(EcParts) /\ Len(head) <= 2 /\ Range(head) = {RHead(parsed)}
      /\ whole \in Seq(EcParts) /\ Len(whole) <= 2 /\ Range(whole) = {RHead(parsed), REnd(parsed)}
  BY <1>4 DEF Range
<1>6. /\ \A k \in Requests : REnd(k) # RHead(parsed) /\ (REnd(k) = REnd(parsed) => k = parsed)
      /\ \A k \in Requests, i \in 1..NChunks : RChunk(k, i) # RHead(parsed) /\ RChunk(k, i) # REnd(parsed)
  BY <1>2 DEF RHead, REnd, RChunk, EcPart
<1>7. ASSUME script[parsed].kind = "plain", stream' = 0, UNCHANGED switch, keep_alive' = ~script[parsed].close,
             WriteMore(whole, ~script[parsed].close, "write")
      PROVE  ConnInv'
  <2> HIDE DEF whole
  <2>1. Answers(whole)
    <3>1. /\ Emits(whole) /\ end' \in {"open", "clean", "error"}
          /\ ecpc' \in {"parked", "closed"} \/ (ecpc' = "write" /\ ecout' = <<>>)
      <4>1. PICK keep \in BOOLEAN : keep = ~script[parsed].close
        BY <1>2
      <4>2. WriteMore(whole, keep, "write") /\ ecpc \in {"pump", "parse"}
        BY <1>1, <1>7, <4>1
      <4> QED BY <4>2, WriteMoreEmits
    <3> QED BY <1>1, <1>2, <1>3, <1>7, <3>1 DEF Answers
  <2>2. \A k \in Requests : ~(REnd(k) \in Range(whole) /\ script[k].kind = "stream")
    BY <1>5, <1>6, <1>7
  <2>3. \A k \in Requests, i \in 1..NChunks : ~(RChunk(k, i) \in Range(whole))
    BY <1>5, <1>6
  <2>4. EcTypes' /\ ReadInv' /\ BodyInv'
    BY <1>5, <1>7, <2>1, <2>2, <2>3, AnswersKeep
  <2>5. SwitchInv'
    BY <1>3, <1>7, <2>1 DEF SwitchInv, Answers
  <2>6. InTurnInv'
    <3> SUFFICES ASSUME Buffered PROVE OneByOne(wire' \o ecout') /\ EndedUpTo(wire' \o ecout', parsed)
      BY <1>2 DEF InTurnInv, OneByOne, EndedUpTo, RHead, REnd, EcPart
    <3>1. wire' \o ecout' = wire \o whole
      BY <1>3, <1>5, <2>1, EmitEffect DEF Answers
    <3>2. AnsweredTo \in Nat /\ parsed - 1 <= AnsweredTo
      BY <1>1, <1>2, AtParse
    <3>3. OneByOne(wire \o <<RHead(parsed), REnd(parsed)>>) /\ EndedUpTo(wire \o <<RHead(parsed), REnd(parsed)>>, parsed)
      BY <1>2, <1>3, <3>2, ResponseFollows
    <3> QED BY <3>1, <3>3 DEF whole
  <2> QED BY <2>4, <2>5, <2>6 DEF ConnInv
<1>8. ASSUME script[parsed].kind = "stream", stream' = parsed, UNCHANGED switch, keep_alive' = ~script[parsed].close,
             WriteMore(head, TRUE, "write")
      PROVE  ConnInv'
  <2> HIDE DEF head
  <2>1. Answers(head)
    <3>1. /\ Emits(head) /\ end' \in {"open", "clean", "error"}
          /\ ecpc' \in {"parked", "closed"} \/ (ecpc' = "write" /\ ecout' = <<>>)
      BY <1>1, <1>8, WriteMoreEmits
    <3> QED BY <1>1, <1>2, <1>3, <1>8, <3>1 DEF Answers
  <2>2. /\ \A k \in Requests : ~(REnd(k) \in Range(head))
        /\ \A k \in Requests, i \in 1..NChunks : ~(RChunk(k, i) \in Range(head))
    BY <1>5, <1>6
  <2>3. EcTypes' /\ ReadInv' /\ BodyInv'
    BY <1>5, <1>8, <2>1, <2>2, AnswersKeep
  <2>4. SwitchInv'
    BY <1>3, <1>8, <2>1 DEF SwitchInv, Answers
  <2>5. InTurnInv'
    BY <1>2, <1>8 DEF InTurnInv, Buffered
  <2> QED BY <2>3, <2>4, <2>5 DEF ConnInv
<1>9. CASE SwitchProtocol(parsed)
  <2>1. /\ script[parsed].kind \in {"upgrade", "tunnel"} /\ ecout' = head /\ wire' = wire /\ stream' = stream
        /\ keep_alive' \in BOOLEAN /\ switch' = script[parsed].kind /\ ecpc' = "write" /\ end' = end
    BY <1>9 DEF SwitchProtocol, Goto
  <2> HIDE DEF head
  <2>2. Answers(head)
    BY <1>1, <1>3, <2>1 DEF Answers, Emits, ConnInv, EcTypes, OutTypes
  <2>3. /\ \A k \in Requests : ~(REnd(k) \in Range(head))
        /\ \A k \in Requests, i \in 1..NChunks : ~(RChunk(k, i) \in Range(head))
    BY <1>5, <1>6
  <2>4. EcTypes' /\ ReadInv' /\ BodyInv'
    <3>1. stream' # 0 => script[stream'].kind = "stream"
      BY <2>1 DEF ConnInv, BodyInv
    <3> QED BY <1>5, <2>2, <2>3, <3>1, AnswersKeep
  <2>5. /\ Emitted' = Range(wire) \cup Range(head) /\ wire' \o ecout' = wire \o head
    BY <1>3, <1>5, <2>2, EmitEffect DEF Answers
  <2>6. SwitchInv'
    <3>1. RHead(parsed) \in Emitted' /\ ecout' = <<RHead(parsed)>> /\ ecout' # <<>>
      BY <1>5, <2>1, <2>5 DEF head
    <3> QED BY <1>1, <1>2, <1>3, <2>1, <3>1 DEF SwitchInv, RHead, EcPart
  <2>7. InTurnInv'
    <3> SUFFICES ASSUME Buffered PROVE OneByOne(wire' \o ecout')
      BY <1>2, <2>1 DEF InTurnInv, OneByOne, RHead, REnd, EcPart
    <3>1. OneByOne(wire \o <<RHead(parsed)>>)
      BY <1>2, <1>3, HeadFollows
    <3> QED BY <2>5, <3>1 DEF head
  <2> QED BY <2>4, <2>6, <2>7 DEF ConnInv
<1> QED BY <1>7, <1>8, <1>9 DEF Handle, Respond

LEMMA ConnInvInit == ASSUME EcInit PROVE ConnInv
<1>1. NRequests \in Nat \ {0} /\ NChunks \in Nat \ {0}
  BY ConnAssumption
<1>2. script \in EcScripts
  BY ConnAssumption DEF EcInit, EcScripts
<1>3. LastUnit \in Nat
  BY UnitsCount
<1>4. InTypes
  <2>1. 0 \in 0..LastUnit /\ 0 \in 0..0 /\ 0 \in 0..NRequests
    BY <1>1, <1>3
  <2> QED BY <2>1 DEF EcInit, InTypes
<1>5. OutTypes
  BY <1>1 DEF EcInit, OutTypes
<1>6. ReadInv
  BY <1>1 DEF EcInit, ReadInv
<1>7. Emitted = {} /\ wire \o ecout = <<>> /\ Range(<<>>) = {}
  BY DEF EcInit, Emitted, Range
<1>8. BodyInv
  BY <1>7 DEF EcInit, BodyInv
<1>9. SwitchInv
  BY DEF EcInit, SwitchInv
<1>10. InTurnInv
  <2>1. OneByOne(<<>>)
    BY DEF OneByOne
  <2>2. AnsweredTo = 0
    BY DEF EcInit, AnsweredTo
  <2>3. EndedUpTo(<<>>, 0)
    BY <1>7 DEF EndedUpTo
  <2> QED BY <1>7, <2>1, <2>2, <2>3 DEF InTurnInv
<1> QED BY <1>2, <1>4, <1>5, <1>6, <1>8, <1>9, <1>10 DEF ConnInv, EcTypes

LEMMA ConnInvStep == ASSUME ConnInv, [EcNext]_ecvars PROVE ConnInv'
<1>1. CASE UNCHANGED ecvars
  <2>1. /\ UNCHANGED <<script, sent, got, read, eof, phase, clock, parsed>>
        /\ UNCHANGED <<ecout, wire, keep_alive, switch, stream, made, done, ecpc, end>>
    BY <1>1 DEF ecvars, inVars, outVars
  <2>2. /\ LastUnit' = LastUnit /\ AnsweredTo' = AnsweredTo /\ UNCHANGED outVars
    BY <2>1 DEF LastUnit, HeadAt, AnsweredTo, outVars
  <2>3. EcTypes'
    BY <2>1, <2>2 DEF ConnInv, EcTypes, InTypes, OutTypes
  <2>4. ReadInv'
    BY <2>1 DEF ConnInv, ReadInv
  <2>5. BodyInv' /\ SwitchInv' /\ InTurnInv'
    BY <2>1, <2>2, QuietTurn DEF ConnInv
  <2> QED BY <2>3, <2>4, <2>5 DEF ConnInv
<1>2. CASE InputStep
  BY <1>2, InputKeeps
<1>3. CASE Resume
  <2>1. Moves("parked", "write")
    BY <1>3 DEF Resume, Moves
  <2> QED BY <2>1, MovesKeep
<1>4. CASE PumpNothing \/ PumpEmpty
  <2>1. Moves("pump", "switch") /\ ecout = <<>>
    BY <1>4 DEF PumpNothing, PumpEmpty, Moves, ConnInv, ReadInv
  <2> QED BY <2>1, MovesKeep
<1>5. CASE \E k \in Requests : Produce(k) \/ EcFinish(k)
  BY <1>5, ProducerKeeps
<1> QED BY <1>1, <1>2, <1>3, <1>4, <1>5, WriteKeeps, PumpChunkKeeps, PumpEndKeeps, PumpFailsKeeps, SwitchKeeps,
           ParseTimeoutKeeps, ParseFailsKeeps, HandleKeeps DEF EcNext, Step, InputStep

LEMMA ConnInvEnough == ASSUME ConnInv PROVE ResponsesWhole
<1>1. EcTypeOK
  BY TypesEnough DEF ConnInv
<1>2. wire \in Seq(EcParts) /\ ecout \in Seq(EcParts)
  BY DEF ConnInv, EcTypes, OutTypes
<1>3. EndMeansWhole
  BY DEF ConnInv, BodyInv, EndMeansWhole, Written, Emitted
<1>4. ResponsesInOrder
  BY <1>2, OrderedPrefix DEF ConnInv, InTurnInv, ResponsesInOrder
<1>5. SwitchedBehindHead
  <2> SUFFICES ASSUME end = "switched" PROVE SwitchedBehindHead
    BY DEF SwitchedBehindHead
  <2>1. Range(<<>>) = {}
    BY DEF Range
  <2>2. /\ switch # "none" /\ ecpc = switch /\ ecout = <<>> /\ script[parsed].kind = switch
        /\ RHead(parsed) \in Emitted
        /\ Buffered => wire # <<>> /\ wire[Len(wire)] = RHead(parsed)
    BY DEF ConnInv, SwitchInv
  <2>3. Written(RHead(parsed))
    BY <2>1, <2>2 DEF Written, Emitted
  <2> QED BY <2>2, <2>3 DEF SwitchedBehindHead, Last
<1> QED BY <1>1, <1>3, <1>4, <1>5 DEF ResponsesWhole

\* What step() writes on one connection, however the socket fills, the client sends
\* and the handlers' bodies come: the responses of buffered handlers one behind the
\* other, each whole before the next or a refusal, the end of a streamed body behind
\* all of its chunks, and a switch only behind the head that announced it.
THEOREM ResponsesStayWhole == EcSpec => []ResponsesWhole
<1>1. EcInit => ConnInv
  BY ConnInvInit
<1>2. ConnInv /\ [EcNext]_ecvars => ConnInv'
  BY ConnInvStep
<1>3. ConnInv => ResponsesWhole
  BY ConnInvEnough
<1> QED BY <1>1, <1>2, <1>3, PTL DEF EcSpec

-----------------------------------------------------------------------------
(***************************************************************************)
(* ForwardHonest for every chain of proxies, every setting of trust and    *)
(* every request.  The invariant names the last proxy b that did not       *)
(* believe its peer, or says there is none, and what X-Forwarded-For holds *)
(* since; a field that no proxy added has passed every filter so far.      *)
(***************************************************************************)
PfLeg == [req : PfRequest, route : Nat]

\* Every proxy believed its peer: the addresses stand behind what the client wrote.
AllBelieved(trust, n, xff) ==
  /\ \A g \in 1..n : g - 1 \in trust[g]
  /\ Len(xff) >= n /\ \A i \in 1..n : xff[Len(xff) - n + i] = i - 1
\* Proxy b was the last that did not.
LastDoubt(trust, n, xff, b) ==
  /\ b - 1 \notin trust[b] /\ \A g \in 1..n : g > b => g - 1 \in trust[g]
  /\ Len(xff) = n - b + 1 /\ \A i \in 1..Len(xff) : xff[i] = b + i - 2
ChainTold(trust, n, xff) == AllBelieved(trust, n, xff) \/ \E b \in 1..n : LastDoubt(trust, n, xff, b)

LegFields(req, asked) == \A f \in req.fields \ AddedTo(req) : f \in asked.fields /\ ~IsHopByHopFor(asked, f)
LegRoute(routes, leg) ==
  /\ leg.route \in DOMAIN routes /\ routes[leg.route].host \in {"", leg.req.host}
  /\ routes[leg.route].host = "" =>
       /\ Under(leg.req.path, routes[leg.route].prefix)
       /\ \A q \in ToSet(routes) :
            IF q.host = "" THEN Under(leg.req.path, q.prefix) => Len(Trimmed(q.prefix)) <= Len(Trimmed(routes[leg.route].prefix))
                           ELSE q.host # leg.req.host

PfInv ==
  /\ pfhop \in Nat /\ pfhop <= PfHops /\ pfreq \in PfRequest /\ pfpath \in Seq(PfLeg) /\ Len(pfpath) = pfhop
  /\ ~pfreq.ws => Len(pfreq.via) >= pfhop /\ ChainTold(pftrust, pfhop, pfreq.xff)
  /\ \A h \in 1..pfhop : LegFields(pfreq, pfpath[h].req) /\ LegRoute(PfRoutes[h], pfpath[h])

LEMMA NotEmpty ==
  ASSUME NEW S, NEW s \in Seq(S), s # <<>>
  PROVE  Len(s) # 0
  OBVIOUS

\* One sequence behind another, one element behind a sequence, and a sequence turned round.
LEMMA JoinedSeqs ==
  ASSUME NEW S, NEW s \in Seq(S), NEW t \in Seq(S)
  PROVE  /\ s \o t \in Seq(S) /\ Len(s \o t) = Len(s) + Len(t)
         /\ \A j \in 1..Len(s) : (s \o t)[j] = s[j]
         /\ \A j \in 1..Len(t) : (s \o t)[Len(s) + j] = t[j]
<1>0. PICK n \in Nat, k \in Nat : n = Len(s) /\ k = Len(t)
  OBVIOUS
<1>1. s \o t \in Seq(S) /\ Len(s \o t) = n + k
  BY <1>0
<1>2. ASSUME NEW j \in 1..n PROVE (s \o t)[j] = s[j]
  BY <1>0
<1>3. ASSUME NEW j \in 1..k PROVE (s \o t)[n + j] = t[j]
  <2>1. n + j \in 1..(n + k) /\ ~(n + j <= n) /\ (n + j) - n = j
    OBVIOUS
  <2> QED BY <1>0, <2>1
<1> QED BY <1>0, <1>1, <1>2, <1>3

LEMMA JoinedOne ==
  ASSUME NEW S, NEW s \in Seq(S), NEW e \in S
  PROVE  s \o <<e>> \in Seq(S) /\ Len(s \o <<e>>) = Len(s) + 1 /\ (s \o <<e>>)[Len(s) + 1] = e /\ \A j \in 1..Len(s) : (s \o <<e>>)[j] = s[j]
<1>0. <<e>> \in Seq(S)
  OBVIOUS
<1>1. PICK t \in Seq(S) : t = <<e>>
  BY ONLY <1>0
<1>2. Len(t) = 1 /\ t[1] = e
  BY <1>1
<1>3. /\ s \o t \in Seq(S) /\ Len(s \o t) = Len(s) + Len(t)
      /\ (\A j \in 1..Len(s) : (s \o t)[j] = s[j]) /\ \A j \in 1..Len(t) : (s \o t)[Len(s) + j] = t[j]
  BY ONLY JoinedSeqs, s \in Seq(S), t \in Seq(S)
<1> QED BY ONLY <1>1, <1>2, <1>3

LEMMA Reversed ==
  ASSUME NEW S, NEW s \in Seq(S), NEW n \in Nat, n = Len(s)
  PROVE  Reverse(s) \in Seq(S) /\ Len(Reverse(s)) = n /\ \A i \in 1..n : Reverse(s)[i] = s[(n - i) + 1]
<1>1. \A i \in 1..n : (n - i) + 1 \in 1..n /\ s[(n - i) + 1] \in S
  OBVIOUS
<1>2. Reverse(s) = [i \in 1..n |-> s[(n - i) + 1]]
  BY DEF Reverse
<1> QED BY ONLY <1>1, <1>2, n \in Nat

\* prefix_match() is the segment-wise reading.
LEMMA TrimmedIs ==
  ASSUME NEW p \in Seq(PfNames)
  PROVE  /\ Trimmed(p) \in Seq(PfNames) /\ Len(Trimmed(p)) <= Len(p) /\ \A i \in 1..Len(Trimmed(p)) : Trimmed(p)[i] = p[i]
<1>1. CASE p # <<>> /\ Last(p) = ""
  <2>1. PICK n \in Nat : n = Len(p)
    OBVIOUS
  <2>2. n >= 1
    <3>1. Len(p) # 0
      BY ONLY <1>1, p \in Seq(PfNames), NotEmpty
    <3> QED BY <2>1, <3>1
  <2>3. SubSeq(p, 1, n - 1) \in Seq(PfNames) /\ Len(SubSeq(p, 1, n - 1)) = n - 1 /\ \A i \in 1..(n - 1) : SubSeq(p, 1, n - 1)[i] = p[i]
    BY ONLY <2>1, <2>2, p \in Seq(PfNames), n \in Nat
  <2>4. Trimmed(p) = SubSeq(p, 1, n - 1)
    BY <1>1, <2>1 DEF Trimmed, Front
  <2> QED BY ONLY <2>1, <2>2, <2>3, <2>4, n \in Nat
<1>2. CASE ~(p # <<>> /\ Last(p) = "")
  <2>1. Trimmed(p) = p
    BY <1>2 DEF Trimmed
  <2>2. Len(p) \in Nat
    OBVIOUS
  <2> QED BY <2>1, <2>2
<1> QED BY <1>1, <1>2

LEMMA PrefixIs ==
  ASSUME NEW S, NEW s \in Seq(S), NEW t \in Seq(S)
  PROVE  IsPrefix(s, t) <=> \A i \in 1..Len(s) : i <= Len(t) /\ t[i] = s[i]
<1>1. PICK n \in Nat, m \in Nat : n = Len(s) /\ m = Len(t)
  OBVIOUS
<1>2. SubSeq(s, 1, n) = s
  BY <1>1
<1>3. ASSUME IsPrefix(s, t), NEW i \in 1..n PROVE i <= m /\ t[i] = s[i]
  <2>1. n <= m /\ s = SubSeq(t, 1, n)
    BY <1>1, <1>2, <1>3 DEF IsPrefix
  <2>2. SubSeq(t, 1, n)[i] = t[i]
    BY ONLY <1>1, <2>1, t \in Seq(S), i \in 1..n, n \in Nat, m \in Nat
  <2> QED BY <2>1, <2>2
<1>4. ASSUME \A i \in 1..n : i <= m /\ t[i] = s[i] PROVE IsPrefix(s, t)
  <2>1. n <= m
    <3>1. CASE n = 0
      BY <3>1
    <3>2. CASE n # 0
      BY <1>4, <3>2
    <3> QED BY <3>1, <3>2
  <2>2. SubSeq(t, 1, n) \in Seq(S) /\ Len(SubSeq(t, 1, n)) = n /\ \A i \in 1..n : SubSeq(t, 1, n)[i] = t[i]
    BY ONLY <1>1, <2>1, t \in Seq(S), n \in Nat, m \in Nat
  <2>3. PICK u \in Seq(S) : u = SubSeq(t, 1, n)
    BY <2>2
  <2>4. Len(u) = Len(s) /\ \A i \in 1..Len(u) : u[i] = s[i]
    BY ONLY <1>1, <1>4, <2>2, <2>3
  <2>5. u = s
    BY ONLY <2>4, u \in Seq(S), s \in Seq(S)
  <2> QED BY <1>1, <1>2, <2>1, <2>3, <2>5 DEF IsPrefix
<1> QED BY <1>1, <1>3, <1>4

LEMMA UnderIs ==
  ASSUME NEW path \in Seq(PfNames), NEW prefix \in Seq(PfNames)
  PROVE  PrefixMatch(path, prefix) <=> Under(path, prefix)
<1>1. PICK w \in Seq(PfNames) : w = Trimmed(prefix)
  BY TrimmedIs
<1>2. \A i \in 1..Len(w) : w[i] = prefix[i]
  BY <1>1, TrimmedIs
<1>3. IsPrefix(w, path) <=> \A i \in 1..Len(w) : i <= Len(path) /\ path[i] = w[i]
  BY PrefixIs
<1> QED BY <1>1, <1>2, <1>3 DEF PrefixMatch, Under

\* A configured prefix ends in one slash at most, so that the longer one has no fewer segments.
LEMMA LongerIs ==
  ASSUME NEW p \in PfPath
  PROVE  Len(Trimmed(p)) \in Nat /\ Len(p) \in Nat /\ Len(Trimmed(p)) <= Len(p) /\ Len(p) <= Len(Trimmed(p)) + 1
<1>1. p \in Seq(PfNames)
  BY DEF PfPath
<1>2. Trimmed(p) \in Seq(PfNames) /\ Len(Trimmed(p)) <= Len(p)
  BY <1>1, TrimmedIs
<1>3. Len(Trimmed(p)) \in Nat /\ Len(p) \in Nat
  BY <1>1, <1>2
<1>4. CASE Trimmed(p) = p
  BY <1>3, <1>4
<1>5. CASE Trimmed(p) = Front(p) /\ p # <<>>
  <2>1. Len(p) # 0
    BY ONLY <1>1, <1>5, NotEmpty
  <2>2. PICK n \in Nat : n = Len(p) /\ n >= 1
    BY <1>3, <2>1
  <2>3. Len(SubSeq(p, 1, n - 1)) = n - 1
    BY ONLY <1>1, <2>2, n \in Nat
  <2>4. Len(Trimmed(p)) = n - 1
    BY <1>5, <2>2, <2>3 DEF Front
  <2> QED BY <1>3, <2>2, <2>4
<1> QED BY <1>2, <1>4, <1>5 DEF Trimmed

\* entry_for(): what it takes matches, and nothing more specific does.
LEMMA EntryRight ==
  ASSUME NEW routes \in Seq(PfRoute), NEW req \in PfRequest, NEW i \in EntryFor(routes, req), NEW leg, leg = [req |-> req, route |-> i]
  PROVE  LegRoute(routes, leg) /\ leg \in PfLeg /\ routes[i] \in PfRoute
<1>1. i \in DOMAIN routes /\ i \in Nat /\ Matches(routes[i], req) /\ leg.req = req /\ leg.route = i
      /\ \A j \in DOMAIN routes : Matches(routes[j], req) => KeyBelow(routes[j], routes[i]) \/ (~KeyBelow(routes[i], routes[j]) /\ j <= i)
  BY DEF EntryFor
<1>2. leg \in PfLeg /\ routes[i] \in PfRoute
  BY <1>1 DEF PfLeg
<1>3. \A r \in PfRoute : r.prefix \in PfPath /\ r.prefix \in Seq(PfNames)
  BY DEF PfRoute, PfPath
<1>4. req.path \in Seq(PfNames)
  BY DEF PfRequest
<1>5. \A r \in PfRoute : r.host = "" => (Matches(r, req) <=> Under(req.path, r.prefix))
  BY <1>3, <1>4, UnderIs DEF Matches
<1>6. routes[i].host \in {"", req.host}
  BY <1>1 DEF Matches
<1>7. ASSUME routes[i].host = "", NEW q \in ToSet(routes), q.host = "", Under(req.path, q.prefix)
      PROVE  Len(Trimmed(q.prefix)) <= Len(Trimmed(routes[i].prefix))
  <2>1. PICK j \in DOMAIN routes : q = routes[j]
    BY <1>7 DEF ToSet
  <2>2. q \in PfRoute
    BY <2>1
  <2>3. Matches(q, req)
    BY <1>5, <1>7, <2>2
  <2>4. ~(Weight(routes[i].prefix) < Weight(q.prefix)) \/ Weight(q.prefix) < Weight(routes[i].prefix)
    BY <1>1, <1>7, <2>1, <2>3 DEF KeyBelow
  <2>5. PICK a \in Nat, b \in Nat, c \in Nat, d \in Nat :
          /\ a = Len(Trimmed(q.prefix)) /\ b = Len(q.prefix) /\ c = Len(Trimmed(routes[i].prefix)) /\ d = Len(routes[i].prefix)
          /\ a <= b /\ b <= a + 1 /\ c <= d /\ d <= c + 1
    BY <1>2, <1>3, <2>2, LongerIs
  <2>6. ~(c + d < a + b) \/ a + b < c + d
    BY <2>4, <2>5 DEF Weight
  <2>7. a <= b /\ d <= c + 1
    BY <2>5
  <2>8. a <= c
    BY ONLY <2>6, <2>7, a \in Nat, b \in Nat, c \in Nat, d \in Nat
  <2> QED BY ONLY <2>5, <2>8
<1>8. ASSUME routes[i].host = "", NEW q \in ToSet(routes), q.host # "" PROVE q.host # req.host
  <2>1. PICK j \in DOMAIN routes : q = routes[j]
    BY <1>8 DEF ToSet
  <2>2. SUFFICES ASSUME q.host = req.host PROVE FALSE
    OBVIOUS
  <2>3. Matches(q, req)
    BY <1>8, <2>2 DEF Matches
  <2>4. ~KeyBelow(q, routes[i]) /\ KeyBelow(routes[i], q)
    BY <1>8 DEF KeyBelow
  <2> QED BY <1>1, <2>1, <2>3, <2>4
<1>9. routes[i].host = "" => Under(req.path, routes[i].prefix)
  BY <1>1, <1>2, <1>5
<1> QED BY <1>1, <1>2, <1>6, <1>7, <1>8, <1>9 DEF LegRoute

\* target_path() gives a path.
LEMMA TargetIs ==
  ASSUME NEW r \in PfRoute, NEW req \in PfRequest
  PROVE  TargetPath(r, req) \in Seq(PfNames)
<1>1. r.prefix \in Seq(PfNames) /\ r.base \in Seq(PfNames) /\ req.path \in Seq(PfNames)
  BY DEF PfRoute, PfRequest, PfPath
<1>2. PICK b \in Seq(PfNames), w \in Seq(PfNames) : b = Trimmed(r.base) /\ w = Trimmed(r.prefix)
  BY <1>1, TrimmedIs
<1>3. PICK n \in Nat, m \in Nat : n = Len(w) + 1 /\ m = Len(req.path)
  BY <1>1
<1>4. SubSeq(req.path, n, m) \in Seq(PfNames)
  <2>1. CASE n <= m
    BY ONLY <1>1, <1>3, <2>1, n \in Nat, m \in Nat, w \in Seq(PfNames)
  <2>2. CASE ~(n <= m)
    BY ONLY <1>1, <1>3, <2>2, n \in Nat, m \in Nat, w \in Seq(PfNames)
  <2> QED BY <2>1, <2>2
<1>5. PICK x \in Seq(PfNames) : x = IF r.host # "" THEN req.path ELSE SubSeq(req.path, n, m)
  BY <1>1, <1>4
<1>6. b \o x \in Seq(PfNames) /\ <<"">> \in Seq(PfNames)
  <2>1. PICK e \in PfNames : e = ""
    BY PfAssumption
  <2>2. <<e>> \in Seq(PfNames)
    OBVIOUS
  <2>3. b \o x \in Seq(PfNames)
    BY ONLY b \in Seq(PfNames), x \in Seq(PfNames), JoinedSeqs
  <2> QED BY ONLY <2>1, <2>2, <2>3
<1>7. TargetPath(r, req) = IF x = <<>> /\ b = <<>> THEN <<"">> ELSE b \o x
  BY <1>2, <1>3, <1>5 DEF TargetPath
<1> QED BY <1>6, <1>7

\* X-Forwarded-For after one more proxy: what it saw stands last.
LEMMA ChainGrows ==
  ASSUME NEW trust, NEW n \in Nat, NEW xff \in Seq(Nat), ChainTold(trust, n, xff), NEW y \in Seq(Nat),
         y = (IF n \in trust[n + 1] THEN xff ELSE <<>>) \o <<n>>
  PROVE  ChainTold(trust, n + 1, y)
<1>1. PICK k \in Nat : k = Len(xff)
  OBVIOUS
<1>2. CASE n \in trust[n + 1]
  <2>1. y = xff \o <<n>>
    BY <1>2
  <2>2. Len(y) = k + 1 /\ y[k + 1] = n /\ \A i \in 1..k : y[i] = xff[i]
    BY ONLY <1>1, <2>1, JoinedOne, xff \in Seq(Nat), n \in Nat
  <2>3. CASE AllBelieved(trust, n, xff)
    <3>1. (\A g \in 1..n : g - 1 \in trust[g]) /\ k >= n /\ \A i \in 1..n : xff[k - n + i] = i - 1
      BY <1>1, <2>3 DEF AllBelieved
    <3>2. \A g \in 1..(n + 1) : g - 1 \in trust[g]
      <4>1. ASSUME NEW g \in 1..(n + 1) PROVE g - 1 \in trust[g]
        <5>1. g \in 1..n \/ g = n + 1
          OBVIOUS
        <5>2. (n + 1) - 1 = n
          OBVIOUS
        <5> QED BY <1>2, <3>1, <5>1, <5>2
      <4> QED BY <4>1
    <3>3. ASSUME NEW i \in 1..(n + 1) PROVE y[(k + 1) - (n + 1) + i] = i - 1
      <4>1. CASE i = n + 1
        <5>1. (k + 1) - (n + 1) + i = k + 1 /\ i - 1 = n
          BY <4>1
        <5> QED BY <2>2, <5>1
      <4>2. CASE i # n + 1
        <5>1. i \in 1..n /\ (k + 1) - (n + 1) + i = k - n + i /\ k - n + i \in 1..k
          <6>1. k >= n
            BY ONLY <3>1
          <6> QED BY ONLY <4>2, <6>1, k \in Nat, n \in Nat, i \in 1..(n + 1)
        <5> QED BY <2>2, <3>1, <5>1
      <4> QED BY <4>1, <4>2
    <3>4. AllBelieved(trust, n + 1, y)
      <4>1. Len(y) >= n + 1
        BY <2>2, <3>1
      <4> QED BY <2>2, <3>2, <3>3, <4>1 DEF AllBelieved
    <3> QED BY <3>4 DEF ChainTold
  <2>4. CASE \E b \in 1..n : LastDoubt(trust, n, xff, b)
    <3>1. PICK b \in 1..n : LastDoubt(trust, n, xff, b)
      BY <2>4
    <3>2. b - 1 \notin trust[b] /\ (\A g \in 1..n : g > b => g - 1 \in trust[g]) /\ k = n - b + 1 /\ \A i \in 1..k : xff[i] = b + i - 2
      BY <1>1, <3>1 DEF LastDoubt
    <3>3. ASSUME NEW g \in 1..(n + 1), g > b PROVE g - 1 \in trust[g]
      <4>1. g \in 1..n \/ g = n + 1
        OBVIOUS
      <4>2. (n + 1) - 1 = n
        OBVIOUS
      <4> QED BY <1>2, <3>2, <3>3, <4>1, <4>2
    <3>4. ASSUME NEW i \in 1..(k + 1) PROVE y[i] = b + i - 2
      <4>1. CASE i = k + 1
        <5>1. b + i - 2 = n
          BY <3>2, <4>1
        <5> QED BY <2>2, <4>1, <5>1
      <4>2. CASE i # k + 1
        BY <2>2, <3>2, <4>2
      <4> QED BY <4>1, <4>2
    <3>5. Len(y) = (n + 1) - b + 1 /\ b \in 1..(n + 1)
      BY <2>2, <3>2
    <3>6. LastDoubt(trust, n + 1, y, b)
      BY <2>2, <3>2, <3>3, <3>4, <3>5 DEF LastDoubt
    <3> QED BY <3>5, <3>6 DEF ChainTold
  <2> QED BY <2>3, <2>4 DEF ChainTold
<1>3. CASE n \notin trust[n + 1]
  <2>1. y = <<n>>
    BY <1>3
  <2>2. Len(y) = 1 /\ y[1] = n
    BY <2>1
  <2>3. (n + 1) - 1 = n /\ n + 1 \in 1..(n + 1) /\ (n + 1) - (n + 1) + 1 = 1 /\ (n + 1) + 1 - 2 = n
    OBVIOUS
  <2>4. \A i \in 1..1 : y[i] = (n + 1) + i - 2
    BY <2>2
  <2>5. LastDoubt(trust, n + 1, y, n + 1)
    BY <1>3, <2>2, <2>3, <2>4 DEF LastDoubt
  <2> QED BY <2>3, <2>5 DEF ChainTold
<1> QED BY <1>2, <1>3

\* The fields of the next request have passed the filter of this one and of those before.
LEMMA FieldsPass ==
  ASSUME NEW req \in PfRequest, NEW next, next.ws = req.ws, NEW added, added \subseteq AddedTo(req),
         next.fields = {f \in req.fields : ~IsHopByHopFor(req, f) /\ f \notin Forwarding} \cup added
  PROVE  LegFields(next, req) /\ \A asked : LegFields(req, asked) => LegFields(next, asked)
<1>1. AddedTo(next) = AddedTo(req)
  BY DEF AddedTo
<1>2. ASSUME NEW f \in next.fields \ AddedTo(next) PROVE f \in req.fields /\ ~IsHopByHopFor(req, f) /\ f \notin AddedTo(req)
  BY <1>1
<1>3. LegFields(next, req)
  BY <1>2 DEF LegFields
<1>4. ASSUME NEW asked, LegFields(req, asked) PROVE LegFields(next, asked)
  BY <1>2, <1>4 DEF LegFields
<1> QED BY <1>3, <1>4

\* One proxy further, by either handler.
LEMMA LegAdded ==
  ASSUME PfInv, NEW h \in 1..PfHops, pfhop = h - 1, NEW i \in EntryFor(PfRoutes[h], pfreq),
         pfpath' = Append(pfpath, [req |-> pfreq, route |-> i]), pfreq' \in PfRequest, pfreq'.ws = pfreq.ws,
         NEW added, added \subseteq AddedTo(pfreq),
         pfreq'.fields = {f \in pfreq.fields : ~IsHopByHopFor(pfreq, f) /\ f \notin Forwarding} \cup added
  PROVE  /\ pfpath' \in Seq(PfLeg) /\ Len(pfpath') = h
         /\ \A g \in 1..h : LegFields(pfreq', pfpath'[g].req) /\ LegRoute(PfRoutes[g], pfpath'[g])
<1>1. PfHops \in Nat /\ PfRoutes[h] \in Seq(PfRoute) /\ pfreq \in PfRequest /\ pfpath \in Seq(PfLeg) /\ Len(pfpath) = h - 1
      /\ \A g \in 1..(h - 1) : LegFields(pfreq, pfpath[g].req) /\ LegRoute(PfRoutes[g], pfpath[g])
  BY PfAssumption DEF PfInv
<1>2. PICK leg : leg = [req |-> pfreq, route |-> i]
  OBVIOUS
<1>3. LegRoute(PfRoutes[h], leg) /\ leg \in PfLeg
  BY <1>1, <1>2, EntryRight
<1>4. LegFields(pfreq', pfreq) /\ \A asked : LegFields(pfreq, asked) => LegFields(pfreq', asked)
  BY <1>1, FieldsPass
<1>5. PICK n \in Nat : n = h - 1 /\ n + 1 = h
  BY <1>1
<1>6. pfpath' \in Seq(PfLeg) /\ Len(pfpath') = n + 1 /\ pfpath'[n + 1] = leg /\ \A g \in 1..n : pfpath'[g] = pfpath[g]
  BY <1>1, <1>2, <1>3, <1>5
<1>7. leg.req = pfreq
  BY <1>2
<1>8. ASSUME NEW g \in 1..h PROVE LegFields(pfreq', pfpath'[g].req) /\ LegRoute(PfRoutes[g], pfpath'[g])
  <2>1. CASE g = h
    BY <1>3, <1>4, <1>5, <1>6, <1>7, <2>1
  <2>2. CASE g # h
    <3>1. g \in 1..n /\ g \in 1..(h - 1)
      BY <1>1, <1>5, <2>2
    <3>2. pfpath'[g] = pfpath[g] /\ LegFields(pfreq, pfpath[g].req) /\ LegRoute(PfRoutes[g], pfpath[g])
      BY ONLY <1>1, <1>6, <3>1
    <3> QED BY <1>4, <3>2
  <2> QED BY <2>1, <2>2
<1> QED BY <1>5, <1>6, <1>8

\* forward()
LEMMA ForwardKeeps ==
  ASSUME PfInv, NEW h \in 1..PfHops, Forward(h)
  PROVE  PfInv'
<1>1. pfhop = h - 1 /\ pftrust' = pftrust /\ ~pfreq.ws /\ pfhop \in Nat /\ pfreq \in PfRequest /\ PfHops \in Nat
  BY PfAssumption DEF Forward, PfInv
<1>2. CASE UNCHANGED <<pfreq, pfhop, pfpath>>
  BY <1>1, <1>2 DEF PfInv
<1>3. CASE /\ \E i \in EntryFor(PfRoutes[h], pfreq) :
                /\ pfreq' = Rewritten(h, PfRoutes[h][i], pfreq) /\ pfpath' = Append(pfpath, [req |-> pfreq, route |-> i])
           /\ pfhop' = h
  <2>1. PICK i \in EntryFor(PfRoutes[h], pfreq) :
          pfreq' = Rewritten(h, PfRoutes[h][i], pfreq) /\ pfpath' = Append(pfpath, [req |-> pfreq, route |-> i])
    BY <1>3
  <2>2. PfRoutes[h][i] \in PfRoute
    BY <1>1, PfAssumption, EntryRight
  <2>3. TargetPath(PfRoutes[h][i], pfreq) \in Seq(PfNames)
    BY <1>1, <2>2, TargetIs
  <2>4. ChainTold(pftrust, h - 1, pfreq.xff) /\ Len(pfreq.via) >= h - 1 /\ pfreq.xff \in Seq(Nat) /\ pfreq.via \in Seq(Nat)
        /\ pfreq.fields \in SUBSET PfNames
    BY <1>1 DEF PfInv, PfRequest
  <2>5. PICK n \in Nat : n = h - 1 /\ n + 1 = h
    BY <1>1
  <2>6. PICK y \in Seq(Nat) : y = (IF n \in pftrust[n + 1] THEN pfreq.xff ELSE <<>>) \o <<n>>
    <3>1. <<n>> \in Seq(Nat) /\ <<>> \in Seq(Nat)
      OBVIOUS
    <3>2. PICK z \in Seq(Nat) : z = IF n \in pftrust[n + 1] THEN pfreq.xff ELSE <<>>
      BY <2>4, <3>1
    <3>3. z \o <<n>> \in Seq(Nat)
      BY <3>1
    <3> QED BY <3>2, <3>3
  <2>7. ChainTold(pftrust, h, y)
    BY <2>4, <2>5, <2>6, ChainGrows
  <2>8. ForwardFor(h, pfreq) = y
    BY <2>5, <2>6 DEF ForwardFor
  <2>9. PICK v \in Seq(Nat) : v = Append(pfreq.via, h) /\ Len(v) >= h
    <3>1. h \in Nat
      BY <1>1
    <3>2. Append(pfreq.via, h) \in Seq(Nat) /\ Len(Append(pfreq.via, h)) = Len(pfreq.via) + 1
      BY <2>4, <3>1
    <3>3. \A a \in Nat : a >= h - 1 => a + 1 >= h
      BY <3>1
    <3>4. Len(Append(pfreq.via, h)) >= h
      <4>1. Len(pfreq.via) \in Nat
        BY <2>4
      <4> QED BY ONLY <2>4, <3>2, <3>3, <4>1
    <3> QED BY ONLY <3>2, <3>4
  <2>10. PICK fs \in SUBSET PfNames : fs = {f \in pfreq.fields : ~IsHopByHopFor(pfreq, f) /\ f \notin Forwarding} \cup Added(pfreq)
    <3>1. PICK g \in SUBSET PfNames : g = pfreq.fields
      BY <1>1 DEF PfRequest
    <3>2. Added(pfreq) \subseteq PfNames
      BY PfAssumption DEF Added
    <3>3. {f \in g : ~IsHopByHopFor(pfreq, f) /\ f \notin Forwarding} \cup Added(pfreq) \subseteq PfNames
      BY ONLY <3>2, g \in SUBSET PfNames
    <3> QED BY <3>1, <3>3
  <2>11. pfreq' = [pfreq EXCEPT !.path = TargetPath(PfRoutes[h][i], pfreq), !.host = "upstream", !.nominated = {},
                                !.fields = fs, !.via = v, !.xff = y]
    BY <2>1, <2>8, <2>9, <2>10 DEF Rewritten
  <2>12. pfreq' \in PfRequest /\ pfreq'.ws = pfreq.ws /\ pfreq'.fields = fs /\ pfreq'.via = v /\ pfreq'.xff = y
    <3>1. PICK u \in PfNames, e \in SUBSET PfNames, p \in Seq(PfNames) : u = "upstream" /\ e = {} /\ p = TargetPath(PfRoutes[h][i], pfreq)
      <4>1. "upstream" \in PfNames /\ {} \in SUBSET PfNames
        BY PfAssumption
      <4> QED BY ONLY <2>3, <4>1
    <3>2. pfreq' = [pfreq EXCEPT !.path = p, !.host = u, !.nominated = e, !.fields = fs, !.via = v, !.xff = y]
      BY ONLY <2>11, <3>1
    <3>3. pfreq \in PfRequest
      BY <1>1
    <3> QED BY ONLY <3>2, <3>3, fs \in SUBSET PfNames, u \in PfNames, e \in SUBSET PfNames, p \in Seq(PfNames), v \in Seq(Nat),
               y \in Seq(Nat) DEF PfRequest
  <2>13. Added(pfreq) \subseteq AddedTo(pfreq)
    BY <1>1 DEF Added, AddedTo, Forwarding
  <2>14. /\ pfpath' \in Seq(PfLeg) /\ Len(pfpath') = h
         /\ \A g \in 1..h : LegFields(pfreq', pfpath'[g].req) /\ LegRoute(PfRoutes[g], pfpath'[g])
    BY <1>1, <2>1, <2>10, <2>12, <2>13, LegAdded
  <2>15. h \in Nat /\ h <= PfHops
    BY <1>1
  <2> QED BY <1>1, <1>3, <2>7, <2>9, <2>12, <2>14, <2>15 DEF PfInv
<1> QED BY <1>2, <1>3 DEF Forward

\* websocket()
LEMMA UpgradeKeeps ==
  ASSUME PfInv, NEW h \in 1..PfHops, Upgrade(h)
  PROVE  PfInv'
<1>1. pfhop = h - 1 /\ pftrust' = pftrust /\ pfreq.ws /\ pfhop \in Nat /\ pfreq \in PfRequest /\ PfHops \in Nat
  BY PfAssumption DEF Upgrade, PfInv
<1>2. CASE UNCHANGED <<pfreq, pfhop, pfpath>>
  BY <1>1, <1>2 DEF PfInv
<1>3. CASE /\ \E i \in EntryFor(PfRoutes[h], pfreq) :
                /\ pfreq' = WsRewritten(PfRoutes[h][i], pfreq) /\ pfpath' = Append(pfpath, [req |-> pfreq, route |-> i])
           /\ pfhop' = h
  <2>1. PICK i \in EntryFor(PfRoutes[h], pfreq) :
          pfreq' = WsRewritten(PfRoutes[h][i], pfreq) /\ pfpath' = Append(pfpath, [req |-> pfreq, route |-> i])
    BY <1>3
  <2>2. PfRoutes[h][i] \in PfRoute
    BY <1>1, PfAssumption, EntryRight
  <2>3. TargetPath(PfRoutes[h][i], pfreq) \in Seq(PfNames)
    BY <1>1, <2>2, TargetIs
  <2>4. PICK fs \in SUBSET PfNames : fs = {f \in pfreq.fields : ~IsHopByHopFor(pfreq, f) /\ f \notin Forwarding} \cup {"connection", "upgrade", "host"}
    <3>1. PICK g \in SUBSET PfNames : g = pfreq.fields
      BY <1>1 DEF PfRequest
    <3>2. {"connection", "upgrade", "host"} \subseteq PfNames
      BY PfAssumption
    <3>3. {f \in g : ~IsHopByHopFor(pfreq, f) /\ f \notin Forwarding} \cup {"connection", "upgrade", "host"} \subseteq PfNames
      BY ONLY <3>2, g \in SUBSET PfNames
    <3> QED BY <3>1, <3>3
  <2>5. pfreq' = [pfreq EXCEPT !.path = TargetPath(PfRoutes[h][i], pfreq), !.host = "upstream", !.nominated = {"upgrade"},
                               !.fields = fs, !.via = <<>>, !.xff = <<>>]
    BY <2>1, <2>4 DEF WsRewritten
  <2>6. pfreq' \in PfRequest /\ pfreq'.ws = pfreq.ws /\ pfreq'.fields = fs
    <3>1. PICK u \in PfNames, e \in SUBSET PfNames, p \in Seq(PfNames), z \in Seq(Nat) :
            u = "upstream" /\ e = {"upgrade"} /\ p = TargetPath(PfRoutes[h][i], pfreq) /\ z = <<>>
      <4>1. "upstream" \in PfNames /\ {"upgrade"} \in SUBSET PfNames
        BY PfAssumption
      <4>2. <<>> \in Seq(Nat)
        OBVIOUS
      <4> QED BY ONLY <2>3, <4>1, <4>2
    <3>2. pfreq' = [pfreq EXCEPT !.path = p, !.host = u, !.nominated = e, !.fields = fs, !.via = z, !.xff = z]
      BY ONLY <2>5, <3>1
    <3>3. pfreq \in PfRequest
      BY <1>1
    <3> QED BY ONLY <3>2, <3>3, fs \in SUBSET PfNames, u \in PfNames, e \in SUBSET PfNames, p \in Seq(PfNames), z \in Seq(Nat) DEF PfRequest
  <2>7. fs = {f \in pfreq.fields : ~IsHopByHopFor(pfreq, f) /\ f \notin Forwarding} \cup AddedTo(pfreq)
    BY <1>1, <2>4 DEF AddedTo
  <2>8. /\ pfpath' \in Seq(PfLeg) /\ Len(pfpath') = h
        /\ \A g \in 1..h : LegFields(pfreq', pfpath'[g].req) /\ LegRoute(PfRoutes[g], pfpath'[g])
    BY <1>1, <2>1, <2>6, <2>7, LegAdded
  <2>9. h \in Nat /\ h <= PfHops
    BY <1>1
  <2> QED BY <1>1, <1>3, <2>6, <2>8, <2>9 DEF PfInv
<1> QED BY <1>2, <1>3 DEF Upgrade

LEMMA ForwardInitial == PfInit => PfInv
<1> SUFFICES ASSUME PfInit PROVE PfInv
  OBVIOUS
<1>1. pfreq \in PfRequest /\ pfhop = 0 /\ pfpath = <<>> /\ PfHops \in Nat
  BY PfAssumption DEF PfInit
<1>2. pfreq.xff \in Seq(Nat) /\ pfreq.via \in Seq(Nat)
  BY <1>1 DEF PfRequest
<1>3. Len(pfreq.xff) >= 0 /\ Len(pfreq.via) >= 0
  BY <1>2
<1>4. ChainTold(pftrust, 0, pfreq.xff)
  BY <1>3 DEF ChainTold, AllBelieved
<1>5. pfpath \in Seq(PfLeg) /\ Len(pfpath) = 0
  BY <1>1
<1> QED BY <1>1, <1>3, <1>4, <1>5 DEF PfInv

LEMMA ForwardNext == PfInv /\ [PfNext]_pfvars => PfInv'
<1>1. ASSUME PfInv, UNCHANGED pfvars PROVE PfInv'
  BY <1>1 DEF PfInv, pfvars
<1>2. ASSUME PfInv, Answered PROVE PfInv'
  BY <1>2 DEF PfInv, Answered
<1>3. ASSUME PfInv, NEW h \in 1..PfHops, ToClient(h) PROVE PfInv'
  BY <1>3 DEF PfInv, ToClient
<1> QED BY <1>1, <1>2, <1>3, ForwardKeeps, UpgradeKeeps DEF PfNext

\* The answer, from its maker on: every form of it has passed the filters before.
BackInv ==
  /\ pfback.trail \in Seq(PfAnswer) /\ pfback.left \in Nat
  /\ pfback.left > 0 => pfback.trail # <<>>
  /\ AnswerClean

\* An answer just made.
LEMMA BackStarts ==
  ASSUME NEW a \in PfAnswer, NEW n \in Nat, pfback' = [trail |-> <<a>>, left |-> n]
  PROVE  BackInv'
<1>1. PICK t \in Seq(PfAnswer) : t = <<a>> /\ Len(t) = 1 /\ t # <<>>
  <2>1. <<a>> \in Seq(PfAnswer) /\ Len(<<a>>) = 1 /\ <<a>> # <<>>
    BY ONLY a \in PfAnswer
  <2> QED BY <2>1
<1>2. pfback'.trail = t /\ pfback'.left = n
  BY <1>1
<1>3. AnswerClean'
  BY <1>1, <1>2 DEF AnswerClean
<1> QED BY <1>1, <1>2, <1>3 DEF BackInv

\* to_client()
LEMMA BackFiltered ==
  ASSUME BackInv, NEW h \in 1..PfHops, pfback.left = h, PfHops \in Nat,
         pfback' = [trail |-> Append(pfback.trail, Filtered(Last(pfback.trail))), left |-> h - 1]
  PROVE  BackInv'
<1>1. PICK t \in Seq(PfAnswer), n \in Nat : t = pfback.trail /\ n = Len(t) /\ n > 0 /\ t # <<>>
  BY DEF BackInv
<1>2. PICK a \in PfAnswer : a = t[n] /\ a = Last(t)
  BY <1>1 DEF Last
<1>3. PICK b \in PfAnswer : b = Filtered(a) /\ b.fields = {f \in a.fields : ~IsHopByHopFor(a, f)}
  <2>1. PICK g \in SUBSET PfNames, e \in SUBSET PfNames : g = {f \in a.fields : ~IsHopByHopFor(a, f)} /\ e = {}
    BY DEF PfAnswer
  <2>2. Filtered(a) = [fields |-> g, nominated |-> e]
    BY <2>1 DEF Filtered
  <2> QED BY <2>1, <2>2 DEF PfAnswer
<1>4. PICK u \in Seq(PfAnswer) : u = Append(t, b)
  <2>1. Append(t, b) \in Seq(PfAnswer)
    BY ONLY t \in Seq(PfAnswer), b \in PfAnswer
  <2> QED BY <2>1
<1>5. Len(u) = n + 1 /\ u[n + 1] = b /\ u # <<>> /\ \A i \in 1..n : u[i] = t[i]
  BY <1>1, <1>4
<1>6. pfback'.trail = u /\ pfback'.left = h - 1
  BY <1>1, <1>2, <1>3, <1>4
<1>7. Last(u) = b
  BY <1>5 DEF Last
<1>8. ASSUME NEW i \in DOMAIN u, i < Len(u), NEW f \in b.fields PROVE f \in u[i].fields /\ ~IsHopByHopFor(u[i], f)
  <2>1. i \in 1..n /\ u[i] = t[i] /\ i \in DOMAIN t
    BY <1>1, <1>5, <1>8
  <2>2. f \in a.fields /\ ~IsHopByHopFor(a, f)
    BY <1>3, <1>8
  <2>3. CASE i = n
    BY <1>2, <2>1, <2>2, <2>3
  <2>4. CASE i # n
    <3>1. i < Len(t)
      BY <1>1, <2>1, <2>4
    <3>2. f \in t[i].fields /\ ~IsHopByHopFor(t[i], f)
      BY <1>1, <1>2, <2>1, <2>2, <3>1 DEF BackInv, AnswerClean
    <3> QED BY <2>1, <3>2
  <2> QED BY <2>3, <2>4
<1>9. AnswerClean'
  BY <1>6, <1>7, <1>8 DEF AnswerClean
<1>10. h - 1 \in Nat
  OBVIOUS
<1> QED BY <1>5, <1>6, <1>9, <1>10 DEF BackInv

LEMMA BackInitial == PfInit => BackInv
<1> SUFFICES ASSUME PfInit PROVE BackInv
  OBVIOUS
<1>1. pfback.trail = <<>> /\ pfback.left = 0
  BY DEF PfInit
<1>2. AnswerClean
  BY <1>1 DEF AnswerClean
<1> QED BY <1>1, <1>2 DEF BackInv

LEMMA BackNext == BackInv /\ [PfNext]_pfvars => BackInv'
<1> SUFFICES ASSUME BackInv, [PfNext]_pfvars PROVE BackInv'
  OBVIOUS
<1>1. CASE UNCHANGED pfback
  BY <1>1 DEF BackInv, AnswerClean
<1>2. ErrorAnswer \in PfAnswer /\ PfHops \in Nat
  BY PfAssumption DEF ErrorAnswer, PfAnswer
<1>3. ASSUME NEW h \in 1..PfHops, NEW status, FailAt(h, status) PROVE BackInv'
  <2>1. h - 1 \in Nat
    BY <1>2
  <2> QED BY <1>2, <1>3, <2>1, BackStarts DEF FailAt
<1>4. ASSUME Answered PROVE BackInv'
  <2>1. CASE \E a \in PfAnswers : pfback' = [trail |-> <<a>>, left |-> PfHops]
    BY <1>2, <2>1, PfAssumption, BackStarts
  <2> QED BY <1>1, <1>4, <2>1 DEF Answered
<1>5. ASSUME NEW h \in 1..PfHops, Forward(h) PROVE BackInv'
  BY <1>1, <1>3, <1>5 DEF Forward
<1>6. ASSUME NEW h \in 1..PfHops, Upgrade(h) PROVE BackInv'
  BY <1>1, <1>6 DEF Upgrade
<1>7. ASSUME NEW h \in 1..PfHops, ToClient(h) PROVE BackInv'
  BY <1>2, <1>3, <1>7, BackFiltered DEF ToClient
<1> QED BY <1>1, <1>4, <1>5, <1>6, <1>7 DEF PfNext, pfvars

\* The end of X-Forwarded-For, as the property reads it.
LEMMA ChainSeen ==
  ASSUME NEW n \in Nat, n > 0, NEW trust, NEW xff \in Seq(Nat), ChainTold(trust, n, xff)
  PROVE  IsSuffix(SeenBy(trust, n), xff) /\ (Doubters(trust, n) # {} => xff = SeenBy(trust, n))
<1>1. PICK k \in Nat : k = Len(xff)
  OBVIOUS
<1>2. CASE AllBelieved(trust, n, xff)
  <2>1. (\A g \in 1..n : g - 1 \in trust[g]) /\ k >= n /\ \A i \in 1..n : xff[k - n + i] = i - 1
    BY <1>1, <1>2 DEF AllBelieved
  <2>2. Doubters(trust, n) = {} /\ SeenFrom(trust, n) = 0
    BY <2>1 DEF Doubters, SeenFrom
  <2>3. PICK seen : seen = [i \in 1..n |-> i - 1]
    OBVIOUS
  <2>4. SeenBy(trust, n) = seen
    <3>1. n - 0 = n /\ \A i \in 1..n : 0 + i - 1 = i - 1
      OBVIOUS
    <3> QED BY <2>2, <2>3, <3>1 DEF SeenBy
  <2>5. seen \in Seq(Nat) /\ Len(seen) = n /\ \A i \in 1..n : seen[i] = i - 1
    <3>1. \A i \in 1..n : i - 1 \in Nat
      OBVIOUS
    <3> QED BY <2>3, <3>1
  <2>6. PICK s \in Seq(Nat), t \in Seq(Nat) : s = Reverse(seen) /\ t = Reverse(xff)
    <3>1. Reverse(seen) \in Seq(Nat) /\ Reverse(xff) \in Seq(Nat)
      BY <1>1, <2>5, Reversed
    <3> QED BY <3>1
  <2>7. Len(s) = n /\ Len(t) = k /\ (\A i \in 1..n : s[i] = seen[(n - i) + 1]) /\ (\A i \in 1..k : t[i] = xff[(k - i) + 1])
    BY <1>1, <2>5, <2>6, Reversed, ZenonT(60)
  <2>8. ASSUME NEW i \in 1..n PROVE i <= k /\ t[i] = s[i]
    <3>1. PICK j \in 1..n : j = (n - i) + 1
      OBVIOUS
    <3>2. i \in 1..k /\ (k - i) + 1 = k - n + j /\ i <= k
      BY <2>1, <3>1
    <3>3. t[i] = xff[k - n + j] /\ s[i] = seen[j]
      BY ONLY <2>7, <3>1, <3>2, i \in 1..n
    <3> QED BY ONLY <2>1, <2>5, <3>2, <3>3, j \in 1..n
  <2>9. IsPrefix(s, t)
    BY <2>7, <2>8, PrefixIs
  <2> QED BY <2>2, <2>4, <2>6, <2>9 DEF IsSuffix
<1>3. CASE \E b \in 1..n : LastDoubt(trust, n, xff, b)
  <2>1. PICK b \in 1..n : LastDoubt(trust, n, xff, b)
    BY <1>3
  <2>2. b - 1 \notin trust[b] /\ (\A g \in 1..n : g > b => g - 1 \in trust[g]) /\ k = n - b + 1 /\ \A i \in 1..k : xff[i] = b + i - 2
    BY <1>1, <2>1 DEF LastDoubt
  <2>3. b \in Doubters(trust, n) /\ \A g \in Doubters(trust, n) : g \in 1..n /\ g <= b
    BY <2>2 DEF Doubters
  <2>4. LastDoubter(trust, n) \in Doubters(trust, n) /\ \A g \in Doubters(trust, n) : g <= LastDoubter(trust, n)
    BY <2>3 DEF LastDoubter
  <2>5. LastDoubter(trust, n) = b
    <3>1. PICK d \in 1..n : d = LastDoubter(trust, n)
      BY <2>3, <2>4
    <3>2. d <= b /\ b <= d
      BY ONLY <2>3, <2>4, <3>1
    <3> QED BY ONLY <3>1, <3>2, b \in 1..n, d \in 1..n, n \in Nat
  <2>6. Doubters(trust, n) # {} /\ SeenFrom(trust, n) = b - 1
    BY <2>3, <2>5 DEF SeenFrom
  <2>7. PICK a \in Nat : a = b - 1
    OBVIOUS
  <2>8. n - a = k /\ \A i \in 1..k : a + i - 1 = b + i - 2 /\ a + i - 1 \in Nat
    BY <2>2, <2>7
  <2>9. SeenBy(trust, n) = [i \in 1..(n - a) |-> a + i - 1]
    BY <2>6, <2>7 DEF SeenBy
  <2>10. SeenBy(trust, n) = [i \in 1..k |-> a + i - 1]
    BY <2>8, <2>9
  <2>11. PICK z \in Seq(Nat) : z = SeenBy(trust, n)
    <3>1. SeenBy(trust, n) \in Seq(Nat)
      BY ONLY <2>8, <2>10, k \in Nat
    <3> QED BY <3>1
  <2>12. Len(z) = Len(xff) /\ \A i \in 1..Len(z) : z[i] = xff[i]
    BY ONLY <1>1, <2>2, <2>8, <2>10, <2>11, k \in Nat
  <2>13. xff = z
    BY ONLY <2>12, z \in Seq(Nat), xff \in Seq(Nat)
  <2>14. PICK s \in Seq(Nat) : s = Reverse(xff)
    BY <1>1, Reversed
  <2>15. IsPrefix(s, s)
    BY PrefixIs
  <2> QED BY <2>6, <2>11, <2>13, <2>14, <2>15 DEF IsSuffix
<1> QED BY <1>2, <1>3 DEF ChainTold

LEMMA ForwardInv == PfInv /\ BackInv => ForwardHonest
<1> SUFFICES ASSUME PfInv, BackInv PROVE ForwardHonest
  OBVIOUS
<1>1. ASSUME pfhop > 0, ~pfreq.ws
      PROVE  /\ IsSuffix(SeenBy(pftrust, pfhop), pfreq.xff) /\ (Doubters(pftrust, pfhop) # {} => pfreq.xff = SeenBy(pftrust, pfhop))
             /\ Len(pfreq.via) >= pfhop
  <2>1. pfhop \in Nat /\ ChainTold(pftrust, pfhop, pfreq.xff) /\ pfreq.xff \in Seq(Nat) /\ Len(pfreq.via) >= pfhop
    BY <1>1 DEF PfInv, PfRequest
  <2> QED BY <1>1, <2>1, ChainSeen
<1>2. ASSUME NEW h \in 1..pfhop PROVE LegFields(pfreq, pfpath[h].req) /\ LegRoute(PfRoutes[h], pfpath[h])
  BY DEF PfInv
<1>3. AnswerClean
  BY DEF BackInv
<1> QED BY <1>1, <1>2, <1>3 DEF ForwardHonest, LegFields, LegRoute

(***************************************************************************)
(* forward() and websocket() of a chain of any length: what the upstream   *)
(* reads in X-Forwarded-For and Via is what the proxies saw, no field of   *)
(* one connection reaches another, in a request or in its answer, and the  *)
(* route taken is the most specific one that matches by whole segments.    *)
(***************************************************************************)
THEOREM ForwardStaysHonest == PfSpec => []ForwardHonest
<1>1. PfSpec => []PfInv
  BY ForwardInitial, ForwardNext, PTL DEF PfSpec
<1>2. PfSpec => []BackInv
  BY BackInitial, BackNext, PTL DEF PfSpec
<1> QED BY <1>1, <1>2, ForwardInv, PTL
=============================================================================
