-------------------------- MODULE EventLoopProofs --------------------------
(***************************************************************************)
(* LoopKept for any number of connections and workers and every batch size *)
(* and cap.  It is inductive together with Owned: a connection a worker    *)
(* steps is in that worker's hands alone, and a message speaks of a        *)
(* connection in a state it fits, so that a late Closed, Detach or         *)
(* BodyChunk never stops the watch of somebody else.                       *)
(***************************************************************************)
EXTENDS EventLoop, FiniteSetTheorems, TLAPS

Msgs == [type : MsgTypes, id : Conns, write : BOOLEAN, socket : BOOLEAN]
Batch == {b \in Seq(Conns) : b # <<>> /\ Len(b) <= DispatchBatch}
Reactors == [pc : {"drain", "poll", "wake", "ready", "send", "scan", "reap"},
             ready : SUBSET Conns, todo : Seq(Conns), expired : SUBSET Conns]
WorkerStates == [pc : {"idle", "step", "park", "register"}, batch : Seq(Conns),
                 write : BOOLEAN, conn : Conns \cup {NoConn}]

ConnTypes ==
    /\ config \in Configs
    /\ place \in [Conns -> Places]
    /\ proto \in [Conns -> Registered]
    /\ input \in [Conns -> BOOLEAN]
    /\ outbuf \in [Conns -> {"none", "full", "room"}]
    /\ streaming \in [Conns -> BOOLEAN]
    /\ app \in [Conns -> BOOLEAN]
    /\ firing \subseteq Conns
    /\ due \in [Conns -> {"no", "header", "body", "ws"}]

LoopTypes ==
    /\ msgs \in Seq(Msgs)
    /\ ready \in Seq(Batch)
    /\ poller \in [Conns -> {"off", "read", "write"}]
    /\ stale \subseteq activity /\ activity \subseteq Conns
    /\ reactor \in Reactors
    /\ worker \in [Workers -> WorkerStates]
    /\ \A w \in Workers : worker[w].conn = NoConn <=> worker[w].pc = "idle"

Early == {"client", "offered", "pending"}
Stepping(w) == worker[w].pc \in {"step", "park"}

\* What a queued message says of its connection.
Fits(m, places) ==
    /\ m.type = "NewConn" => places[m.id] = "offered"
    /\ m.type = "Closed" => places[m.id] = "gone"
    /\ m.type = "Detach" => places[m.id] \in {"tunnel", "gone"}
    /\ m.type \in {"Register", "BodyChunk"} => places[m.id] \notin Early

Owned ==
    /\ \A w \in Workers : Stepping(w) => place[worker[w].conn] = "held"
    /\ \A v, w \in Workers : v # w /\ Stepping(v) /\ Stepping(w) => worker[v].conn # worker[w].conn
    /\ \A w \in Workers : worker[w].pc = "register" => place[worker[w].conn] \notin Early

Spoken ==
    /\ \A i \in DOMAIN msgs : Fits(msgs[i], place)
    /\ \A i, j \in DOMAIN msgs :
          msgs[i].type = "NewConn" /\ msgs[j].type = "NewConn" /\ msgs[i].id = msgs[j].id => i = j

\* About to be registered, or about to be stepped.
Way(c) == Registering(c) \/ Dispatched(c)

Care(c) ==
    /\ place[c] = "pending" => poller[c] # "off"
    /\ place[c] \in Registered => poller[c] # "off" \/ Way(c)
    /\ place[c] = "ws" /\ app[c] => poller[c] = "write" \/ Way(c) \/ c \in firing
    /\ place[c] = "ws" => proto[c] = "ws"
    /\ proto[c] = "ws" => ~streaming[c]
    /\ proto[c] = "ws" \/ streaming[c] \/ c \in firing => place[c] \notin Early

NoReaper == ~config.idle_timeout => reactor.pc \notin {"scan", "reap"}

LoopInv ==
    /\ ConnTypes /\ LoopTypes /\ Owned /\ Spoken /\ NoReaper
    /\ (\A c \in Conns : Care(c)) /\ SlotsBounded

\* The elements of a sequence that grows, shrinks or is put together.
LEMMA RangeOfAppend ==
    ASSUME NEW S, NEW s \in Seq(S), NEW e \in S
    PROVE  Append(s, e) \in Seq(S) /\ Range(Append(s, e)) = Range(s) \cup {e}
<1>1. Append(s, e) \in Seq(S)
  OBVIOUS
<1>2. \A i \in DOMAIN s : i \in DOMAIN Append(s, e) /\ Append(s, e)[i] = s[i]
  OBVIOUS
<1>3. Len(s) + 1 \in DOMAIN Append(s, e) /\ Append(s, e)[Len(s) + 1] = e
  OBVIOUS
<1>4. \A i \in DOMAIN Append(s, e) : i \in DOMAIN s \/ i = Len(s) + 1
  OBVIOUS
<1> QED BY <1>1, <1>2, <1>3, <1>4 DEF Range

LEMMA RangeOfTail ==
    ASSUME NEW S, NEW s \in Seq(S), s # <<>>
    PROVE  /\ Head(s) \in S /\ Tail(s) \in Seq(S)
           /\ Range(s) = {Head(s)} \cup Range(Tail(s))
<1>1. Head(s) \in S /\ Tail(s) \in Seq(S) /\ 1 \in DOMAIN s /\ s[1] = Head(s)
  OBVIOUS
<1>2. \A i \in DOMAIN s : i = 1 \/ (i - 1 \in DOMAIN Tail(s) /\ Tail(s)[i - 1] = s[i])
  OBVIOUS
<1>3. \A i \in DOMAIN Tail(s) : i + 1 \in DOMAIN s /\ Tail(s)[i] = s[i + 1]
  OBVIOUS
<1>4. \A i \in DOMAIN s : s[i] = Head(s) \/ \E j \in DOMAIN Tail(s) : Tail(s)[j] = s[i]
  BY <1>1, <1>2
<1>5. \A j \in DOMAIN Tail(s) : \E i \in DOMAIN s : s[i] = Tail(s)[j]
  BY <1>3
<1>6. Range(s) \subseteq {Head(s)} \cup Range(Tail(s))
  BY <1>4 DEF Range
<1>7. {Head(s)} \cup Range(Tail(s)) \subseteq Range(s)
  BY <1>1, <1>5 DEF Range
<1> QED BY <1>1, <1>6, <1>7

LEMMA RangeOfConcat ==
    ASSUME NEW S, NEW s \in Seq(S), NEW t \in Seq(S)
    PROVE  s \o t \in Seq(S) /\ Range(s \o t) = Range(s) \cup Range(t)
<1>1. s \o t \in Seq(S)
  OBVIOUS
<1>2. \A i \in DOMAIN s : i \in DOMAIN (s \o t) /\ (s \o t)[i] = s[i]
  OBVIOUS
<1>3. \A i \in DOMAIN t : Len(s) + i \in DOMAIN (s \o t) /\ (s \o t)[Len(s) + i] = t[i]
  OBVIOUS
<1>4. \A i \in DOMAIN (s \o t) : i \in DOMAIN s \/ (i - Len(s) \in DOMAIN t /\ (s \o t)[i] = t[i - Len(s)])
  OBVIOUS
<1>5. \A i \in DOMAIN t : \E j \in DOMAIN (s \o t) : (s \o t)[j] = t[i]
  BY <1>3
<1>6. \A j \in DOMAIN (s \o t) : (\E i \in DOMAIN s : (s \o t)[j] = s[i]) \/ \E i \in DOMAIN t : (s \o t)[j] = t[i]
  BY <1>2, <1>4
<1>7. Range(s) \cup Range(t) \subseteq Range(s \o t)
  BY <1>2, <1>5 DEF Range
<1>8. Range(s \o t) \subseteq Range(s) \cup Range(t)
  BY <1>6 DEF Range
<1> QED BY <1>1, <1>7, <1>8

LEMMA RangeOfThree ==
    ASSUME NEW S, NEW s \in Seq(S), NEW t \in Seq(S), NEW u \in Seq(S)
    PROVE  s \o t \o u \in Seq(S) /\ Range(s \o t \o u) = (Range(s) \cup Range(t)) \cup Range(u)
<1>1. s \o t \in Seq(S) /\ Range(s \o t) = Range(s) \cup Range(t)
  BY RangeOfConcat
<1>2. \A x \in Seq(S) : x \o u \in Seq(S) /\ Range(x \o u) = Range(x) \cup Range(u)
  BY RangeOfConcat
<1> QED BY <1>1, <1>2

LEMMA RangeOfSet ==
    ASSUME NEW S, NEW T \in SUBSET S, IsFiniteSet(T)
    PROVE  SetToSeq(T) \in Seq(S) /\ Range(SetToSeq(T)) = T
<1> DEFINE n == Cardinality(T)
           f == SetToSeq(T)
<1>1. n \in Nat /\ ExistsBijection(1..n, T)
  BY FS_CardinalityType
<1>2. \E g \in [1..n -> T] : IsInjective(g)
  BY <1>1 DEF ExistsBijection, Bijection, Injection
<1>3. f \in [1..n -> T] /\ IsInjective(f)
  BY <1>2 DEF SetToSeq
<1>4. f \in Seq(S)
  BY <1>1, <1>3
<1>5. Range(f) \subseteq T /\ f \in Bijection(1..n, Range(f))
  BY <1>3 DEF Range, Bijection, Injection, Surjection
<1>6. IsFiniteSet(1..n) /\ Cardinality(1..n) = n
  BY <1>1, FS_Interval
<1>7. Cardinality(Range(f)) = n
  BY <1>5, <1>6, FS_Bijection DEF ExistsBijection
<1> QED BY <1>4, <1>5, <1>7, FS_Subset

LEMMA TimesMonotone ==
    ASSUME NEW a \in Int, NEW b \in Int, NEW n \in Nat \ {0}
    PROVE  /\ a * n < b * n => a < b
           /\ a <= b => a * n <= b * n
           /\ (a - 1) * n = a * n - n /\ (a + 1) * n = a * n + n
OBVIOUS

LEMMA Division ==
    ASSUME NEW a \in Nat, NEW n \in Nat \ {0}
    PROVE  /\ a \div n \in Nat
           /\ (a \div n) * n <= a /\ a < (a \div n + 1) * n
OBVIOUS

\* slice::chunks(): every id is in some batch, and no batch is empty or too long.
LEMMA BatchesCover ==
    ASSUME NEW ids \in Seq(Conns)
    PROVE  /\ Batches(ids) \in Seq(Batch)
           /\ \A c \in Range(ids) : \E b \in Range(Batches(ids)) : c \in Range(b)
<1> DEFINE B == DispatchBatch
           n == (Len(ids) + B - 1) \div B
           lo(k) == (k - 1) * B + 1
           hi(k) == IF k * B < Len(ids) THEN k * B ELSE Len(ids)
<1>1. B \in Nat \ {0} /\ Len(ids) \in Nat /\ Len(ids) + B - 1 \in Nat
  BY LoopAssumption
<1>2. n \in Nat /\ n * B <= Len(ids) + B - 1 /\ Len(ids) + B - 1 < (n + 1) * B
  BY <1>1, Division
<1> HIDE DEF B, n
<1>3. Batches(ids) = [k \in 1..n |-> SubSeq(ids, lo(k), hi(k))]
  BY DEF Batches, n, B
<1>4. ASSUME NEW k \in 1..n
      PROVE  /\ lo(k) \in 1..Len(ids) /\ hi(k) \in lo(k)..Len(ids) /\ hi(k) <= lo(k) - 1 + B
  <2>1. k * B <= n * B /\ (k - 1) * B = k * B - B /\ 1 * B <= k * B /\ 1 * B = B
    BY <1>1, <1>2, TimesMonotone
  <2>2. k * B \in Int /\ n * B \in Int
    BY <1>1, <1>2
  <2> QED BY <1>1, <1>2, <2>1, <2>2
<1>5. ASSUME NEW k \in 1..n PROVE SubSeq(ids, lo(k), hi(k)) \in Batch
  <2>1. lo(k) \in Int /\ hi(k) \in Int
    BY <1>4
  <2> HIDE DEF lo, hi
  <2>2. SubSeq(ids, lo(k), hi(k)) \in Seq(Conns) /\ Len(SubSeq(ids, lo(k), hi(k))) = hi(k) - lo(k) + 1
    BY <1>4, <1>5, <2>1
  <2>3. hi(k) - lo(k) + 1 <= B /\ hi(k) - lo(k) + 1 > 0
    BY <1>1, <1>4, <1>5, <2>1
  <2> DEFINE b == SubSeq(ids, lo(k), hi(k))
  <2>4. b \in Seq(Conns) /\ Len(b) <= B /\ Len(b) > 0
    BY <2>1, <2>2, <2>3
  <2> HIDE DEF b
  <2>5. b # <<>>
    BY <2>4
  <2> QED BY <2>4, <2>5 DEF Batch, B, b
<1>6. Batches(ids) \in Seq(Batch)
  BY <1>2, <1>3, <1>5
<1>7. ASSUME NEW j \in DOMAIN ids
      PROVE  \E k \in 1..n : j \in lo(k)..hi(k)
  <2> DEFINE q == (j - 1) \div B
  <2>1. j \in Nat /\ j >= 1 /\ j <= Len(ids) /\ j - 1 \in Nat
    BY <1>7
  <2>2. q \in Nat /\ q * B <= j - 1 /\ j - 1 < (q + 1) * B
    BY <1>1, <2>1, Division
  <2> HIDE DEF q
  <2>3. q * B < n * B + 0
    <3>1. (n + 1) * B = n * B + B /\ n * B \in Int /\ q * B \in Int
      BY <1>1, <1>2, <2>2, TimesMonotone
    <3> QED BY <1>1, <1>2, <2>1, <2>2, <3>1
  <2>4. q < n
    BY <1>1, <1>2, <2>2, <2>3, TimesMonotone
  <2>5. q + 1 \in 1..n /\ (q + 1 - 1) * B = q * B
    BY <1>2, <2>2, <2>4
  <2>6. j \in lo(q + 1)..hi(q + 1)
    BY <1>1, <2>1, <2>2, <2>5
  <2> QED BY <2>5, <2>6
<1>8. ASSUME NEW j \in DOMAIN ids
      PROVE  \E b \in Range(Batches(ids)) : ids[j] \in Range(b)
  <2>1. PICK k \in 1..n : j \in lo(k)..hi(k)
    BY <1>7, <1>8
  <2>2. lo(k) \in Int /\ hi(k) \in Int /\ lo(k) >= 1 /\ hi(k) <= Len(ids)
    BY <1>4
  <2> HIDE DEF lo, hi
  <2> DEFINE b == SubSeq(ids, lo(k), hi(k))
             i == j - lo(k) + 1
  <2>3. i \in DOMAIN b /\ b[i] = ids[j]
    BY <1>8, <2>1, <2>2
  <2>4. b \in Range(Batches(ids))
    BY <1>3 DEF Range
  <2> QED BY <2>3, <2>4 DEF Range
<1> QED BY <1>6, <1>8 DEF Range

\* The entry of every live connection survives a step that brings none to life.
LEMMA SlotsKept ==
    ASSUME ConnTypes, SlotsBounded, config' = config,
           \A c \in Conns : Live(c)' => Live(c),
           ~config.idle_timeout => \A c \in Conns : Live(c)' /\ c \in activity => c \in activity'
    PROVE  SlotsBounded'
<1> SUFFICES ASSUME ~config.idle_timeout
             PROVE  /\ {c \in Conns : Live(c)'} \subseteq activity'
                    /\ config.max_connections > 0 => Cardinality({c \in Conns : Live(c)'}) <= config.max_connections
  BY DEF SlotsBounded
<1> DEFINE L == {c \in Conns : Live(c)}
           M == {c \in Conns : Live(c)'}
<1>1. M \subseteq L /\ L \subseteq Conns /\ L \subseteq activity
  BY DEF SlotsBounded
<1>2. IsFiniteSet(L)
  BY <1>1, LoopAssumption, FS_Subset
<1>3. Cardinality(M) <= Cardinality(L) /\ Cardinality(M) \in Nat /\ Cardinality(L) \in Nat
  BY <1>1, <1>2, FS_Subset, FS_CardinalityType
<1>4. config.max_connections \in Nat
  BY LoopAssumption DEF ConnTypes
<1>5. config.max_connections > 0 => Cardinality(L) <= config.max_connections
  BY DEF SlotsBounded
<1> HIDE DEF L
<1>6. config.max_connections > 0 => Cardinality(M) <= config.max_connections
  BY <1>3, <1>4, <1>5
<1>7. M \subseteq activity'
  BY <1>1
<1> QED BY <1>6, <1>7

\* What is on its way to a worker, or to the reactor, stays so.
LEMMA WayKept ==
    ASSUME NEW c, Way(c),
           Range(msgs) \subseteq Range(msgs'), Range(reactor.todo) \subseteq Range(reactor'.todo),
           Range(ready) \subseteq Range(ready'),
           \A w \in Workers : /\ Range(worker[w].batch) \subseteq Range(worker'[w].batch)
                              /\ worker[w].pc = "register" => worker'[w].pc = "register" /\ worker'[w].conn = worker[w].conn
    PROVE  Way(c)'
BY DEF Way, Registering, Dispatched

LEMMA CareKept ==
    ASSUME NEW c \in Conns, Care(c),
           place'[c] = place[c], proto'[c] = proto[c], streaming'[c] = streaming[c],
           app'[c] = app[c], poller'[c] = poller[c], c \in firing' <=> c \in firing,
           Way(c) => Way(c)'
    PROVE  Care(c)'
BY DEF Care

\* A step that touches no connection's owner, watch or queue.
LEMMA QuietStep ==
    ASSUME LoopInv, UNCHANGED <<config, place, proto, streaming, app, firing, msgs, ready, poller, activity, worker>>,
           ConnTypes', reactor' \in Reactors, reactor'.todo = reactor.todo, NoReaper', stale' \subseteq activity
    PROVE  LoopInv'
<1>1. LoopTypes'
  BY DEF LoopInv, LoopTypes
<1>2. Owned' /\ Spoken'
  BY DEF LoopInv, Owned, Stepping, Spoken, Fits
<1>3. \A c \in Conns : Way(c) => Way(c)'
  BY DEF Way, Registering, Dispatched
<1>4. \A c \in Conns : Care(c)'
  BY <1>3, CareKept DEF LoopInv
<1>5. SlotsBounded'
  BY SlotsKept DEF LoopInv, Live
<1> QED BY <1>1, <1>2, <1>4, <1>5 DEF LoopInv

LEMMA QuietSteps ==
    ASSUME LoopInv,
           \/ EndDrain \/ Wait \/ EndWake \/ Scan \/ EndRound \/ UNCHANGED vars
           \/ \E c \in Conns : PeerSends(c) \/ PeerReads(c) \/ DeadlinePasses(c) \/ GoesStale(c)
    PROVE  LoopInv'
<1> USE DEF chanVars, envVars, loopVars
<1>1. UNCHANGED <<config, place, proto, streaming, app, firing, msgs, ready, poller, activity, worker>>
  BY DEF EndDrain, Wait, EndWake, Scan, EndRound, vars, PeerSends, PeerReads, DeadlinePasses, GoesStale
<1>2. ConnTypes'
  <2>1. ConnTypes
    BY DEF LoopInv
  <2>2. input' \in [Conns -> BOOLEAN]
    BY <2>1 DEF ConnTypes, EndDrain, Wait, EndWake, Scan, EndRound, vars, PeerSends, PeerReads, DeadlinePasses, GoesStale
  <2>3. outbuf' \in [Conns -> {"none", "full", "room"}]
    BY <2>1 DEF ConnTypes, EndDrain, Wait, EndWake, Scan, EndRound, vars, PeerSends, PeerReads, DeadlinePasses, GoesStale
  <2>4. due' \in [Conns -> {"no", "header", "body", "ws"}]
    BY <2>1 DEF ConnTypes, EndDrain, Wait, EndWake, Scan, EndRound, vars, PeerSends, PeerReads, DeadlinePasses, GoesStale
  <2> QED BY <1>1, <2>1, <2>2, <2>3, <2>4 DEF ConnTypes
<1>3. /\ reactor' \in Reactors /\ reactor'.todo = reactor.todo
      /\ reactor'.pc \in {"scan", "reap"} => reactor.pc \in {"scan", "reap"}
  <2>1. reactor \in Reactors /\ poller \in [Conns -> {"off", "read", "write"}] /\ stale \subseteq Conns
    BY DEF LoopInv, LoopTypes
  <2>2. CASE EndDrain \/ EndWake \/ EndRound
    BY <2>1, <2>2 DEF EndDrain, EndWake, EndRound, Reactors
  <2>3. CASE Wait
    <3>1. PICK bad \in SUBSET {c \in Watched : ~Open(c)} :
            reactor' = [reactor EXCEPT !.pc = "wake", !.ready = bad \cup {c \in Watched : Open(c) /\ Ready(c)}]
      BY <2>3 DEF Wait
    <3>2. bad \cup {c \in Watched : Open(c) /\ Ready(c)} \in SUBSET Conns
      BY DEF Watched
    <3> QED BY <2>1, <3>1, <3>2 DEF Reactors
  <2>4. CASE Scan
    <3>1. PICK e : e = {c \in stale \ reactor.expired : place[c] \in Registered \cup {"pending"}}
      OBVIOUS
    <3>2. e \in SUBSET Conns /\ reactor' = [reactor EXCEPT !.pc = "reap", !.expired = e] /\ reactor.pc = "scan"
      BY <2>1, <2>4, <3>1 DEF Scan
    <3> QED BY <2>1, <3>2 DEF Reactors
  <2>5. CASE UNCHANGED reactor
    BY <2>1, <2>5
  <2> QED BY <2>2, <2>3, <2>4, <2>5 DEF vars, PeerSends, PeerReads, DeadlinePasses, GoesStale
<1>4. NoReaper'
  BY <1>1, <1>3 DEF LoopInv, NoReaper
<1>5. stale' \subseteq activity
  BY DEF LoopInv, LoopTypes, EndDrain, Wait, EndWake, Scan, EndRound, vars, PeerSends, PeerReads, DeadlinePasses, GoesStale
<1> QED BY <1>1, <1>2, <1>3, <1>4, <1>5, QuietStep

\* A message is queued.
LEMMA Says ==
    ASSUME msgs \in Seq(Msgs), Spoken, NEW m \in Msgs, msgs' = Append(msgs, m), Fits(m, place'),
           \A i \in DOMAIN msgs : Fits(msgs[i], place'),
           m.type = "NewConn" => \A i \in DOMAIN msgs : msgs[i].id # m.id
    PROVE  msgs' \in Seq(Msgs) /\ Spoken' /\ Range(msgs) \subseteq Range(msgs') /\ m \in Range(msgs')
<1>1. msgs' \in Seq(Msgs) /\ Range(msgs') = Range(msgs) \cup {m}
  BY RangeOfAppend
<1>2. \A i \in DOMAIN msgs' : (i \in DOMAIN msgs /\ msgs'[i] = msgs[i]) \/ (i = Len(msgs) + 1 /\ msgs'[i] = m)
  OBVIOUS
<1>3. \A i \in DOMAIN msgs' : Fits(msgs'[i], place')
  BY <1>2
<1>4. \A i, j \in DOMAIN msgs' :
        msgs'[i].type = "NewConn" /\ msgs'[j].type = "NewConn" /\ msgs'[i].id = msgs'[j].id => i = j
  BY <1>2 DEF Spoken
<1>5. Spoken'
  BY <1>3, <1>4 DEF Spoken
<1> QED BY <1>1, <1>5

\* A connection changes hands without contradicting a queued message.
LEMMA StillFits ==
    ASSUME ConnTypes, msgs \in Seq(Msgs), Spoken, NEW c \in Conns, NEW to, place' = [place EXCEPT ![c] = to],
           place[c] \notin {"offered", "gone"}, place[c] = "tunnel" => to = "gone",
           place[c] \notin Early => to \notin Early
    PROVE  \A i \in DOMAIN msgs : Fits(msgs[i], place')
<1> SUFFICES ASSUME NEW i \in DOMAIN msgs PROVE Fits(msgs[i], place')
  OBVIOUS
<1> PICK m \in Msgs : m = msgs[i]
  OBVIOUS
<1>1. Fits(m, place) /\ m.id \in Conns
  BY DEF Spoken, Msgs
<1>2. CASE m.id # c
  <2>1. place'[m.id] = place[m.id]
    BY <1>1, <1>2 DEF ConnTypes
  <2>2. Fits(m, place')
    BY <1>1, <2>1 DEF Fits
  <2> QED BY <2>2
<1>3. CASE m.id = c
  <2>1. place'[m.id] = to /\ place[m.id] = place[c]
    BY <1>3 DEF ConnTypes
  <2>2. m.type # "NewConn" /\ m.type # "Closed"
    BY <1>1, <2>1 DEF Fits
  <2>3. m.type = "Detach" => to = "gone"
    BY <1>1, <2>1 DEF Fits
  <2>4. m.type \in {"Register", "BodyChunk"} => to \notin Early
    BY <1>1, <2>1 DEF Fits
  <2> QED BY <2>1, <2>2, <2>3, <2>4 DEF Fits
<1> QED BY <1>2, <1>3

LEMMA OthersHands ==
    ASSUME ConnTypes, LoopTypes, Owned, NEW c \in Conns, NEW to, place' = [place EXCEPT ![c] = to], worker' = worker,
           place[c] # "held", place[c] \notin Early => to \notin Early
    PROVE  Owned'
<1>1. \A d \in Conns : place'[d] = IF d = c THEN to ELSE place[d]
  BY DEF ConnTypes
<1>2. \A w \in Workers : worker[w].pc # "idle" => worker[w].conn \in Conns
  BY DEF LoopTypes, WorkerStates
<1> QED BY <1>1, <1>2 DEF Owned, Stepping

\* The application threads and the accept thread.
LEMMA ProduceStep ==
    ASSUME LoopInv, NEW c \in Conns, Produce(c)
    PROVE  LoopInv'
<1> USE DEF chanVars, envVars, loopVars
<1>1. /\ UNCHANGED <<config, place, proto, input, outbuf, streaming, due, msgs, ready, poller, activity, stale, reactor, worker>>
      /\ app' = [app EXCEPT ![c] = TRUE] /\ firing' \in {firing, firing \cup {c}}
      /\ streaming[c] \/ (proto[c] = "ws" /\ firing' = firing \cup {c})
  BY DEF Produce
<1>2. ConnTypes'
  BY <1>1 DEF LoopInv, ConnTypes
<1>3. LoopTypes' /\ Owned' /\ Spoken' /\ NoReaper'
  BY <1>1 DEF LoopInv, LoopTypes, Owned, Stepping, Spoken, Fits, NoReaper
<1>4. \A d \in Conns : Way(d) => Way(d)'
  BY <1>1 DEF Way, Registering, Dispatched
<1>5. ASSUME NEW d \in Conns PROVE Care(d)'
  <2>1. CASE d # c
    <3>1. app'[d] = app[d] /\ (d \in firing' <=> d \in firing)
      BY <1>1, <2>1 DEF LoopInv, ConnTypes
    <3> QED BY <1>1, <1>4, <3>1, CareKept DEF LoopInv
  <2>2. CASE d = c
    <3>1. Care(c)
      BY DEF LoopInv
    <3>2. place[c] = "ws" => c \in firing'
      BY <1>1, <3>1 DEF Care
    <3>3. place[c] \notin Early
      BY <1>1, <3>1 DEF Care
    <3> QED BY <1>1, <1>4, <2>2, <3>1, <3>2, <3>3 DEF Care
  <2> QED BY <2>1, <2>2
<1>6. SlotsBounded'
  BY <1>1, SlotsKept DEF LoopInv, Live
<1> QED BY <1>2, <1>3, <1>5, <1>6 DEF LoopInv

LEMMA FireStep ==
    ASSUME LoopInv, NEW c \in Conns, Fire(c)
    PROVE  LoopInv'
<1> USE DEF chanVars, envVars, loopVars
<1> PICK m : m = IF proto[c] = "ws" THEN Msg("Register", c, TRUE, FALSE) ELSE Msg("BodyChunk", c, FALSE, FALSE)
  OBVIOUS
<1>1. /\ UNCHANGED <<config, place, proto, input, outbuf, streaming, app, due, ready, poller, activity, stale, reactor, worker>>
      /\ c \in firing /\ firing' = firing \ {c} /\ msgs' = Append(msgs, m)
  BY DEF Fire
<1>2. m \in Msgs /\ m.id = c /\ m.type \in {"Register", "BodyChunk"} /\ (proto[c] = "ws" => m.type = "Register")
  BY DEF Msg, Msgs, MsgTypes
<1>3. Care(c) /\ place[c] \notin Early
  BY <1>1 DEF LoopInv, Care
<1>4. Fits(m, place') /\ \A i \in DOMAIN msgs : Fits(msgs[i], place')
  BY <1>1, <1>2, <1>3 DEF LoopInv, Spoken, Fits
<1>5. msgs' \in Seq(Msgs) /\ Spoken' /\ Range(msgs) \subseteq Range(msgs') /\ m \in Range(msgs')
  BY <1>1, <1>2, <1>4, Says DEF LoopInv, LoopTypes
<1>6. ConnTypes' /\ LoopTypes'
  BY <1>1, <1>5 DEF LoopInv, ConnTypes, LoopTypes
<1>7. Owned' /\ NoReaper'
  BY <1>1 DEF LoopInv, Owned, Stepping, NoReaper
<1>8. \A d \in Conns : Way(d) => Way(d)'
  BY <1>1, <1>5, WayKept
<1>9. ASSUME NEW d \in Conns PROVE Care(d)'
  <2>1. CASE d # c
    BY <1>1, <1>8, <2>1, CareKept DEF LoopInv
  <2>2. CASE d = c
    <3>1. proto[c] = "ws" => Way(c)'
      BY <1>2, <1>5 DEF Way, Registering
    <3> QED BY <1>1, <1>3, <1>8, <2>2, <3>1 DEF Care
  <2> QED BY <2>1, <2>2
<1>10. SlotsBounded'
  BY <1>1, SlotsKept DEF LoopInv, Live
<1> QED BY <1>5, <1>6, <1>7, <1>9, <1>10 DEF LoopInv

LEMMA AcceptStep ==
    ASSUME LoopInv, NEW c \in Conns, Accept(c)
    PROVE  LoopInv'
<1> USE DEF chanVars, envVars, loopVars
<1> PICK m : m = Msg("NewConn", c, FALSE, FALSE)
  OBVIOUS
<1>1. /\ UNCHANGED <<config, proto, input, outbuf, streaming, app, firing, due, ready, poller, activity, stale, reactor, worker>>
      /\ place[c] = "client" /\ place' = [place EXCEPT ![c] = "offered"] /\ msgs' = Append(msgs, m)
  BY DEF Accept
<1>2. m \in Msgs /\ m.id = c /\ m.type = "NewConn"
  BY DEF Msg, Msgs, MsgTypes
<1>3. ConnTypes /\ LoopTypes /\ Owned /\ Spoken /\ msgs \in Seq(Msgs) /\ Care(c)
  BY DEF LoopInv, LoopTypes
<1>4. \A d \in Conns : place'[d] = IF d = c THEN "offered" ELSE place[d]
  BY <1>1, <1>3 DEF ConnTypes
<1>5. \A i \in DOMAIN msgs : Fits(msgs[i], place')
  BY <1>1, <1>3, StillFits DEF Early
<1>6. \A i \in DOMAIN msgs : msgs[i].id # m.id
  <2> SUFFICES ASSUME NEW i \in DOMAIN msgs, msgs[i].id = c PROVE FALSE
    BY <1>2
  <2> msgs[i] \in Msgs
    BY <1>3
  <2>1. msgs[i].type \in MsgTypes /\ Fits(msgs[i], place)
    BY <1>3 DEF Msgs, Spoken
  <2> QED BY <1>1, <2>1 DEF Fits, MsgTypes, Early
<1>7. Fits(m, place')
  BY <1>2, <1>4 DEF Fits
<1>8. msgs' \in Seq(Msgs) /\ Spoken' /\ Range(msgs) \subseteq Range(msgs')
  BY <1>1, <1>2, <1>3, <1>5, <1>6, <1>7, Says
<1>9. ConnTypes' /\ LoopTypes' /\ NoReaper'
  BY <1>1, <1>4, <1>8 DEF LoopInv, ConnTypes, LoopTypes, NoReaper, Places
<1>10. Owned'
  BY <1>1, <1>3, OthersHands DEF Early
<1>11. \A d \in Conns : Way(d) => Way(d)'
  BY <1>1, <1>8, WayKept
<1>12. ASSUME NEW d \in Conns PROVE Care(d)'
  <2>1. CASE d # c
    BY <1>1, <1>4, <1>11, <2>1, CareKept DEF LoopInv
  <2>2. CASE d = c
    BY <1>1, <1>3, <1>4, <2>2 DEF Care, Early, Registered
  <2> QED BY <2>1, <2>2
<1>13. SlotsBounded'
  BY <1>1, <1>4, SlotsKept DEF LoopInv, Live, Registered
<1> QED BY <1>8, <1>9, <1>10, <1>12, <1>13 DEF LoopInv

LEMMA TunnelStep ==
    ASSUME LoopInv, NEW c \in Conns, TunnelEnds(c)
    PROVE  LoopInv'
<1> USE DEF chanVars, envVars, loopVars
<1> PICK m : m = Msg("Closed", c, FALSE, FALSE)
  OBVIOUS
<1>1. /\ UNCHANGED <<config, proto, input, outbuf, streaming, app, firing, due, ready, poller, activity, stale, reactor, worker>>
      /\ place[c] = "tunnel" /\ place' = [place EXCEPT ![c] = "gone"] /\ msgs' = Append(msgs, m)
  BY DEF TunnelEnds, Move, Send
<1>2. m \in Msgs /\ m.id = c /\ m.type = "Closed"
  BY DEF Msg, Msgs, MsgTypes
<1>3. ConnTypes /\ LoopTypes /\ Owned /\ Spoken /\ msgs \in Seq(Msgs) /\ Care(c)
  BY DEF LoopInv, LoopTypes
<1>4. \A d \in Conns : place'[d] = IF d = c THEN "gone" ELSE place[d]
  BY <1>1, <1>3 DEF ConnTypes
<1>5. \A i \in DOMAIN msgs : Fits(msgs[i], place')
  BY <1>1, <1>3, StillFits DEF Early
<1>6. Fits(m, place')
  BY <1>2, <1>4 DEF Fits
<1>7. msgs' \in Seq(Msgs) /\ Spoken' /\ Range(msgs) \subseteq Range(msgs')
  BY <1>1, <1>2, <1>3, <1>5, <1>6, Says
<1>8. ConnTypes' /\ LoopTypes' /\ NoReaper'
  BY <1>1, <1>4, <1>7 DEF LoopInv, ConnTypes, LoopTypes, NoReaper, Places
<1>9. Owned'
  BY <1>1, <1>3, OthersHands DEF Early
<1>10. \A d \in Conns : Way(d) => Way(d)'
  BY <1>1, <1>7, WayKept
<1>11. ASSUME NEW d \in Conns PROVE Care(d)'
  <2>1. CASE d # c
    BY <1>1, <1>4, <1>10, <2>1, CareKept DEF LoopInv
  <2>2. CASE d = c
    BY <1>1, <1>3, <1>4, <2>2 DEF Care, Early, Registered
  <2> QED BY <2>1, <2>2
<1>12. SlotsBounded'
  BY <1>1, <1>4, SlotsKept DEF LoopInv, Live, Registered
<1> QED BY <1>7, <1>8, <1>9, <1>11, <1>12 DEF LoopInv

\* The reactor takes a message.
LEMMA Hears ==
    ASSUME LoopInv, msgs # <<>>, msgs' = Tail(msgs),
           \A i \in DOMAIN msgs : i # 1 => Fits(msgs[i], place')
    PROVE  /\ Head(msgs) \in Msgs /\ Fits(Head(msgs), place)
           /\ msgs' \in Seq(Msgs) /\ Spoken' /\ Range(msgs) = {Head(msgs)} \cup Range(msgs')
<1>1. msgs \in Seq(Msgs) /\ Spoken
  BY DEF LoopInv, LoopTypes
<1>2. /\ Head(msgs) \in Msgs /\ msgs' \in Seq(Msgs)
      /\ Range(msgs) = {Head(msgs)} \cup Range(msgs')
  BY <1>1, RangeOfTail
<1>3. Fits(Head(msgs), place)
  BY <1>1 DEF Spoken
<1>4. \A i \in DOMAIN msgs' : i + 1 \in DOMAIN msgs /\ i + 1 # 1 /\ msgs'[i] = msgs[i + 1] /\ i \in Nat
  BY <1>1
<1>5. \A i \in DOMAIN msgs' : Fits(msgs'[i], place')
  BY <1>4
<1>6. \A i, j \in DOMAIN msgs' :
        msgs'[i].type = "NewConn" /\ msgs'[j].type = "NewConn" /\ msgs'[i].id = msgs'[j].id => i = j
  BY <1>1, <1>4 DEF Spoken
<1> QED BY <1>2, <1>3, <1>5, <1>6 DEF Spoken

LEMMA WayHeard ==
    ASSUME NEW c, Way(c), NEW m, m.type = "Register" => m.id # c,
           Range(msgs) = {m} \cup Range(msgs'), Range(ready) \subseteq Range(ready'),
           UNCHANGED <<reactor, worker>>
    PROVE  Way(c)'
<1>1. Registering(c) => Registering(c)'
  BY DEF Registering
<1>2. Dispatched(c) => Dispatched(c)'
  BY DEF Dispatched
<1> QED BY <1>1, <1>2 DEF Way

\* A message about a connection that leaves its owner as he is.
LEMMA HeardStep ==
    ASSUME LoopInv, msgs # <<>>, msgs' = Tail(msgs), NEW m, m = Head(msgs),
           \/ m.type = "Register" /\ OnRegister(m.id, m.write)
           \/ m.type = "BodyChunk" /\ WakeConnection(m.id)
           \/ m.type = "Closed" /\ OnClosed(m.id)
           \/ m.type = "Detach" /\ OnDetach(m.id),
           UNCHANGED <<config, proto, envVars, reactor, worker>>
    PROVE  LoopInv'
<1> USE DEF envVars, Watch, Touch, Forget
<1> PICK c : c = m.id
  OBVIOUS
<1>1. place' = place
  BY DEF OnRegister, WakeConnection, OnClosed, OnDetach
<1>2. /\ m \in Msgs /\ Fits(m, place) /\ c \in Conns /\ m.write \in BOOLEAN
      /\ msgs' \in Seq(Msgs) /\ Spoken' /\ Range(msgs) = {m} \cup Range(msgs')
  <2>1. \A i \in DOMAIN msgs : i # 1 => Fits(msgs[i], place')
    BY <1>1 DEF LoopInv, Spoken
  <2>2. /\ m \in Msgs /\ Fits(m, place)
        /\ msgs' \in Seq(Msgs) /\ Spoken' /\ Range(msgs) = {m} \cup Range(msgs')
    BY <2>1, Hears
  <2> QED BY <2>2 DEF Msgs
<1>3. /\ ConnTypes /\ poller \in [Conns -> {"off", "read", "write"}] /\ stale \subseteq activity /\ activity \subseteq Conns
      /\ ready \in Seq(Batch) /\ app[c] \in BOOLEAN
  BY <1>2 DEF LoopInv, LoopTypes, ConnTypes
<1>4. PICK way \in {"off", "read", "write"} : poller' = [poller EXCEPT ![c] = way]
  BY DEF OnRegister, WakeConnection, OnClosed, OnDetach, Direction
<1>5. /\ poller'[c] = way /\ \A d \in Conns \ {c} : poller'[d] = poller[d]
      /\ poller' \in [Conns -> {"off", "read", "write"}]
  BY <1>2, <1>3, <1>4
<1>6. stale' \subseteq activity' /\ activity' \subseteq Conns
  BY <1>2, <1>3 DEF OnRegister, WakeConnection, OnClosed, OnDetach
<1>7. /\ ready' \in Seq(Batch) /\ Range(ready) \subseteq Range(ready')
      /\ m.type = "BodyChunk" => <<c>> \in Range(ready')
  <2>1. CASE m.type = "BodyChunk"
    <3>1. <<c>> \in Batch
      BY <1>2, LoopAssumption DEF Batch
    <3>2. ready' = Append(ready, <<c>>)
      BY <2>1 DEF WakeConnection
    <3> QED BY <1>3, <3>1, <3>2, RangeOfAppend
  <2>2. CASE ready' = ready /\ m.type # "BodyChunk"
    BY <1>3, <2>2
  <2> QED BY <2>1, <2>2 DEF OnRegister, OnClosed, OnDetach
<1>8. ConnTypes' /\ LoopTypes' /\ NoReaper' /\ Owned'
  BY <1>1, <1>2, <1>5, <1>6, <1>7 DEF LoopInv, ConnTypes, LoopTypes, NoReaper, Owned, Stepping
<1>9. ASSUME NEW d \in Conns \ {c} PROVE Care(d)'
  <2>1. Way(d) => Way(d)'
    BY <1>2, <1>7, WayHeard
  <2> QED BY <1>1, <1>5, <2>1, CareKept DEF LoopInv
<1>10. Care(c)
  BY <1>2 DEF LoopInv
<1>11. ASSUME m.type = "Register" PROVE Care(c)'
  <2>1. way = Direction(IF place[c] = "ws" THEN app[c] ELSE m.write)
    BY <1>2, <1>3, <1>5, <1>11 DEF OnRegister
  <2>2. place[c] \notin Early /\ way # "off" /\ (place[c] = "ws" /\ app[c] => way = "write")
    BY <1>2, <1>11, <2>1 DEF Fits, Direction
  <2> QED BY <1>1, <1>5, <1>10, <2>2 DEF Care
<1>12. ASSUME m.type = "BodyChunk" PROVE Care(c)'
  <2>1. place[c] \notin Early
    BY <1>2, <1>12 DEF Fits
  <2>2. c \in Range(<<c>>)
    BY DEF Range
  <2>3. Way(c)'
    BY <1>7, <1>12, <2>2 DEF Way, Dispatched
  <2>4. place[c] # "pending"
    BY <2>1 DEF Early
  <2> QED BY <1>1, <1>10, <2>1, <2>3, <2>4 DEF Care
<1>13. ASSUME m.type \in {"Closed", "Detach"} PROVE Care(c)'
  <2>1. place[c] \in {"tunnel", "gone"}
    BY <1>2, <1>13 DEF Fits
  <2> QED BY <1>1, <1>10, <2>1 DEF Care, Registered
<1>14. Care(c)'
  BY <1>11, <1>12, <1>13
<1>15. SlotsBounded'
  <2>1. \A d \in Conns : Live(d)' <=> Live(d)
    BY <1>1 DEF Live
  <2>2. \A d \in activity : d \in activity' \/ (d = c /\ place[c] = "gone")
    BY <1>2 DEF OnRegister, WakeConnection, OnClosed, OnDetach, Fits
  <2>3. place[c] = "gone" => ~Live(c)
    BY DEF Live, Registered
  <2> QED BY <2>1, <2>2, <2>3, SlotsKept DEF LoopInv
<1> QED BY <1>2, <1>8, <1>9, <1>14, <1>15 DEF LoopInv

\* A new connection takes a slot, or is turned away.
LEMMA NewConnStep ==
    ASSUME LoopInv, msgs # <<>>, msgs' = Tail(msgs), NEW m, m = Head(msgs),
           m.type = "NewConn", OnNewConn(m.id),
           UNCHANGED <<config, proto, envVars, reactor, worker>>
    PROVE  LoopInv'
<1> USE DEF envVars, Watch, Touch, Forget, Move
<1> PICK c : c = m.id
  OBVIOUS
<1>1. /\ ConnTypes /\ LoopTypes /\ Owned /\ Spoken /\ msgs \in Seq(Msgs) /\ m \in Msgs /\ c \in Conns
      /\ m = msgs[1] /\ 1 \in DOMAIN msgs /\ place[c] = "offered"
  <2>1. msgs \in Seq(Msgs) /\ m \in Msgs /\ m = msgs[1] /\ 1 \in DOMAIN msgs
    BY DEF LoopInv, LoopTypes
  <2> QED BY <2>1 DEF LoopInv, Spoken, Fits, Msgs
<1>2. PICK to \in {"gone", "pending"} :
        /\ place' = [place EXCEPT ![c] = to]
        /\ to = "gone" => UNCHANGED <<activity, stale, poller>>
        /\ to = "pending" => /\ ~Full /\ activity' = activity \cup {c} /\ stale' = stale \ {c}
                             /\ poller' = [poller EXCEPT ![c] = "read"]
  BY DEF OnNewConn
<1>3. \A d \in Conns : place'[d] = IF d = c THEN to ELSE place[d]
  BY <1>1, <1>2 DEF ConnTypes
<1>4. \A i \in DOMAIN msgs : i # 1 => Fits(msgs[i], place')
  <2> SUFFICES ASSUME NEW i \in DOMAIN msgs, i # 1 PROVE Fits(msgs[i], place')
    OBVIOUS
  <2>1. msgs[i] \in Msgs /\ Fits(msgs[i], place)
    BY <1>1 DEF Spoken
  <2>2. msgs[i].id = c => msgs[i].type = "NewConn"
    BY <1>1, <2>1 DEF Fits, Msgs, MsgTypes, Early
  <2>3. msgs[i].id # c
    BY <1>1, <2>2 DEF Spoken
  <2>4. place'[msgs[i].id] = place[msgs[i].id]
    BY <1>3, <2>1, <2>3 DEF Msgs
  <2> QED BY <2>1, <2>4 DEF Fits
<1>5. msgs' \in Seq(Msgs) /\ Spoken' /\ Range(msgs) = {m} \cup Range(msgs')
  BY <1>4, Hears
<1>6. ready' = ready
  BY DEF OnNewConn
<1>7. /\ stale' \subseteq activity' /\ activity' \subseteq Conns /\ activity \subseteq activity'
      /\ poller' \in [Conns -> {"off", "read", "write"}]
      /\ \A d \in Conns \ {c} : poller'[d] = poller[d]
      /\ to = "pending" => poller'[c] = "read"
  <2>1. poller \in [Conns -> {"off", "read", "write"}] /\ stale \subseteq activity /\ activity \subseteq Conns
    BY <1>1 DEF LoopTypes
  <2> QED BY <1>1, <1>2, <2>1
<1>8. ConnTypes' /\ LoopTypes' /\ NoReaper'
  BY <1>3, <1>2, <1>5, <1>6, <1>7 DEF LoopInv, ConnTypes, LoopTypes, NoReaper, Places
<1>9. Owned'
  BY <1>1, <1>2, OthersHands DEF Early
<1>10. ASSUME NEW d \in Conns \ {c} PROVE Care(d)'
  <2>1. Way(d) => Way(d)'
    BY <1>5, <1>6, WayHeard
  <2> QED BY <1>3, <1>7, <2>1, CareKept DEF LoopInv
<1>11. Care(c)'
  <2>1. Care(c) /\ place'[c] = to
    BY <1>1, <1>3 DEF LoopInv
  <2> QED BY <1>1, <1>2, <1>7, <2>1 DEF Care, Early, Registered
<1>12. CASE to = "gone"
  <2>1. SlotsBounded'
    BY <1>2, <1>3, <1>12, SlotsKept DEF LoopInv, Live, Registered
  <2> QED BY <1>5, <1>8, <1>9, <1>10, <1>11, <2>1 DEF LoopInv
<1>13. CASE to = "pending"
  <2> DEFINE L == {d \in Conns : Live(d)}
             M == {d \in Conns : Live(d)'}
  <2>1. M = L \cup {c} /\ c \notin L
    BY <1>1, <1>3, <1>13 DEF Live, Registered
  <2>2. IsFiniteSet(activity) /\ Cardinality(activity) \in Nat
    BY <1>1, LoopAssumption, FS_Subset, FS_CardinalityType DEF LoopTypes
  <2>3. config.max_connections \in Nat
    BY <1>1, LoopAssumption DEF ConnTypes
  <2>4. ASSUME ~config.idle_timeout
        PROVE  M \subseteq activity' /\ (config.max_connections > 0 => Cardinality(M) <= config.max_connections)
    <3>1. L \subseteq activity
      BY <2>4 DEF LoopInv, SlotsBounded
    <3>2. IsFiniteSet(L) /\ Cardinality(L) <= Cardinality(activity) /\ Cardinality(L) \in Nat
      BY <2>2, <3>1, FS_Subset, FS_CardinalityType
    <3>3. Cardinality(M) = Cardinality(L) + 1
      BY <2>1, <3>2, FS_AddElement, ZenonT(60)
    <3>4. config.max_connections > 0 => Cardinality(activity) < config.max_connections
      BY <1>2, <1>13, <2>2, <2>3 DEF Full
    <3>5. M \subseteq activity'
      BY <1>2, <1>13, <2>1, <3>1
    <3> HIDE DEF L, M
    <3> QED BY <2>2, <2>3, <3>2, <3>3, <3>4, <3>5
  <2>5. SlotsBounded'
    BY <2>4 DEF SlotsBounded
  <2> QED BY <1>5, <1>8, <1>9, <1>10, <1>11, <2>5 DEF LoopInv
<1> QED BY <1>12, <1>13

LEMMA MessageStep ==
    ASSUME LoopInv, HandleMsg
    PROVE  LoopInv'
<1> PICK m : m = Head(msgs)
  OBVIOUS
<1>1. /\ msgs # <<>> /\ msgs' = Tail(msgs) /\ UNCHANGED <<config, proto, envVars, reactor, worker>>
      /\ \/ m.type = "NewConn" /\ OnNewConn(m.id)
         \/ m.type = "Register" /\ OnRegister(m.id, m.write)
         \/ m.type = "BodyChunk" /\ WakeConnection(m.id)
         \/ m.type = "Closed" /\ OnClosed(m.id)
         \/ m.type = "Detach" /\ OnDetach(m.id)
  BY DEF HandleMsg
<1> QED BY <1>1, NewConnStep, HeardStep

\* A turn of the reactor that moves no connection: a watch that ends leaves its
\* connection on the way to a worker.
LEMMA TurnStep ==
    ASSUME LoopInv, UNCHANGED <<config, place, proto, envVars, msgs, worker>>,
           ready' \in Seq(Batch), poller' \in [Conns -> {"off", "read", "write"}],
           stale' \subseteq activity', activity \subseteq activity', activity' \subseteq Conns,
           reactor' \in Reactors, NoReaper',
           \A c \in Conns : Dispatched(c) => Dispatched(c)',
           \A c \in Conns : \/ poller'[c] = poller[c]
                            \/ Dispatched(c)' /\ place[c] # "pending"
                            \/ poller'[c] # "off" /\ (place[c] = "ws" /\ app[c] => poller'[c] = "write")
                            \/ place[c] \notin Registered \cup {"pending"}
    PROVE  LoopInv'
<1> USE DEF envVars
<1>1. ConnTypes' /\ LoopTypes'
  BY DEF LoopInv, ConnTypes, LoopTypes
<1>2. Owned' /\ Spoken'
  BY DEF LoopInv, Owned, Stepping, Spoken, Fits
<1>3. ASSUME NEW c \in Conns PROVE Care(c)'
  <2>1. Care(c)
    BY DEF LoopInv
  <2>2. Way(c) => Way(c)'
    BY DEF Way, Registering
  <2>3. CASE poller'[c] = poller[c]
    BY <2>1, <2>2, <2>3, CareKept
  <2>4. CASE Dispatched(c)' /\ place[c] # "pending"
    BY <2>1, <2>4 DEF Care, Way
  <2>5. CASE poller'[c] # "off" /\ (place[c] = "ws" /\ app[c] => poller'[c] = "write")
    BY <2>1, <2>5 DEF Care
  <2>6. CASE place[c] \notin Registered \cup {"pending"}
    BY <2>1, <2>6 DEF Care, Registered
  <2> QED BY <2>3, <2>4, <2>5, <2>6
<1>4. SlotsBounded'
  BY SlotsKept DEF LoopInv, Live
<1> QED BY <1>1, <1>2, <1>3, <1>4 DEF LoopInv

LEMMA WaitFailsStep ==
    ASSUME LoopInv, WaitFails
    PROVE  LoopInv'
<1> USE DEF chanVars, envVars
<1>1. /\ UNCHANGED <<config, place, proto, envVars, msgs, ready, activity, stale, worker>>
      /\ reactor' = [reactor EXCEPT !.pc = "drain"]
      /\ poller' = [c \in Conns |->
                      CASE place[c] = "pending" -> "read"
                        [] place[c] = "h1" -> Direction(outbuf[c] # "none")
                        [] place[c] = "ws" -> Direction(app[c])
                        [] OTHER -> "off"]
  BY DEF WaitFails
<1>2. LoopTypes /\ ConnTypes
  BY DEF LoopInv
<1>3. reactor' \in Reactors /\ reactor'.pc = "drain" /\ reactor'.todo = reactor.todo
  BY <1>1, <1>2 DEF LoopTypes, Reactors
<1>4. ASSUME NEW c \in Conns
      PROVE  /\ poller'[c] \in {"off", "read", "write"}
             /\ place[c] = "pending" => poller'[c] = "read"
             /\ place[c] = "h1" => poller'[c] \in {"read", "write"}
             /\ place[c] = "ws" => poller'[c] = Direction(app[c])
  <2>1. CASE place[c] = "pending"
    BY <1>1, <2>1
  <2>2. CASE place[c] = "h1"
    BY <1>1, <2>2 DEF Direction
  <2>3. CASE place[c] = "ws"
    BY <1>1, <2>3 DEF Direction
  <2>4. CASE place[c] \notin {"pending", "h1", "ws"}
    BY <1>1, <2>4
  <2> QED BY <2>1, <2>2, <2>3, <2>4
<1>5. \A c \in Conns : \/ poller'[c] # "off" /\ (place[c] = "ws" /\ app[c] => poller'[c] = "write")
                       \/ place[c] \notin Registered \cup {"pending"}
  BY <1>4 DEF Registered, Direction
<1>6. poller' \in [Conns -> {"off", "read", "write"}]
  BY <1>1, <1>4
<1>7. NoReaper' /\ \A c \in Conns : Dispatched(c) => Dispatched(c)'
  BY <1>1, <1>3 DEF NoReaper, Dispatched
<1> QED BY <1>1, <1>2, <1>3, <1>5, <1>6, <1>7, TurnStep DEF LoopTypes

LEMMA TimersStep ==
    ASSUME LoopInv, Timers
    PROVE  LoopInv'
<1> USE DEF chanVars, envVars
<1> PICK header : header = {c \in Conns : place[c] = "h1" /\ due[c] = "header"}
  OBVIOUS
<1> PICK timed : timed = {c \in Conns : place[c] \in Registered /\ due[c] \in {"ws", "body"}}
  OBVIOUS
<1> PICK a : a = header \ Range(reactor.todo)
  OBVIOUS
<1> PICK todo : todo = reactor.todo \o SetToSeq(a) \o SetToSeq(timed)
  OBVIOUS
<1> PICK expired : expired = IF config.idle_timeout THEN header ELSE {}
  OBVIOUS
<1>1. /\ UNCHANGED <<config, place, proto, envVars, msgs, ready, worker>>
      /\ activity' = activity \cup timed /\ stale' = stale \ timed
      /\ poller' = [c \in Conns |-> IF c \in header \cup timed THEN "off" ELSE poller[c]]
      /\ reactor' = [reactor EXCEPT !.pc = "send", !.expired = expired, !.todo = todo]
  BY DEF Timers
<1>2. LoopTypes /\ reactor \in Reactors /\ reactor.todo \in Seq(Conns)
  BY DEF LoopInv, LoopTypes, Reactors
<1>3. header \in SUBSET Conns /\ timed \in SUBSET Conns /\ a \in SUBSET Conns /\ expired \in SUBSET Conns
  OBVIOUS
<1>4. IsFiniteSet(a) /\ IsFiniteSet(timed)
  BY <1>3, LoopAssumption, FS_Subset
<1>5. /\ SetToSeq(a) \in Seq(Conns) /\ Range(SetToSeq(a)) = a
      /\ SetToSeq(timed) \in Seq(Conns) /\ Range(SetToSeq(timed)) = timed
  BY <1>3, <1>4, RangeOfSet
<1>6. todo \in Seq(Conns) /\ Range(todo) = (Range(reactor.todo) \cup a) \cup timed
  <2>1. \A x, y, z \in Seq(Conns) : /\ x \o y \o z \in Seq(Conns)
                                    /\ Range(x \o y \o z) = (Range(x) \cup Range(y)) \cup Range(z)
    BY RangeOfThree
  <2>2. \A y, z \in Seq(Conns) : /\ reactor.todo \o y \o z \in Seq(Conns)
                                 /\ Range(reactor.todo \o y \o z) = (Range(reactor.todo) \cup Range(y)) \cup Range(z)
    BY <1>2, <2>1, Zenon
  <2>3. /\ todo \in Seq(Conns)
        /\ Range(todo) = (Range(reactor.todo) \cup Range(SetToSeq(a))) \cup Range(SetToSeq(timed))
    BY <1>5, <2>2, Zenon
  <2> QED BY <1>5, <2>3
<1>7. Range(reactor.todo) \subseteq Range(todo) /\ header \cup timed \subseteq Range(todo)
  BY <1>6
<1>8. reactor' \in Reactors /\ reactor'.pc = "send" /\ reactor'.todo = todo
  BY <1>1, <1>2, <1>3, <1>6 DEF Reactors
<1>9. NoReaper' /\ \A c \in Conns : Dispatched(c) => Dispatched(c)'
  BY <1>1, <1>7, <1>8 DEF NoReaper, Dispatched
<1>10. \A c \in header \cup timed : Dispatched(c)' /\ place[c] # "pending"
  BY <1>7, <1>8 DEF Dispatched, Registered
<1>11. /\ \A c \in Conns : poller'[c] = poller[c] \/ (Dispatched(c)' /\ place[c] # "pending")
       /\ poller' \in [Conns -> {"off", "read", "write"}]
  BY <1>1, <1>2, <1>10 DEF LoopTypes
<1>12. stale' \subseteq activity' /\ activity \subseteq activity' /\ activity' \subseteq Conns
  BY <1>1, <1>2, <1>3 DEF LoopTypes
<1> QED BY <1>1, <1>2, <1>8, <1>9, <1>11, <1>12, TurnStep DEF LoopTypes

LEMMA DispatchStep ==
    ASSUME LoopInv, Dispatch
    PROVE  LoopInv'
<1> USE DEF chanVars, envVars
<1> PICK pc \in {"scan", "drain"} : pc = IF config.idle_timeout THEN "scan" ELSE "drain"
  OBVIOUS
<1> PICK bs : bs = Batches(reactor.todo)
  OBVIOUS
<1>1. /\ UNCHANGED <<config, place, proto, envVars, msgs, poller, activity, stale, worker>>
      /\ ready' = ready \o bs /\ reactor' = [reactor EXCEPT !.pc = pc, !.todo = <<>>]
  BY DEF Dispatch
<1>2. LoopTypes /\ reactor \in Reactors /\ reactor.todo \in Seq(Conns) /\ ready \in Seq(Batch)
  BY DEF LoopInv, LoopTypes, Reactors
<1>3. bs \in Seq(Batch) /\ \A c \in Range(reactor.todo) : \E b \in Range(bs) : c \in Range(b)
  BY <1>2, BatchesCover
<1>4. ready' \in Seq(Batch) /\ Range(ready') = Range(ready) \cup Range(bs)
  BY <1>1, <1>2, <1>3, RangeOfConcat
<1>5. \A c \in Conns : Dispatched(c) => Dispatched(c)'
  BY <1>1, <1>3, <1>4 DEF Dispatched
<1>6. reactor' \in Reactors /\ reactor'.pc = pc
  <2>1. <<>> \in Seq(Conns)
    OBVIOUS
  <2> QED BY <1>1, <1>2, <2>1 DEF Reactors
<1>7. NoReaper'
  BY <1>1, <1>6 DEF NoReaper
<1> QED BY <1>1, <1>2, <1>4, <1>5, <1>6, <1>7, TurnStep DEF LoopTypes

\* A parked connection leaves the registry, or a pending one enters it.
LEMMA LeaveStep ==
    ASSUME LoopInv, NEW c \in Conns, NEW to \in {"gone", "handed", "h1"}, place[c] \in Registered \cup {"pending"},
           place' = [place EXCEPT ![c] = to], UNCHANGED <<config, proto, firing, msgs, ready, worker>>,
           poller' = [poller EXCEPT ![c] = "off"], ConnTypes',
           \A d \in Conns \ {c} : streaming'[d] = streaming[d] /\ app'[d] = app[d],
           streaming'[c] => streaming[c],
           reactor' \in Reactors, Range(reactor.todo) \subseteq Range(reactor'.todo), NoReaper',
           stale' \subseteq activity', activity' \subseteq Conns,
           ~config.idle_timeout => \A d \in Conns \ {c} : d \in activity => d \in activity',
           to = "h1" => place[c] = "pending" /\ c \in Range(reactor'.todo) /\ c \in activity'
    PROVE  LoopInv'
<1>1. ConnTypes /\ LoopTypes /\ Owned /\ Spoken /\ msgs \in Seq(Msgs) /\ Care(c)
  BY DEF LoopInv, LoopTypes
<1>2. \A d \in Conns : place'[d] = IF d = c THEN to ELSE place[d]
  BY <1>1 DEF ConnTypes
<1>3. Owned'
  BY <1>1, OthersHands DEF Early, Registered
<1>4. \A i \in DOMAIN msgs : Fits(msgs[i], place')
  BY <1>1, StillFits DEF Early, Registered
<1>5. Spoken'
  BY <1>1, <1>4 DEF Spoken
<1>6. LoopTypes' /\ \A d \in Conns \ {c} : poller'[d] = poller[d]
  BY <1>1 DEF LoopTypes
<1>7. ASSUME NEW d \in Conns \ {c} PROVE Care(d)'
  <2>1. Way(d) => Way(d)'
    BY WayKept
  <2> QED BY <1>2, <1>6, <1>7, <2>1, CareKept DEF LoopInv
<1>8. Care(c)'
  <2>1. place'[c] = to /\ proto'[c] = proto[c]
    BY <1>2
  <2>2. to = "h1" => Way(c)'
    BY DEF Way, Dispatched
  <2> QED BY <1>1, <2>1, <2>2 DEF Care, Early, Registered
<1>9. SlotsBounded'
  <2>1. \A d \in Conns : Live(d)' => Live(d)
    BY <1>2 DEF Live, Registered
  <2>2. Live(c)' => to = "h1"
    BY <1>2 DEF Live, Registered
  <2>3. ~config.idle_timeout => \A d \in Conns : Live(d)' /\ d \in activity => d \in activity'
    BY <2>2
  <2> QED BY <1>1, <2>1, <2>3, SlotsKept DEF LoopInv
<1> QED BY <1>3, <1>5, <1>6, <1>7, <1>8, <1>9 DEF LoopInv

LEMMA ReadyStep ==
    ASSUME LoopInv, NEW c \in Conns, ReadyOne(c)
    PROVE  LoopInv'
<1> USE DEF chanVars, envVars, Watch, Touch, Forget, Move
<1> PICK todo : todo = Append(reactor.todo, c)
  OBVIOUS
<1> PICK rest : rest = reactor.ready \ {c}
  OBVIOUS
<1>1. /\ ConnTypes /\ LoopTypes /\ NoReaper /\ reactor \in Reactors /\ reactor.todo \in Seq(Conns)
      /\ rest \in SUBSET Conns /\ reactor.pc = "ready"
  BY DEF LoopInv, LoopTypes, Reactors, ReadyOne
<1>2. todo \in Seq(Conns) /\ Range(todo) = Range(reactor.todo) \cup {c}
  BY <1>1, RangeOfAppend
<1>3. UNCHANGED <<config, proto, input, outbuf, streaming, app, firing, due, msgs, ready, worker>>
  BY DEF ReadyOne
<1>4. CASE ToDispatch(c) /\ activity' = activity \cup {c} /\ stale' = stale \ {c} /\ poller' = [poller EXCEPT ![c] = "off"]
  <2>1. reactor' = [reactor EXCEPT !.ready = rest, !.todo = todo]
    BY <1>4 DEF ToDispatch
  <2>2. reactor' \in Reactors /\ reactor'.todo = todo /\ reactor'.pc = "ready"
    BY <1>1, <1>2, <2>1 DEF Reactors
  <2>3. NoReaper'
    BY <2>2 DEF NoReaper
  <2>4. stale' \subseteq activity' /\ activity \subseteq activity' /\ activity' \subseteq Conns
    BY <1>1, <1>4 DEF LoopTypes
  <2>5. /\ Range(reactor.todo) \subseteq Range(reactor'.todo) /\ c \in Range(reactor'.todo)
        /\ c \in activity' /\ \A d \in activity : d \in activity'
    BY <1>2, <1>4, <2>2
  <2>6. CASE place[c] = "pending" /\ place' = [place EXCEPT ![c] = "h1"]
    <3>1. ConnTypes'
      BY <1>1, <1>3, <2>6 DEF ConnTypes, Places, Registered
    <3> QED BY <1>3, <1>4, <2>2, <2>3, <2>4, <2>5, <2>6, <3>1, LeaveStep
  <2>7. CASE place[c] # "pending" /\ place' = place
    <3>1. \A d \in Conns : Dispatched(d) => Dispatched(d)'
      BY <1>3, <2>5 DEF Dispatched
    <3>2. Dispatched(c)'
      BY <2>5 DEF Dispatched
    <3>3. /\ poller' \in [Conns -> {"off", "read", "write"}]
          /\ \A d \in Conns : poller'[d] = poller[d] \/ (Dispatched(d)' /\ place[d] # "pending")
      BY <1>1, <1>4, <2>7, <3>2 DEF LoopTypes
    <3> QED BY <1>1, <1>3, <2>2, <2>3, <2>4, <2>7, <3>1, <3>3, TurnStep DEF LoopTypes
  <2>8. place[c] = "pending" => place' = [place EXCEPT ![c] = "h1"]
    <3> SUFFICES ASSUME place[c] = "pending" PROVE place' = [place EXCEPT ![c] = "h1"]
      OBVIOUS
    <3>1. Classify(c)
      BY DEF ReadyOne
    <3>2. CASE NotDispatched(c)
      <4>1. reactor'.todo = reactor.todo
        BY <1>1, <3>2 DEF NotDispatched, Reactors
      <4>2. Len(todo) = Len(reactor.todo) + 1 /\ Len(reactor.todo) \in Nat
        BY <1>1
      <4> QED BY <2>2, <4>1, <4>2
    <3> QED BY <3>1, <3>2 DEF Classify
  <2>9. place[c] # "pending" => place' = place
    BY DEF ReadyOne
  <2> QED BY <2>6, <2>7, <2>8, <2>9
<1>5. CASE NotDispatched(c) /\ Classify(c) /\ place[c] = "pending"
  <2>1. reactor' = [reactor EXCEPT !.ready = rest]
    BY <1>5 DEF NotDispatched
  <2>2. reactor' \in Reactors /\ reactor'.todo = reactor.todo /\ reactor'.pc = "ready"
    BY <1>1, <2>1 DEF Reactors
  <2>3. NoReaper'
    BY <2>2 DEF NoReaper
  <2>4. ~ToDispatch(c)
    <3>1. SUFFICES ASSUME ToDispatch(c) PROVE FALSE
      OBVIOUS
    <3>2. reactor'.todo = todo
      BY <1>1, <3>1 DEF ToDispatch, Reactors
    <3>3. Len(todo) = Len(reactor.todo) + 1 /\ Len(reactor.todo) \in Nat
      BY <1>1
    <3> QED BY <2>2, <3>2, <3>3
  <2>5. CASE poller' = [poller EXCEPT ![c] = "read"] /\ activity' = activity \cup {c} /\ stale' = stale \ {c} /\ place' = place
    <3>1. /\ poller' \in [Conns -> {"off", "read", "write"}]
          /\ \A d \in Conns : poller'[d] = poller[d] \/ (poller'[d] # "off" /\ place[d] # "ws")
      BY <1>1, <1>5, <2>5 DEF LoopTypes
    <3>2. stale' \subseteq activity' /\ activity \subseteq activity' /\ activity' \subseteq Conns
      BY <1>1, <2>5 DEF LoopTypes
    <3>3. \A d \in Conns : Dispatched(d) => Dispatched(d)'
      BY <1>3, <2>2 DEF Dispatched
    <3> QED BY <1>1, <1>3, <2>2, <2>3, <2>5, <3>1, <3>2, <3>3, TurnStep DEF LoopTypes
  <2>6. ASSUME NEW to \in {"gone", "handed"}, poller' = [poller EXCEPT ![c] = "off"],
               activity' = activity \ {c}, stale' = stale \ {c}, place' = [place EXCEPT ![c] = to]
        PROVE  LoopInv'
    <3>1. ConnTypes'
      BY <1>1, <1>3, <2>6 DEF ConnTypes, Places
    <3>2. /\ stale' \subseteq activity' /\ activity' \subseteq Conns
          /\ \A d \in Conns \ {c} : d \in activity => d \in activity'
      BY <1>1, <2>6 DEF LoopTypes
    <3> QED BY <1>3, <1>5, <2>2, <2>3, <2>6, <3>1, <3>2, LeaveStep
  <2> QED BY <1>5, <2>4, <2>5, <2>6 DEF Classify
<1> QED BY <1>4, <1>5 DEF ReadyOne, Classify

LEMMA ReapStep ==
    ASSUME LoopInv, NEW c \in Conns, Reap(c)
    PROVE  LoopInv'
<1> USE DEF chanVars, envVars, Watch, Touch, Forget, Move
<1> PICK rest : rest = reactor.expired \ {c}
  OBVIOUS
<1>1. /\ ConnTypes /\ LoopTypes /\ NoReaper /\ reactor \in Reactors
      /\ rest \in SUBSET Conns /\ reactor.pc = "reap"
  BY DEF LoopInv, LoopTypes, Reactors, Reap
<1>2. /\ UNCHANGED <<config, proto, firing, msgs, ready, worker>>
      /\ poller' = [poller EXCEPT ![c] = "off"] /\ activity' = activity \ {c} /\ stale' = stale \ {c}
      /\ reactor' = [reactor EXCEPT !.expired = rest]
  BY DEF Reap
<1>3. reactor' \in Reactors /\ reactor'.todo = reactor.todo /\ reactor'.pc = "reap"
  BY <1>1, <1>2 DEF Reactors
<1>4. config.idle_timeout /\ NoReaper'
  BY <1>1, <1>2, <1>3 DEF NoReaper
<1>5. stale' \subseteq activity' /\ activity' \subseteq Conns
  BY <1>1, <1>2 DEF LoopTypes
<1>6. CASE place[c] \in Registered \cup {"pending"}
  <2>1. place' = [place EXCEPT ![c] = "gone"] /\ DropConn(c)
    BY <1>6 DEF Reap
  <2>2. ConnTypes'
    BY <1>1, <1>2, <2>1 DEF ConnTypes, DropConn, Places
  <2>3. /\ \A d \in Conns \ {c} : streaming'[d] = streaming[d] /\ app'[d] = app[d]
        /\ ~streaming'[c]
    BY <1>1, <2>1 DEF ConnTypes, DropConn
  <2> QED BY <1>2, <1>3, <1>4, <1>5, <1>6, <2>1, <2>2, <2>3, LeaveStep
<1>7. CASE place[c] \notin Registered \cup {"pending"}
  <2>1. UNCHANGED <<place, input, outbuf, streaming, app, due>>
    BY <1>7 DEF Reap
  <2>2. ConnTypes' /\ LoopTypes' /\ \A d \in Conns \ {c} : poller'[d] = poller[d]
    BY <1>1, <1>2, <1>3, <1>5, <2>1 DEF ConnTypes, LoopTypes
  <2>3. Owned' /\ Spoken'
    BY <1>2, <2>1 DEF LoopInv, Owned, Stepping, Spoken
  <2>4. \A d \in Conns : Way(d) => Way(d)'
    BY <1>2, <1>3 DEF Way, Registering, Dispatched
  <2>5. \A d \in Conns \ {c} : Care(d)'
    BY <1>2, <2>1, <2>2, <2>4, CareKept DEF LoopInv
  <2>6. Care(c)'
    <3>1. Care(c)
      BY DEF LoopInv
    <3> QED BY <1>2, <1>7, <2>1, <3>1 DEF Care, Registered
  <2>7. SlotsBounded'
    BY <1>2, <1>4 DEF SlotsBounded
  <2> QED BY <1>4, <2>2, <2>3, <2>5, <2>6, <2>7 DEF LoopInv
<1> QED BY <1>6, <1>7

\* A worker changes its state.
LEMMA WorkerTakes ==
    ASSUME LoopTypes, NEW w \in Workers, NEW r \in WorkerStates, worker' = [worker EXCEPT ![w] = r],
           r.conn = NoConn <=> r.pc = "idle"
    PROVE  /\ worker' \in [Workers -> WorkerStates]
           /\ \A v \in Workers : worker'[v].conn = NoConn <=> worker'[v].pc = "idle"
           /\ \A v \in Workers : worker'[v] = IF v = w THEN r ELSE worker[v]
<1>1. \A v \in Workers : worker'[v] = IF v = w THEN r ELSE worker[v]
  BY DEF LoopTypes
<1>2. worker' \in [Workers -> WorkerStates]
  BY DEF LoopTypes
<1>3. \A v \in Workers : worker'[v].conn = NoConn <=> worker'[v].pc = "idle"
  BY <1>1 DEF LoopTypes
<1> QED BY <1>1, <1>2, <1>3

\* A worker takes, steps, parks or ends a connection that nobody else has.
HandMove(w, c, to, r) ==
    /\ place[c] \in Registered \cup {"held"} /\ to \in Registered \cup {"held", "gone", "tunnel"}
    /\ place' = [place EXCEPT ![c] = to]
    /\ UNCHANGED <<config, ready, poller, activity, stale, reactor, firing>>
    /\ \A d \in Conns \ {c} : proto'[d] = proto[d] /\ streaming'[d] = streaming[d] /\ app'[d] = app[d]
    /\ proto'[c] = "ws" => ~streaming'[c]
    /\ worker[w].pc # "register" /\ r \in WorkerStates /\ worker' = [worker EXCEPT ![w] = r]
    /\ r.conn = NoConn <=> r.pc = "idle"
    /\ \A v \in Workers : v # w /\ Stepping(v) => worker[v].conn # c
    /\ r.pc \in {"step", "park"} => r.conn = c /\ to = "held"
    /\ r.pc = "register" => r.conn = c
    /\ to \in Registered => r.pc = "register" /\ to = proto'[c]
    /\ \A d \in Range(worker[w].batch) : d = c \/ d \in Range(r.batch)
    /\ \/ msgs' = msgs
       \/ \E m \in Msgs : m.type # "NewConn" /\ Fits(m, place') /\ msgs' = Append(msgs, m)

LEMMA HandStep ==
    ASSUME LoopInv, NEW w \in Workers, NEW c \in Conns, NEW to, NEW r, HandMove(w, c, to, r), ConnTypes'
    PROVE  LoopInv'
<1> USE DEF HandMove
<1>1. ConnTypes /\ LoopTypes /\ Owned /\ Spoken /\ NoReaper /\ msgs \in Seq(Msgs)
  BY DEF LoopInv, LoopTypes
<1>2. /\ worker' \in [Workers -> WorkerStates]
      /\ \A v \in Workers : worker'[v].conn = NoConn <=> worker'[v].pc = "idle"
      /\ \A v \in Workers : worker'[v] = IF v = w THEN r ELSE worker[v]
  BY <1>1, WorkerTakes
<1>3. \A d \in Conns : place'[d] = IF d = c THEN to ELSE place[d]
  BY <1>1 DEF ConnTypes
<1>4. to \notin Early /\ place[c] \notin Early
  BY DEF Early, Registered
<1>5. \A i \in DOMAIN msgs : Fits(msgs[i], place')
  <2>1. place[c] \notin {"offered", "gone"} /\ place[c] # "tunnel"
    BY DEF Registered
  <2> QED BY <1>1, <1>4, <2>1, StillFits
<1>6. msgs' \in Seq(Msgs) /\ Spoken' /\ Range(msgs) \subseteq Range(msgs')
  <2>1. CASE msgs' = msgs
    BY <1>1, <1>5, <2>1 DEF Spoken
  <2>2. CASE \E m \in Msgs : m.type # "NewConn" /\ Fits(m, place') /\ msgs' = Append(msgs, m)
    BY <1>1, <1>5, <2>2, Says
  <2> QED BY <2>1, <2>2
<1>7. LoopTypes' /\ NoReaper'
  BY <1>1, <1>2, <1>6 DEF LoopTypes, NoReaper
<1>8. Owned'
  <2>1. \A v \in Workers : Stepping(v)' => IF v = w THEN worker'[v].conn = c /\ to = "held"
                                                    ELSE Stepping(v) /\ worker'[v].conn = worker[v].conn
    BY <1>2 DEF Stepping
  <2>2. \A v \in Workers : worker[v].pc # "idle" => worker[v].conn \in Conns
    BY <1>1 DEF LoopTypes, WorkerStates
  <2>3. \A v \in Workers : Stepping(v)' => place'[worker'[v].conn] = "held"
    BY <1>1, <1>3, <2>1, <2>2 DEF Owned, Stepping
  <2>4. \A u, v \in Workers : u # v /\ Stepping(u)' /\ Stepping(v)' => worker'[u].conn # worker'[v].conn
    BY <1>1, <2>1 DEF Owned
  <2>5. \A v \in Workers : worker'[v].pc = "register" => place'[worker'[v].conn] \notin Early
    BY <1>1, <1>2, <1>3, <1>4, <2>2 DEF Owned
  <2> QED BY <2>3, <2>4, <2>5 DEF Owned
<1>9. ASSUME NEW d \in Conns \ {c} PROVE Care(d)'
  <2>1. Registering(d) => Registering(d)'
    BY <1>2, <1>6 DEF Registering
  <2>2. Dispatched(d) => Dispatched(d)'
    BY <1>2 DEF Dispatched
  <2> QED BY <1>3, <1>9, <2>1, <2>2, CareKept DEF LoopInv, Way
<1>10. Care(c)'
  <2>1. place'[c] = to
    BY <1>3
  <2>2. to \in Registered => Way(c)'
    BY <1>2 DEF Way, Registering
  <2>3. to # "pending" /\ (to = "ws" => to \in Registered)
    BY <1>4 DEF Early, Registered
  <2> QED BY <1>4, <2>1, <2>2, <2>3 DEF Care
<1>11. SlotsBounded'
  <2>1. \A d \in Conns : Live(d)' => Live(d)
    BY <1>3 DEF Live
  <2> QED BY <1>1, <2>1, SlotsKept DEF LoopInv
<1> QED BY <1>6, <1>7, <1>8, <1>9, <1>10, <1>11 DEF LoopInv

\* A worker that steps a connection has it alone.
LEMMA Alone ==
    ASSUME LoopInv, NEW w \in Workers, Stepping(w)
    PROVE  /\ worker[w].conn \in Conns /\ place[worker[w].conn] = "held"
           /\ worker[w] \in WorkerStates /\ worker[w].batch \in Seq(Conns)
           /\ \A v \in Workers : v # w /\ Stepping(v) => worker[v].conn # worker[w].conn
<1>1. worker[w] \in WorkerStates /\ worker[w].conn # NoConn
  BY DEF LoopInv, LoopTypes, Stepping
<1> QED BY <1>1 DEF LoopInv, Owned, WorkerStates

\* A step that moves nothing and says nothing but what the worker owed.
LEMMA OwnStep ==
    ASSUME LoopInv, NEW w \in Workers, NEW r \in WorkerStates, worker' = [worker EXCEPT ![w] = r],
           r.pc = "idle", r.conn = NoConn,
           UNCHANGED <<config, place, proto, input, outbuf, streaming, app, firing, due, poller, activity, stale, reactor>>,
           msgs' \in Seq(Msgs), Spoken', ready' \in Seq(Batch),
           \A d \in Conns : place[d] \in Registered /\ Way(d) => Way(d)'
    PROVE  LoopInv'
<1>1. ConnTypes /\ LoopTypes /\ Owned /\ NoReaper
  BY DEF LoopInv
<1>2. /\ worker' \in [Workers -> WorkerStates]
      /\ \A v \in Workers : worker'[v].conn = NoConn <=> worker'[v].pc = "idle"
      /\ \A v \in Workers : worker'[v] = IF v = w THEN r ELSE worker[v]
  BY <1>1, WorkerTakes
<1>3. ConnTypes' /\ LoopTypes' /\ NoReaper'
  BY <1>1, <1>2 DEF ConnTypes, LoopTypes, NoReaper
<1>4. \A v \in Workers : worker'[v].pc # "idle" => worker'[v] = worker[v]
  BY <1>2
<1>5. Owned'
  BY <1>1, <1>4 DEF Owned, Stepping
<1>6. \A d \in Conns : Care(d)'
  BY DEF LoopInv, Care, Registered
<1>7. SlotsBounded'
  BY <1>1, SlotsKept DEF LoopInv, Live
<1> QED BY <1>3, <1>5, <1>6, <1>7 DEF LoopInv

LEMMA RecvStep ==
    ASSUME LoopInv, NEW w \in Workers, Recv(w)
    PROVE  LoopInv'
<1> USE DEF chanVars, envVars, loopVars
<1> PICK b : b = Head(ready)
  OBVIOUS
<1> PICK r : r = [worker[w] EXCEPT !.batch = b]
  OBVIOUS
<1>1. /\ UNCHANGED <<config, place, proto, input, outbuf, streaming, app, firing, due, msgs, poller, activity, stale, reactor>>
      /\ worker[w] = Free /\ ready # <<>> /\ ready' = Tail(ready) /\ worker' = [worker EXCEPT ![w].batch = b]
  BY DEF Recv
<1>2. LoopTypes /\ Spoken /\ msgs \in Seq(Msgs) /\ ready \in Seq(Batch) /\ worker[w] \in WorkerStates
  BY DEF LoopInv, LoopTypes
<1>3. b \in Batch /\ ready' \in Seq(Batch) /\ Range(ready) = {b} \cup Range(ready')
  BY <1>1, <1>2, RangeOfTail
<1>4. b \in Seq(Conns)
  BY <1>3 DEF Batch
<1>5. r \in WorkerStates /\ r.pc = "idle" /\ r.conn = NoConn /\ r.batch = b
  <2>1. worker[w].pc = "idle" /\ worker[w].conn = NoConn
    BY <1>1 DEF Free
  <2>2. r \in WorkerStates /\ r.pc = worker[w].pc /\ r.conn = worker[w].conn /\ r.batch = b
    BY <1>2, <1>4 DEF WorkerStates
  <2> QED BY <2>1, <2>2
<1>6. worker' = [worker EXCEPT ![w] = r]
  BY <1>1
<1>7. \A v \in Workers : worker'[v] = IF v = w THEN r ELSE worker[v]
  BY <1>2, <1>6 DEF LoopTypes
<1>8. worker[w].batch = <<>> /\ worker[w].pc = "idle"
  BY <1>1 DEF Free
<1>9. Range(worker[w].batch) = {}
  BY <1>8 DEF Range
<1>10. \A d \in Conns : Way(d) => Way(d)'
  <2>1. \A d \in Conns : Registering(d) => Registering(d)'
    BY <1>1, <1>7, <1>8 DEF Registering
  <2>2. \A d \in Conns : Dispatched(d) => Dispatched(d)'
    <3> SUFFICES ASSUME NEW d \in Conns, Dispatched(d) PROVE Dispatched(d)'
      OBVIOUS
    <3>1. CASE d \in Range(reactor.todo) \/ \E x \in Range(ready') : d \in Range(x)
      BY <1>1, <3>1 DEF Dispatched
    <3>2. CASE d \in Range(b)
      BY <1>5, <1>7, <3>2 DEF Dispatched
    <3>3. CASE \E v \in Workers : d \in Range(worker[v].batch)
      BY <1>7, <1>9, <3>3 DEF Dispatched
    <3> QED BY <1>3, <3>1, <3>2, <3>3 DEF Dispatched
  <2> QED BY <2>1, <2>2 DEF Way
<1>11. Spoken'
  BY <1>1, <1>2 DEF Spoken
<1> QED BY <1>1, <1>2, <1>3, <1>5, <1>6, <1>10, <1>11, OwnStep

LEMMA PickStep ==
    ASSUME LoopInv, NEW w \in Workers, Pick(w)
    PROVE  LoopInv'
<1> USE DEF chanVars, envVars, loopVars, Move
<1> PICK s : s = worker[w]
  OBVIOUS
<1> PICK c : c = Head(s.batch)
  OBVIOUS
<1> PICK rest : rest = Tail(s.batch)
  OBVIOUS
<1>1. /\ UNCHANGED <<config, proto, input, outbuf, streaming, app, firing, due, msgs, ready, poller, activity, stale, reactor>>
      /\ s.pc = "idle" /\ s.batch # <<>>
      /\ IF place[c] \in Registered
         THEN /\ worker' = [worker EXCEPT ![w] = [s EXCEPT !.pc = "step", !.conn = c, !.batch = rest]]
              /\ place' = [place EXCEPT ![c] = "held"]
         ELSE /\ worker' = [worker EXCEPT ![w] = [s EXCEPT !.batch = rest]]
              /\ place' = place
  <2>1. CASE place[c] \in Registered
    <3>1. worker' = [worker EXCEPT ![w] = [worker[w] EXCEPT !.pc = "step", !.conn = c, !.batch = Tail(worker[w].batch)]]
      BY <2>1 DEF Pick
    <3>2. place' = [place EXCEPT ![c] = "held"]
      BY <2>1 DEF Pick
    <3> QED BY <2>1, <3>1, <3>2 DEF Pick
  <2>2. CASE place[c] \notin Registered
    <3>1. worker' = [worker EXCEPT ![w].batch = rest] /\ place' = place
      BY <2>2 DEF Pick
    <3>2. worker' = [worker EXCEPT ![w] = [s EXCEPT !.batch = rest]]
      BY <3>1
    <3> QED BY <2>2, <3>1, <3>2 DEF Pick
  <2> QED BY <2>1, <2>2
<1>2. ConnTypes /\ LoopTypes /\ Owned /\ Spoken /\ msgs \in Seq(Msgs) /\ ready \in Seq(Batch) /\ s \in WorkerStates
  BY DEF LoopInv, LoopTypes
<1>3. s.batch \in Seq(Conns) /\ s.conn = NoConn
  BY <1>1, <1>2 DEF WorkerStates, LoopTypes
<1>4. c \in Conns /\ rest \in Seq(Conns) /\ Range(s.batch) = {c} \cup Range(rest)
  BY <1>1, <1>3, RangeOfTail
<1>5. c # NoConn
  BY <1>4, LoopAssumption DEF NoConn
<1>6. CASE place[c] \in Registered
  <2> PICK r : r = [s EXCEPT !.pc = "step", !.conn = c, !.batch = rest]
    OBVIOUS
  <2>1. worker' = [worker EXCEPT ![w] = r] /\ place' = [place EXCEPT ![c] = "held"]
    BY <1>1, <1>6
  <2>2. r \in WorkerStates /\ r.pc = "step" /\ r.conn = c /\ r.batch = rest
    BY <1>2, <1>4 DEF WorkerStates
  <2>3. ConnTypes'
    BY <1>1, <1>2, <1>4, <2>1 DEF ConnTypes, Places
  <2>4. \A v \in Workers : Stepping(v) => worker[v].conn # c
    BY <1>2, <1>6 DEF Owned, Registered
  <2>5. Care(c)
    BY <1>4 DEF LoopInv
  <2>6. proto'[c] = "ws" => ~streaming'[c]
    BY <1>1, <2>5 DEF Care
  <2>7. \A d \in Range(worker[w].batch) : d = c \/ d \in Range(r.batch)
    BY <1>4, <2>2
  <2> PICK to : to = "held"
    OBVIOUS
  <2>8. /\ to \in Registered \cup {"held", "gone", "tunnel"} /\ to \notin Registered /\ worker[w].pc # "register"
        /\ place' = [place EXCEPT ![c] = to] /\ r.conn # NoConn /\ r.pc # "idle" /\ r.pc # "register"
        /\ r.pc \in {"step", "park"} => r.conn = c /\ to = "held"
    BY <1>1, <1>5, <2>1, <2>2 DEF Registered
  <2>9. /\ UNCHANGED <<config, ready, poller, activity, stale, reactor, firing>> /\ msgs' = msgs
        /\ \A d \in Conns \ {c} : proto'[d] = proto[d] /\ streaming'[d] = streaming[d] /\ app'[d] = app[d]
        /\ \A v \in Workers : v # w /\ Stepping(v) => worker[v].conn # c
    BY <1>1, <2>4
  <2>10. HandMove(w, c, to, r)
    BY <1>6, <2>1, <2>2, <2>6, <2>7, <2>8, <2>9 DEF HandMove
  <2> QED BY <1>4, <2>3, <2>10, HandStep
<1>7. CASE place[c] \notin Registered
  <2> PICK r : r = [s EXCEPT !.batch = rest]
    OBVIOUS
  <2>1. worker' = [worker EXCEPT ![w] = r] /\ place' = place
    BY <1>1, <1>7
  <2>2. r \in WorkerStates /\ r.pc = "idle" /\ r.conn = NoConn /\ r.batch = rest
    BY <1>1, <1>2, <1>3, <1>4 DEF WorkerStates
  <2>3. \A v \in Workers : worker'[v] = IF v = w THEN r ELSE worker[v]
    BY <1>2, <2>1 DEF LoopTypes
  <2>4. \A d \in Conns : Registering(d) => Registering(d)'
    BY <1>1, <2>3 DEF Registering
  <2>5. \A d \in Conns \ {c} : Dispatched(d) => Dispatched(d)'
    BY <1>1, <1>4, <2>2, <2>3 DEF Dispatched
  <2>6. \A d \in Conns : place[d] \in Registered /\ Way(d) => Way(d)'
    BY <1>7, <2>4, <2>5 DEF Way
  <2>7. Spoken'
    BY <1>1, <1>2, <2>1 DEF Spoken
  <2> QED BY <1>1, <1>2, <2>1, <2>2, <2>6, <2>7, OwnStep
<1> QED BY <1>6, <1>7

LEMMA SendRegisterStep ==
    ASSUME LoopInv, NEW w \in Workers, SendRegister(w)
    PROVE  LoopInv'
<1> USE DEF chanVars, envVars, loopVars
<1> PICK s : s = worker[w]
  OBVIOUS
<1> PICK m : m = Msg("Register", s.conn, s.write, FALSE)
  OBVIOUS
<1> PICK r : r = [Free EXCEPT !.batch = s.batch]
  OBVIOUS
<1>1. /\ UNCHANGED <<config, place, proto, input, outbuf, streaming, app, firing, due, ready, poller, activity, stale, reactor>>
      /\ s.pc = "register" /\ msgs' = Append(msgs, m) /\ worker' = [worker EXCEPT ![w] = r]
  BY DEF SendRegister, Send, Release
<1>2. LoopTypes /\ Owned /\ Spoken /\ msgs \in Seq(Msgs) /\ ready \in Seq(Batch) /\ s \in WorkerStates
  BY DEF LoopInv, LoopTypes
<1>3. s.batch \in Seq(Conns) /\ s.conn \in Conns /\ s.write \in BOOLEAN
  BY <1>1, <1>2 DEF WorkerStates, LoopTypes
<1>4. m \in Msgs /\ m.id = s.conn /\ m.type = "Register"
  BY <1>3 DEF Msg, Msgs, MsgTypes
<1>5. Fits(m, place') /\ \A i \in DOMAIN msgs : Fits(msgs[i], place')
  BY <1>1, <1>2, <1>4 DEF Owned, Spoken, Fits
<1>6. msgs' \in Seq(Msgs) /\ Spoken' /\ Range(msgs) \subseteq Range(msgs') /\ m \in Range(msgs')
  BY <1>1, <1>2, <1>4, <1>5, Says
<1>7. r \in WorkerStates /\ r.pc = "idle" /\ r.conn = NoConn /\ r.batch = s.batch
  BY <1>3 DEF WorkerStates, Free
<1>8. \A v \in Workers : worker'[v] = IF v = w THEN r ELSE worker[v]
  BY <1>1, <1>2 DEF LoopTypes
<1>9. \A d \in Conns : Registering(d) => Registering(d)'
  <2> SUFFICES ASSUME NEW d \in Conns, Registering(d) PROVE Registering(d)'
    OBVIOUS
  <2>1. CASE \E n \in Range(msgs) : n.type = "Register" /\ n.id = d
    BY <1>6, <2>1 DEF Registering
  <2>2. CASE d = s.conn
    BY <1>4, <1>6, <2>2 DEF Registering
  <2>3. CASE \E v \in Workers \ {w} : worker[v].pc = "register" /\ worker[v].conn = d
    BY <1>8, <2>3 DEF Registering
  <2> QED BY <2>1, <2>2, <2>3 DEF Registering
<1>10. \A d \in Conns : Dispatched(d) => Dispatched(d)'
  BY <1>1, <1>7, <1>8 DEF Dispatched
<1> QED BY <1>1, <1>2, <1>6, <1>7, <1>9, <1>10, OwnStep DEF Way

LEMMA ParkStep ==
    ASSUME LoopInv, NEW w \in Workers, Park(w)
    PROVE  LoopInv'
<1> USE DEF chanVars, envVars, loopVars, Move
<1> PICK s : s = worker[w]
  OBVIOUS
<1> PICK c : c = s.conn
  OBVIOUS
<1> PICK to : to = proto[c]
  OBVIOUS
<1> PICK r : r = [s EXCEPT !.pc = "register"]
  OBVIOUS
<1>1. /\ UNCHANGED <<config, proto, input, outbuf, streaming, app, firing, due, msgs, ready, poller, activity, stale, reactor>>
      /\ s.pc = "park" /\ place' = [place EXCEPT ![c] = to] /\ worker' = [worker EXCEPT ![w].pc = "register"]
  BY DEF Park, Goto
<1>2. /\ c \in Conns /\ place[c] = "held" /\ s \in WorkerStates
      /\ \A v \in Workers : v # w /\ Stepping(v) => worker[v].conn # c
  BY <1>1, Alone DEF Stepping
<1>3. worker' = [worker EXCEPT ![w] = r]
  BY <1>1
<1>4. r \in WorkerStates /\ r.pc = "register" /\ r.conn = c /\ r.batch = s.batch
  BY <1>2 DEF WorkerStates
<1>5. c # NoConn
  BY <1>2, LoopAssumption DEF NoConn
<1>6. ConnTypes /\ Care(c)
  BY <1>2 DEF LoopInv
<1>7. to \in Registered
  BY <1>2, <1>6 DEF ConnTypes
<1>8. ConnTypes'
  BY <1>1, <1>2, <1>6, <1>7 DEF ConnTypes, Places
<1>9. proto'[c] = "ws" => ~streaming'[c]
  BY <1>1, <1>6 DEF Care
<1>10. HandMove(w, c, to, r)
  BY <1>1, <1>2, <1>3, <1>4, <1>5, <1>7, <1>9 DEF HandMove
<1> QED BY <1>2, <1>8, <1>10, HandStep

\* A step ends with the connection still in the worker's hands.
LEMMA StepStep ==
    ASSUME LoopInv, NEW w \in Workers, StepH1(w) \/ StepWsBlocked(w) \/ StepWs(w)
    PROVE  LoopInv'
<1> USE DEF chanVars, envVars, loopVars
<1> PICK s : s = worker[w]
  OBVIOUS
<1> PICK c : c = s.conn
  OBVIOUS
<1> PICK to : to = "held"
  OBVIOUS
<1>1. s.pc = "step" /\ UNCHANGED <<config, place, proto, firing, ready, poller, activity, stale, reactor>>
  BY DEF StepH1, StepWsBlocked, StepWs
<1>2. /\ c \in Conns /\ place[c] = "held" /\ s \in WorkerStates
      /\ \A v \in Workers : v # w /\ Stepping(v) => worker[v].conn # c
  BY <1>1, Alone DEF Stepping
<1>3. c # NoConn
  BY <1>2, LoopAssumption DEF NoConn
<1>4. ConnTypes /\ Care(c)
  BY <1>2 DEF LoopInv
<1>5. input[c] \in BOOLEAN /\ app[c] \in BOOLEAN /\ streaming[c] \in BOOLEAN
  BY <1>2, <1>4 DEF ConnTypes
<1>6. PICK full \in BOOLEAN, out \in {"none", "full"}, unread \in BOOLEAN, more \in BOOLEAN, body \in BOOLEAN :
        /\ outbuf' = [outbuf EXCEPT ![c] = out] /\ input' = [input EXCEPT ![c] = unread]
        /\ streaming' = [streaming EXCEPT ![c] = body] /\ app' = [app EXCEPT ![c] = more]
        /\ due' = [due EXCEPT ![c] = "no"]
        /\ worker' = [worker EXCEPT ![w] = [s EXCEPT !.pc = "park", !.write = full]]
        /\ proto[c] = "ws" => body = streaming[c]
  <2>1. CASE StepH1(w)
    <3> DEFINE k == worker[w].conn
    <3>0. PICK full \in BOOLEAN, unread \in {FALSE, input[k]}, more \in {FALSE, app[k]},
               body \in {FALSE, streaming[k], "stream" \in config.answers /\ input[k]} :
            /\ due[k] = "header" => full
            /\ unread \/ more => full
            /\ more => body
            /\ outbuf' = [outbuf EXCEPT ![k] = IF full THEN "full" ELSE "none"]
            /\ input' = [input EXCEPT ![k] = unread]
            /\ streaming' = [streaming EXCEPT ![k] = body]
            /\ app' = [app EXCEPT ![k] = more]
            /\ due' = [due EXCEPT ![k] = "no"]
            /\ worker' = [worker EXCEPT ![w] = [@ EXCEPT !.pc = "park", !.write = full]]
            /\ UNCHANGED <<config, place, proto, firing, chanVars, loopVars>>
      BY <2>1 DEF StepH1
    <3>1. /\ outbuf' = [outbuf EXCEPT ![c] = IF full THEN "full" ELSE "none"]
          /\ input' = [input EXCEPT ![c] = unread] /\ streaming' = [streaming EXCEPT ![c] = body]
          /\ app' = [app EXCEPT ![c] = more] /\ due' = [due EXCEPT ![c] = "no"]
          /\ worker' = [worker EXCEPT ![w] = [s EXCEPT !.pc = "park", !.write = full]]
      BY <3>0
    <3>2. proto[c] # "ws"
      BY <2>1 DEF StepH1
    <3>3. unread \in BOOLEAN /\ more \in BOOLEAN /\ body \in BOOLEAN
      BY <1>5
    <3>4. PICK out \in {"none", "full"} : outbuf' = [outbuf EXCEPT ![c] = out]
      BY <3>1
    <3> QED BY <3>1, <3>2, <3>3, <3>4
  <2>2. CASE StepWsBlocked(w)
    <3>1. /\ outbuf' = [outbuf EXCEPT ![c] = "full"] /\ due' = [due EXCEPT ![c] = "no"]
          /\ worker' = [worker EXCEPT ![w] = [s EXCEPT !.pc = "park", !.write = TRUE]]
          /\ UNCHANGED <<input, streaming, app>>
      BY <2>2 DEF StepWsBlocked
    <3>2. /\ input' = [input EXCEPT ![c] = input[c]] /\ streaming' = [streaming EXCEPT ![c] = streaming[c]]
          /\ app' = [app EXCEPT ![c] = app[c]]
      BY <1>2, <1>4, <3>1 DEF ConnTypes
    <3> QED BY <1>5, <3>1, <3>2
  <2>3. CASE StepWs(w)
    <3>1. PICK reply \in BOOLEAN :
            /\ outbuf' = [outbuf EXCEPT ![c] = "none"] /\ input' = [input EXCEPT ![c] = FALSE]
            /\ app' = [app EXCEPT ![c] = reply] /\ due' = [due EXCEPT ![c] = "no"]
            /\ worker' = [worker EXCEPT ![w] = [s EXCEPT !.pc = "park", !.write = reply]]
            /\ UNCHANGED streaming
      BY <2>3 DEF StepWs
    <3>2. streaming' = [streaming EXCEPT ![c] = streaming[c]]
      BY <1>2, <1>4, <3>1 DEF ConnTypes
    <3> QED BY <1>5, <3>1, <3>2
  <2> QED BY <2>1, <2>2, <2>3
<1> PICK r : r = [s EXCEPT !.pc = "park", !.write = full]
  OBVIOUS
<1>7. worker' = [worker EXCEPT ![w] = r] /\ r \in WorkerStates /\ r.pc = "park" /\ r.conn = c /\ r.batch = s.batch
  BY <1>2, <1>6 DEF WorkerStates
<1>8. ConnTypes'
  BY <1>1, <1>2, <1>4, <1>6 DEF ConnTypes
<1>9. \A d \in Conns \ {c} : proto'[d] = proto[d] /\ streaming'[d] = streaming[d] /\ app'[d] = app[d]
  BY <1>1, <1>4, <1>6 DEF ConnTypes
<1>10. proto'[c] = "ws" => ~streaming'[c]
  BY <1>1, <1>2, <1>4, <1>6 DEF Care, ConnTypes
<1>11. place' = [place EXCEPT ![c] = to]
  BY <1>1, <1>2, <1>4 DEF ConnTypes
<1>12. \/ msgs' = msgs
       \/ \E m \in Msgs : m.type # "NewConn" /\ Fits(m, place') /\ msgs' = Append(msgs, m)
  <2>1. msgs' = msgs \/ msgs' = Append(msgs, Msg("Register", c, TRUE, FALSE))
    BY DEF StepH1, StepWsBlocked, StepWs, Send
  <2> PICK m : m = Msg("Register", c, TRUE, FALSE)
    OBVIOUS
  <2>2. m \in Msgs /\ m.type = "Register" /\ m.id = c
    BY <1>2 DEF Msg, Msgs, MsgTypes
  <2>3. Fits(m, place')
    BY <1>1, <1>2, <2>2 DEF Fits, Early
  <2> QED BY <2>1, <2>2, <2>3
<1>13. to \notin Registered
  BY DEF Registered
<1>14. HandMove(w, c, to, r)
  BY <1>1, <1>2, <1>3, <1>7, <1>9, <1>10, <1>11, <1>12, <1>13 DEF HandMove
<1> QED BY <1>2, <1>8, <1>14, HandStep

\* A step ends with the connection closed, or given to a tunnel thread.
LEMMA EndStep ==
    ASSUME LoopInv, NEW w \in Workers, StepClose(w) \/ StepTunnel(w)
    PROVE  LoopInv'
<1> USE DEF chanVars, envVars, loopVars, Move, Send, Release
<1> PICK s : s = worker[w]
  OBVIOUS
<1> PICK c : c = s.conn
  OBVIOUS
<1> PICK r : r = [Free EXCEPT !.batch = s.batch]
  OBVIOUS
<1>1. /\ s.pc = "step" /\ UNCHANGED <<config, proto, firing, ready, poller, activity, stale, reactor>> /\ DropConn(c)
      /\ worker' = [worker EXCEPT ![w] = r]
  BY DEF StepClose, StepTunnel
<1>2. PICK to \in {"gone", "tunnel"}, kind \in {"Closed", "Detach"} :
        /\ place' = [place EXCEPT ![c] = to] /\ msgs' = Append(msgs, Msg(kind, c, FALSE, TRUE))
        /\ kind = "Closed" => to = "gone"
  BY DEF StepClose, StepTunnel
<1>3. /\ c \in Conns /\ place[c] = "held" /\ s \in WorkerStates /\ s.batch \in Seq(Conns)
      /\ \A v \in Workers : v # w /\ Stepping(v) => worker[v].conn # c
  BY <1>1, Alone DEF Stepping
<1>4. ConnTypes
  BY DEF LoopInv
<1>5. ConnTypes'
  BY <1>1, <1>2, <1>3, <1>4 DEF ConnTypes, DropConn, Places
<1>6. /\ \A d \in Conns \ {c} : proto'[d] = proto[d] /\ streaming'[d] = streaming[d] /\ app'[d] = app[d]
      /\ ~streaming'[c]
  BY <1>1, <1>3, <1>4 DEF ConnTypes, DropConn
<1>7. r \in WorkerStates /\ r.pc = "idle" /\ r.conn = NoConn /\ r.batch = s.batch
  BY <1>3 DEF WorkerStates, Free
<1>8. \E m \in Msgs : m.type # "NewConn" /\ Fits(m, place') /\ msgs' = Append(msgs, m)
  <2> PICK m : m = Msg(kind, c, FALSE, TRUE)
    OBVIOUS
  <2>1. m \in Msgs /\ m.type = kind /\ m.id = c
    BY <1>3 DEF Msg, Msgs, MsgTypes
  <2>2. place'[c] = to
    BY <1>2, <1>3, <1>4 DEF ConnTypes
  <2>3. Fits(m, place')
    BY <1>2, <2>1, <2>2 DEF Fits
  <2> QED BY <1>2, <2>1, <2>3
<1>9. to \notin Registered
  BY DEF Registered
<1>10. HandMove(w, c, to, r)
  BY <1>1, <1>2, <1>3, <1>6, <1>7, <1>8, <1>9 DEF HandMove
<1> QED BY <1>3, <1>5, <1>10, HandStep

LEMMA UpgradeStep ==
    ASSUME LoopInv, NEW w \in Workers, StepUpgrade(w)
    PROVE  LoopInv'
<1> USE DEF chanVars, envVars, loopVars, Send
<1> PICK s : s = worker[w]
  OBVIOUS
<1> PICK c : c = s.conn
  OBVIOUS
<1> PICK to : to = "held"
  OBVIOUS
<1>1. /\ s.pc = "step" /\ proto' = [proto EXCEPT ![c] = "ws"] /\ ~streaming[c]
      /\ UNCHANGED <<config, place, input, outbuf, streaming, firing, due, ready, poller, activity, stale, reactor, worker>>
  BY DEF StepUpgrade
<1>2. PICK greeting \in BOOLEAN : /\ app' = [app EXCEPT ![c] = greeting]
                                  /\ \/ msgs' = msgs
                                     \/ msgs' = Append(msgs, Msg("BodyChunk", c, FALSE, FALSE))
  BY DEF StepUpgrade
<1>3. /\ c \in Conns /\ place[c] = "held" /\ s \in WorkerStates /\ s.batch \in Seq(Conns)
      /\ \A v \in Workers : v # w /\ Stepping(v) => worker[v].conn # c
  BY <1>1, Alone DEF Stepping
<1>4. ConnTypes /\ LoopTypes /\ c # NoConn
  BY <1>3, LoopAssumption DEF LoopInv, NoConn
<1>5. ConnTypes'
  BY <1>1, <1>2, <1>3, <1>4 DEF ConnTypes, Registered
<1>6. \A d \in Conns \ {c} : proto'[d] = proto[d] /\ streaming'[d] = streaming[d] /\ app'[d] = app[d]
  BY <1>1, <1>2, <1>4 DEF ConnTypes
<1>7. place' = [place EXCEPT ![c] = to] /\ worker' = [worker EXCEPT ![w] = s]
  BY <1>1, <1>3, <1>4 DEF ConnTypes, LoopTypes
<1>8. \/ msgs' = msgs
      \/ \E m \in Msgs : m.type # "NewConn" /\ Fits(m, place') /\ msgs' = Append(msgs, m)
  <2> PICK m : m = Msg("BodyChunk", c, FALSE, FALSE)
    OBVIOUS
  <2>1. m \in Msgs /\ m.type = "BodyChunk" /\ m.id = c
    BY <1>3 DEF Msg, Msgs, MsgTypes
  <2>2. Fits(m, place')
    BY <1>1, <1>3, <2>1 DEF Fits, Early
  <2> QED BY <1>2, <2>1, <2>2
<1>9. to \notin Registered
  BY DEF Registered
<1>10. HandMove(w, c, to, s)
  BY <1>1, <1>3, <1>4, <1>6, <1>7, <1>8, <1>9 DEF HandMove
<1> QED BY <1>3, <1>5, <1>10, HandStep

LEMMA LoopStarts == Init => LoopInv
<1> SUFFICES ASSUME Init PROVE LoopInv
  OBVIOUS
<1> USE DEF Init
<1>1. ConnTypes
  BY DEF ConnTypes, Places, Registered
<1>2. LoopTypes
  <2>1. <<>> \in Seq(Msgs) /\ <<>> \in Seq(Batch) /\ <<>> \in Seq(Conns)
    OBVIOUS
  <2>2. reactor \in Reactors
    BY <2>1 DEF Reactors
  <2>3. Free \in WorkerStates /\ Free.conn = NoConn /\ Free.pc = "idle"
    BY <2>1 DEF Free, WorkerStates
  <2>4. worker \in [Workers -> WorkerStates] /\ \A w \in Workers : worker[w].conn = NoConn <=> worker[w].pc = "idle"
    BY <2>3
  <2> QED BY <2>1, <2>2, <2>4 DEF LoopTypes
<1>3. \A w \in Workers : worker[w].pc = "idle"
  BY DEF Free
<1>4. Owned /\ Spoken /\ NoReaper
  BY <1>3 DEF Owned, Stepping, Spoken, NoReaper
<1>5. \A c \in Conns : Care(c)
  BY DEF Care, Registered
<1>6. SlotsBounded
  <2>1. {c \in Conns : Live(c)} = {}
    BY DEF Live, Registered
  <2>2. Cardinality({}) = 0 /\ config.max_connections \in Nat
    BY <1>1, LoopAssumption, FS_EmptySet DEF ConnTypes
  <2> PICK L : L = {c \in Conns : Live(c)}
    OBVIOUS
  <2>3. L = {} /\ Cardinality(L) = 0 /\ L \subseteq activity
    BY <2>1, <2>2
  <2>4. config.max_connections > 0 => Cardinality(L) <= config.max_connections
    BY <2>2, <2>3
  <2> QED BY <2>3, <2>4 DEF SlotsBounded
<1> QED BY <1>1, <1>2, <1>4, <1>5, <1>6 DEF LoopInv

LEMMA LoopSteps == LoopInv /\ [Next]_vars => LoopInv'
<1> SUFFICES ASSUME LoopInv, [Next]_vars PROVE LoopInv'
  OBVIOUS
<1>1. CASE ReactorStep
  <2>1. CASE EndDrain \/ Wait \/ EndWake \/ Scan \/ EndRound
    BY <2>1, QuietSteps
  <2> QED BY <1>1, <2>1, MessageStep, WaitFailsStep, TimersStep, DispatchStep, ReadyStep, ReapStep DEF ReactorStep
<1>2. CASE \E w \in Workers : WorkerStep(w)
  BY <1>2, RecvStep, PickStep, ParkStep, SendRegisterStep, StepStep, EndStep, UpgradeStep DEF WorkerStep
<1>3. CASE \E c \in Conns : Accept(c) \/ Produce(c) \/ Fire(c) \/ TunnelEnds(c)
  BY <1>3, AcceptStep, ProduceStep, FireStep, TunnelStep
<1>4. CASE \E c \in Conns : PeerSends(c) \/ PeerReads(c) \/ DeadlinePasses(c) \/ GoesStale(c)
  BY <1>4, QuietSteps
<1>5. CASE UNCHANGED vars
  BY <1>5, QuietSteps
<1> QED BY <1>1, <1>2, <1>3, <1>4, <1>5 DEF Next

LEMMA LoopInvIsEnough == LoopInv => LoopKept
<1> SUFFICES ASSUME LoopInv PROVE LoopKept
  OBVIOUS
<1>1. ConnTypes /\ LoopTypes
  BY DEF LoopInv
<1>2. \A m \in Range(msgs) : m \in [type : MsgTypes, id : Conns, write : BOOLEAN, socket : BOOLEAN]
  <2>1. \A m \in Range(msgs) : m \in Msgs
    BY <1>1 DEF LoopTypes, Range
  <2> QED BY <2>1 DEF Msgs
<1>3. \A b \in Range(ready) : b # <<>> /\ Len(b) <= DispatchBatch /\ Range(b) \subseteq Conns
  <2> SUFFICES ASSUME NEW b \in Range(ready) PROVE b # <<>> /\ Len(b) <= DispatchBatch /\ Range(b) \subseteq Conns
    OBVIOUS
  <2>1. b \in Batch
    BY <1>1 DEF LoopTypes, Range
  <2> QED BY <2>1 DEF Batch, Range
<1>4. /\ reactor.pc \in {"drain", "poll", "wake", "ready", "send", "scan", "reap"}
      /\ reactor.ready \subseteq Conns /\ Range(reactor.todo) \subseteq Conns /\ reactor.expired \subseteq Conns
  <2>1. reactor \in Reactors
    BY <1>1 DEF LoopTypes
  <2> QED BY <2>1 DEF Reactors, Range
<1>5. ASSUME NEW w \in Workers
      PROVE  /\ worker[w].pc \in {"idle", "step", "park", "register"}
             /\ Range(worker[w].batch) \subseteq Conns
             /\ worker[w].conn \in IF worker[w].pc = "idle" THEN {NoConn} ELSE Conns
             /\ worker[w].write \in BOOLEAN
  <2>1. worker[w] \in WorkerStates /\ (worker[w].conn = NoConn <=> worker[w].pc = "idle")
    BY <1>1 DEF LoopTypes
  <2> QED BY <2>1 DEF WorkerStates, Range
<1>6. TypeOK
  BY <1>1, <1>2, <1>3, <1>4, <1>5 DEF TypeOK, ConnTypes, LoopTypes
<1>7. ParkedIsCovered /\ QueuedIsWatched /\ SlotsBounded
  BY DEF LoopInv, Care, Way, ParkedIsCovered, QueuedIsWatched
<1> QED BY <1>6, <1>7 DEF LoopKept

\* For any number of connections and workers, any batch size and any cap, with
\* or without the idle reaper: no parked connection and no queued frame is ever
\* forgotten between the reactor and its workers, and the cap on connections
\* holds (event_loop, handle_msg, wake_connection and event_worker).
THEOREM LoopStaysKept == Spec => []LoopKept
<1>1. LoopInv => LoopKept
  BY LoopInvIsEnough
<1> QED BY LoopStarts, LoopSteps, <1>1, PTL DEF Spec
=============================================================================
