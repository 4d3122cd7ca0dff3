--------------------------- MODULE TransportProofs ---------------------------
(* Proofs about the transports: packet protection, the endpoint and the       *)
(* handshake of QUIC (QuicKeys, QuicConnect, QuicTls), the handshakes and the  *)
(* names of a certificate chain of TLS (TlsHandshake) and the stream of TLS    *)
(* records over its key updates (TlsRecord), each for every value of the       *)
(* constants.                                                                  *)
EXTENDS QuicKeys, QuicConnect, TlsHandshake, TlsRecord, QuicTls, FiniteSetTheorems, WellFoundedInduction, TLAPS

(***************************************************************************)
(* PacketsOpen for every window, threshold and start.  The invariant is    *)
(* about one direction at a time: x receives, y sends, P is under way from *)
(* y to x.  Two ends are never more than two generations apart, and y      *)
(* starts the second one only after QkThreshold packets of the first:      *)
(* PacketsCounted keeps account of them.  Some are missed; none is refused,*)
(* because a packet of the next generation lies beyond every number x has  *)
(* opened so far (NumbersFit).                                             *)
(***************************************************************************)
EndStates == [send : Nat, recv : Nat, pending : BOOLEAN, count : Nat, next : Nat, largest : Int, missed : Nat]
QkPacket == [to : QkEnds, key : Nat, pn : Nat]

\* Numbers grow with generations, and none is out of the reach of its receiver.
NumbersFit(x, y, P) ==
  /\ QkStart <= y.next /\ y.next <= QkStart + QkPackets
  /\ QkStart - 1 <= x.largest /\ x.largest < y.next
  /\ \A p \in P : /\ QkStart <= p.pn /\ p.pn < y.next /\ p.key <= y.send
                  /\ p.key > x.recv => p.pn > x.largest
  /\ \A p, q \in P : p.key > q.key => p.pn > q.pn

\* An end waits for its peer exactly when it is one generation ahead of it.
KeysFit(x, y) ==
  /\ y.pending => y.send = y.recv + 1
  /\ ~y.pending => y.send = y.recv
  /\ x.recv <= y.send

Carrying(P, k) == {p \in P : p.key = k}

\* What was sealed with a key the peer has not got yet is under way or lost.
PacketsCounted(x, y, P) ==
  /\ y.send = x.recv + 1 /\ ~y.pending => y.count <= Cardinality(Carrying(P, x.recv + 1)) + x.missed
  /\ y.send = x.recv + 2 => QkThreshold <= Cardinality(Carrying(P, x.recv + 1)) + x.missed

FlowKept(x, y, P) ==
  /\ x \in EndStates /\ y \in EndStates /\ P \subseteq QkPacket /\ IsFiniteSet(P)
  /\ NumbersFit(x, y, P) /\ KeysFit(x, y) /\ PacketsCounted(x, y, P)

Toward(e) == {p \in qknet : p.to = e}

KeyTypes == qkend \in [QkEnds -> EndStates] /\ qknet \subseteq QkPacket /\ IsFiniteSet(qknet)
KeysInv == KeyTypes /\ \A e \in QkEnds : FlowKept(qkend[e], qkend[QkPeer(e)], Toward(e))

LEMMA WindowDivision ==
    ASSUME NEW a \in Nat, NEW n \in Nat, n > 0
    PROVE  a \div n \in Nat /\ a % n \in Nat /\ a % n < n /\ a = n * (a \div n) + (a % n)
OBVIOUS

LEMMA Multiples ==
    ASSUME NEW a \in Nat, NEW b \in Nat, NEW n \in Nat \ {0}, n * a - n * b < 2 * n, n * b - n * a < 2 * n
    PROVE  /\ n * a - n * b \in {-n, 0, n} /\ n * a \in Nat /\ n * b \in Nat
           /\ n * a - n * b = -n => n * b >= n
<1>1. n * a \in Nat /\ n * b \in Nat
  OBVIOUS
<1>2. n * a - n * b = n * (a - b)
  OBVIOUS
<1>3. a - b >= 2 => n * (a - b) >= n * 2
  OBVIOUS
<1>4. b - a >= 2 => n * (b - a) >= n * 2
  OBVIOUS
<1>5. n * (b - a) = n * b - n * a
  OBVIOUS
<1>6. a - b < 2 /\ b - a < 2
  BY <1>1, <1>2, <1>3, <1>4, <1>5
<1>7. CASE a = b
  BY <1>1, <1>7
<1>8. CASE a = b + 1
  <2>1. n * (b + 1) = n * b + n
    OBVIOUS
  <2> QED BY <1>1, <1>8, <2>1
<1>9. CASE b = a + 1
  <2>1. n * (a + 1) = n * a + n
    OBVIOUS
  <2> QED BY <1>1, <1>9, <2>1
<1> QED BY <1>6, <1>7, <1>8, <1>9

LEMMA HalfWindow == Half \in Nat \ {0} /\ QkWindow = Half + Half /\ QkPackets <= Half
<1>1. QkWindow \in Nat \ {0} /\ QkWindow % 2 = 0 /\ QkPackets \in Nat \ {0} /\ QkPackets <= QkWindow \div 2
  BY QkAssumption
<1> QED BY <1>1 DEF Half

\* decode_pn(): a number less than half a window from the one expected is recovered.
LEMMA NumberRecovered ==
    ASSUME NEW pn \in Nat, NEW x \in Nat, pn - x > -Half, pn - x <= Half
    PROVE  DecodePn(pn % QkWindow, x) = pn
<1>1. QkWindow \in Nat \ {0} /\ QkWindow > 0 /\ Half \in Nat \ {0} /\ QkWindow = Half + Half
  BY QkAssumption, HalfWindow
<1> DEFINE a == x \div QkWindow
           b == pn \div QkWindow
           r == x % QkWindow
           t == pn % QkWindow
           A == QkWindow * a
           B == QkWindow * b
           c == x - r + t
<1>2. /\ a \in Nat /\ r \in Nat /\ r < QkWindow /\ x = A + r
      /\ b \in Nat /\ t \in Nat /\ t < QkWindow /\ pn = B + t
  BY <1>1, WindowDivision
<1>3. DecodePn(t, x) = IF x >= Half /\ c <= x - Half THEN c + QkWindow
                       ELSE IF c > x + Half /\ c >= QkWindow THEN c - QkWindow ELSE c
  BY DEF DecodePn
<1> HIDE DEF a, b, r, t
<1>4. A \in Nat /\ B \in Nat
  BY <1>1, <1>2
<1>5. A - B < 2 * QkWindow /\ B - A < 2 * QkWindow
  <2> HIDE DEF A, B
  <2> QED BY <1>1, <1>2, <1>4
<1>6. A - B \in {-QkWindow, 0, QkWindow} /\ (A - B = -QkWindow => B >= QkWindow)
  BY <1>1, <1>2, <1>5, Multiples
<1> HIDE DEF A, B
<1>7. DecodePn(t, x) = pn
  <2>1. CASE A - B = 0
    BY <1>1, <1>2, <1>3, <1>4, <2>1
  <2>2. CASE A - B = QkWindow
    BY <1>1, <1>2, <1>3, <1>4, <2>2
  <2>3. CASE A - B = -QkWindow
    BY <1>1, <1>2, <1>3, <1>4, <1>6, <2>3
  <2> QED BY <1>6, <2>1, <2>2, <2>3
<1> QED BY <1>7 DEF t

LEMMA BothEnds ==
    ASSUME NEW e \in QkEnds
    PROVE  /\ QkPeer(e) \in QkEnds /\ QkPeer(e) # e /\ QkPeer(QkPeer(e)) = e
           /\ \A f \in QkEnds : f = e \/ f = QkPeer(e)
BY DEF QkEnds, QkPeer

LEMMA FieldTypes ==
    ASSUME NEW x \in EndStates
    PROVE  /\ x.send \in Nat /\ x.recv \in Nat /\ x.pending \in BOOLEAN /\ x.count \in Nat
           /\ x.next \in Nat /\ x.largest \in Int /\ x.missed \in Nat
BY DEF EndStates

\* A packet of the current or the next generation whose number is near opens.
LEMMA NearOpens ==
    ASSUME KeysInv, NEW p \in qknet, p.key - qkend[p.to].recv \in {0, 1},
           p.pn - QkExpected(p.to) > -Half, p.pn - QkExpected(p.to) <= Half
    PROVE  OpensPacket(p.to, p)
<1>1. p.to \in QkEnds /\ p.key \in Nat /\ p.pn \in Nat
  BY DEF KeysInv, KeyTypes, QkPacket
<1>2. qkend[p.to].recv \in Nat /\ qkend[p.to].largest \in Int
  BY <1>1, FieldTypes DEF KeysInv, KeyTypes
<1>3. qkend[p.to].largest >= QkStart - 1 /\ QkStart \in Nat
  BY <1>1, QkAssumption DEF KeysInv, FlowKept, NumbersFit
<1>4. QkExpected(p.to) \in Nat
  BY <1>2, <1>3 DEF QkExpected
<1>5. KeyTried(p.to, p) = p.key
  BY <1>1, <1>2 DEF KeyTried
<1>6. DecodePn(p.pn % QkWindow, QkExpected(p.to)) = p.pn
  BY <1>1, <1>4, NumberRecovered
<1> QED BY <1>5, <1>6 DEF OpensPacket

\* The first packets of a new generation open, whatever was lost before them.
LEMMA NextKeyOpens ==
    ASSUME KeysInv, NEW p \in qknet, p.key = qkend[p.to].recv + 1
    PROVE  OpensPacket(p.to, p)
<1> PICK e \in QkEnds : e = p.to
  BY DEF KeysInv, KeyTypes, QkPacket
<1> PICK x \in EndStates : x = qkend[e]
  BY DEF KeysInv, KeyTypes
<1> PICK y \in EndStates : y = qkend[QkPeer(e)]
  BY BothEnds DEF KeysInv, KeyTypes
<1>1. x.recv \in Nat /\ x.largest \in Int /\ y.next \in Nat /\ p.pn \in Nat /\ p.key \in Nat
  BY FieldTypes DEF KeysInv, KeyTypes, QkPacket
<1>2. p \in Toward(e) /\ NumbersFit(x, y, Toward(e))
  BY DEF KeysInv, FlowKept, Toward
<1>3. /\ x.largest >= QkStart - 1 /\ y.next <= QkStart + QkPackets
      /\ p.pn < y.next /\ (p.key > x.recv => p.pn > x.largest)
  BY <1>2 DEF NumbersFit
<1>4. QkStart \in Nat /\ QkPackets \in Nat /\ Half \in Nat \ {0} /\ QkPackets <= Half
  BY QkAssumption, HalfWindow
<1>5. p.pn - QkExpected(e) > -Half /\ p.pn - QkExpected(e) <= Half
  BY <1>1, <1>3, <1>4 DEF QkExpected
<1>6. p.key - x.recv \in {0, 1}
  BY <1>1
<1> QED BY <1>5, <1>6, NearOpens

LEMMA CarryingFinite ==
    ASSUME NEW P, IsFiniteSet(P), NEW k
    PROVE  IsFiniteSet(Carrying(P, k)) /\ Cardinality(Carrying(P, k)) \in Nat
BY FS_Subset, FS_CardinalityType DEF Carrying

\* Two ends are never more than two generations apart.
LEMMA TwoApart ==
    ASSUME NEW x \in EndStates, NEW y \in EndStates, KeysFit(x, y), KeysFit(y, x)
    PROVE  /\ x.recv <= y.send /\ y.send <= x.recv + 2
           /\ y.send = x.recv + 2 => x.pending /\ y.pending
<1>1. x.send \in Nat /\ x.recv \in Nat /\ y.send \in Nat /\ y.recv \in Nat /\ x.pending \in BOOLEAN /\ y.pending \in BOOLEAN
  BY FieldTypes
<1>2. /\ (x.pending /\ x.send = x.recv + 1) \/ (~x.pending /\ x.send = x.recv)
      /\ (y.pending /\ y.send = y.recv + 1) \/ (~y.pending /\ y.send = y.recv)
      /\ x.recv <= y.send /\ y.recv <= x.send
  BY <1>1 DEF KeysFit
<1> QED BY <1>1, <1>2

LEMMA KeysEnough == KeysInv => PacketsOpen
<1> SUFFICES ASSUME KeysInv PROVE PacketsOpen
  OBVIOUS
<1>1. GoodPacketsOpen
  BY NearOpens DEF GoodPacketsOpen
<1>2. ASSUME NEW e \in QkEnds, NEW ahead, ahead = qkend[QkPeer(e)].send - qkend[e].recv
      PROVE  /\ ahead >= 0
             /\ ahead > 1 => (\E p \in qknet : p.to = e /\ p.key = qkend[e].recv + 1) \/ qkend[e].missed >= QkThreshold
  <2> PICK x \in EndStates : x = qkend[e]
    BY DEF KeysInv, KeyTypes
  <2> PICK y \in EndStates : y = qkend[QkPeer(e)]
    BY BothEnds DEF KeysInv, KeyTypes
  <2>1. x.recv \in Nat /\ y.send \in Nat /\ x.missed \in Nat /\ QkThreshold \in Nat
    BY FieldTypes, QkAssumption
  <2>2. FlowKept(x, y, Toward(e)) /\ FlowKept(y, x, Toward(QkPeer(e)))
    BY BothEnds DEF KeysInv
  <2>3. x.recv <= y.send /\ y.send <= x.recv + 2
    BY <2>2, TwoApart DEF FlowKept
  <2>4. ASSUME y.send = x.recv + 2, ~(x.missed >= QkThreshold) PROVE Carrying(Toward(e), x.recv + 1) # {}
    <3>1. QkThreshold <= Cardinality(Carrying(Toward(e), x.recv + 1)) + x.missed
      BY <2>2, <2>4 DEF FlowKept, PacketsCounted
    <3>2. Cardinality(Carrying(Toward(e), x.recv + 1)) \in Nat
      BY <2>2, CarryingFinite DEF FlowKept
    <3>3. Cardinality(Carrying(Toward(e), x.recv + 1)) # 0
      BY <2>1, <2>4, <3>1, <3>2
    <3> QED BY <3>3, FS_EmptySet
  <2>5. Carrying(Toward(e), x.recv + 1) # {} => \E p \in qknet : p.to = e /\ p.key = x.recv + 1
    BY DEF Carrying, Toward
  <2>6. ahead = y.send - x.recv
    BY <1>2
  <2> QED BY <2>1, <2>3, <2>4, <2>5, <2>6
<1>3. NobodyLockedOut
  BY <1>2 DEF NobodyLockedOut
<1> QED BY <1>1, <1>3 DEF PacketsOpen

LEMMA KeysStart == QkInit => KeysInv
<1> SUFFICES ASSUME QkInit PROVE KeysInv
  OBVIOUS
<1>1. QkStart \in Nat /\ QkPackets \in Nat /\ QkThreshold \in Nat \ {0}
  BY QkAssumption
<1> PICK x : x = [send |-> 0, recv |-> 0, pending |-> FALSE, count |-> 0, next |-> QkStart, largest |-> QkStart - 1, missed |-> 0]
  OBVIOUS
<1>2. /\ x \in EndStates /\ x.send = 0 /\ x.recv = 0 /\ x.pending = FALSE /\ x.missed = 0 /\ x.next = QkStart
      /\ x.largest = QkStart - 1
  BY <1>1 DEF EndStates
<1>3. qkend = [e \in QkEnds |-> x] /\ qknet = {} /\ \A e \in QkEnds : qkend[e] = x
  BY DEF QkInit
<1>4. KeyTypes
  BY <1>2, <1>3, FS_EmptySet DEF KeyTypes
<1>5. NumbersFit(x, x, {}) /\ KeysFit(x, x) /\ PacketsCounted(x, x, {})
  BY <1>1, <1>2 DEF NumbersFit, KeysFit, PacketsCounted
<1>6. FlowKept(x, x, {})
  BY <1>2, <1>5, FS_EmptySet DEF FlowKept
<1>7. \A e \in QkEnds : Toward(e) = {}
  BY <1>3 DEF Toward
<1> QED BY <1>3, <1>4, <1>6, <1>7, BothEnds DEF KeysInv

\* What a step leaves alone of the receiver keeps its direction.
LEMMA ReceiverSame ==
    ASSUME NEW x, NEW y, NEW P, FlowKept(x, y, P),
           NEW z \in EndStates, z.recv = x.recv, z.largest = x.largest, z.missed = x.missed
    PROVE  FlowKept(z, y, P)
<1>1. NumbersFit(x, y, P) /\ KeysFit(x, y) /\ PacketsCounted(x, y, P)
  BY DEF FlowKept
<1>2. NumbersFit(z, y, P)
  BY <1>1 DEF NumbersFit
<1>3. KeysFit(z, y) /\ PacketsCounted(z, y, P)
  BY <1>1 DEF KeysFit, PacketsCounted
<1> QED BY <1>2, <1>3 DEF FlowKept

\* send_frames(): one more packet of the current generation.
LEMMA SealFlow ==
    ASSUME NEW x, NEW y, NEW P, FlowKept(x, y, P), y.next < QkStart + QkPackets,
           NEW z \in EndStates, z.next = y.next + 1, z.count = y.count + 1, z.send = y.send, z.recv = y.recv,
           z.pending = y.pending,
           NEW n \in QkPacket, n.key = y.send, n.pn = y.next
    PROVE  FlowKept(x, z, P \cup {n})
<1>1. /\ x \in EndStates /\ y \in EndStates /\ P \subseteq QkPacket /\ IsFiniteSet(P)
      /\ NumbersFit(x, y, P) /\ KeysFit(x, y) /\ PacketsCounted(x, y, P)
  BY DEF FlowKept
<1>2. /\ x.recv \in Nat /\ x.largest \in Int /\ y.next \in Nat /\ y.send \in Nat /\ y.count \in Nat /\ x.missed \in Nat
      /\ QkStart \in Nat /\ QkPackets \in Nat /\ QkThreshold \in Nat
      /\ \A p \in P : p.key \in Nat /\ p.pn \in Nat
  BY <1>1, FieldTypes, QkAssumption DEF QkPacket
<1>3. NumbersFit(x, z, P \cup {n})
  <2>1. /\ QkStart <= y.next /\ y.next <= QkStart + QkPackets /\ QkStart - 1 <= x.largest /\ x.largest < y.next
        /\ \A p \in P : /\ QkStart <= p.pn /\ p.pn < y.next /\ p.key <= y.send
                        /\ p.key > x.recv => p.pn > x.largest
        /\ \A p, q \in P : p.key > q.key => p.pn > q.pn
    BY <1>1 DEF NumbersFit
  <2>2. \A p \in P \cup {n} : /\ QkStart <= p.pn /\ p.pn < z.next /\ p.key <= z.send
                              /\ p.key > x.recv => p.pn > x.largest
    BY <1>2, <2>1
  <2>3. ASSUME NEW p \in P \cup {n}, NEW q \in P \cup {n}, p.key > q.key
        PROVE  p.pn > q.pn
    <3>1. p # n => p \in P
      OBVIOUS
    <3>2. q # n => q \in P
      OBVIOUS
    <3>3. CASE p = n
      BY <1>2, <2>1, <2>3, <3>2, <3>3
    <3>4. CASE p # n /\ q = n
      BY <1>2, <2>1, <2>3, <3>1, <3>4
    <3> QED BY <2>1, <2>3, <3>1, <3>2, <3>3, <3>4
  <2>4. QkStart <= z.next /\ z.next <= QkStart + QkPackets /\ x.largest < z.next
    BY <1>2, <2>1
  <2> QED BY <2>1, <2>2, <2>3, <2>4 DEF NumbersFit
<1>4. KeysFit(x, z)
  BY <1>1 DEF KeysFit
<1>5. \A k : k # y.send => Carrying(P \cup {n}, k) = Carrying(P, k)
  BY DEF Carrying
<1>6. Cardinality(Carrying(P \cup {n}, y.send)) = Cardinality(Carrying(P, y.send)) + 1
  <2>1. n \notin P
    BY <1>1, <1>2 DEF NumbersFit
  <2>2. n \notin Carrying(P, y.send) /\ Carrying(P \cup {n}, y.send) = Carrying(P, y.send) \cup {n}
    BY <2>1 DEF Carrying
  <2> QED BY <1>1, <2>2, CarryingFinite, FS_AddElement
<1>7. \A k : Cardinality(Carrying(P, k)) \in Nat
  BY <1>1, CarryingFinite
<1>8. PacketsCounted(x, z, P \cup {n})
  <2>1. ASSUME z.send = x.recv + 1, ~z.pending
        PROVE  z.count <= Cardinality(Carrying(P \cup {n}, x.recv + 1)) + x.missed
    <3>1. y.count <= Cardinality(Carrying(P, y.send)) + x.missed
      BY <1>1, <2>1 DEF PacketsCounted
    <3> QED BY <1>2, <1>6, <1>7, <2>1, <3>1
  <2>2. ASSUME z.send = x.recv + 2
        PROVE  QkThreshold <= Cardinality(Carrying(P \cup {n}, x.recv + 1)) + x.missed
    <3>1. x.recv + 1 # y.send
      BY <1>2, <2>2
    <3> QED BY <1>1, <1>5, <2>2, <3>1 DEF PacketsCounted
  <2> QED BY <1>1, <2>1, <2>2 DEF PacketsCounted
<1>9. IsFiniteSet(P \cup {n})
  BY <1>1, FS_AddElement
<1> QED BY <1>1, <1>3, <1>4, <1>8, <1>9 DEF FlowKept

\* maybe_key_update(): the next generation, QkThreshold packets after the last one.
LEMMA UpdateFlow ==
    ASSUME NEW x, NEW y, NEW P, FlowKept(x, y, P), ~y.pending, y.count >= QkThreshold,
           NEW z \in EndStates, z.send = y.send + 1, z.recv = y.recv, z.pending = TRUE, z.next = y.next
    PROVE  FlowKept(x, z, P)
<1>1. /\ x \in EndStates /\ y \in EndStates /\ P \subseteq QkPacket /\ IsFiniteSet(P)
      /\ NumbersFit(x, y, P) /\ KeysFit(x, y) /\ PacketsCounted(x, y, P)
  BY DEF FlowKept
<1>2. /\ x.recv \in Nat /\ y.send \in Nat /\ y.count \in Nat /\ x.missed \in Nat /\ y.recv \in Nat /\ QkThreshold \in Nat
      /\ \A p \in P : p.key \in Nat
  BY <1>1, FieldTypes, QkAssumption DEF QkPacket
<1>3. NumbersFit(x, z, P)
  BY <1>1, <1>2 DEF NumbersFit
<1>4. KeysFit(x, z)
  BY <1>1, <1>2 DEF KeysFit
<1>5. ASSUME z.send = x.recv + 2
      PROVE  QkThreshold <= Cardinality(Carrying(P, x.recv + 1)) + x.missed
  <2>1. y.send = x.recv + 1
    BY <1>2, <1>5
  <2>2. y.count <= Cardinality(Carrying(P, x.recv + 1)) + x.missed
    BY <1>1, <2>1 DEF PacketsCounted
  <2>3. Cardinality(Carrying(P, x.recv + 1)) \in Nat
    BY <1>1, CarryingFinite
  <2> QED BY <1>2, <2>2, <2>3
<1>6. PacketsCounted(x, z, P)
  BY <1>1, <1>5 DEF PacketsCounted
<1> QED BY <1>1, <1>3, <1>4, <1>6 DEF FlowKept

\* A packet that is gone: only its own generation has one less.
LEMMA OneLess ==
    ASSUME NEW P, IsFiniteSet(P), NEW p \in P
    PROVE  /\ IsFiniteSet(P \ {p})
           /\ \A k : k # p.key => Carrying(P \ {p}, k) = Carrying(P, k)
           /\ \A k : Cardinality(Carrying(P, k)) <= Cardinality(Carrying(P \ {p}, k)) + 1
<1>1. IsFiniteSet(P \ {p}) /\ \A k : k # p.key => Carrying(P \ {p}, k) = Carrying(P, k)
  BY FS_Subset DEF Carrying
<1>2. Cardinality(Carrying(P, p.key)) = Cardinality(Carrying(P \ {p}, p.key)) + 1
  <2>1. p \notin Carrying(P \ {p}, p.key) /\ Carrying(P, p.key) = Carrying(P \ {p}, p.key) \cup {p}
    BY DEF Carrying
  <2> QED BY <1>1, <2>1, CarryingFinite, FS_AddElement
<1>3. \A k : Cardinality(Carrying(P, k)) \in Nat /\ Cardinality(Carrying(P \ {p}, k)) \in Nat
  BY <1>1, CarryingFinite
<1>4. ASSUME NEW k PROVE Cardinality(Carrying(P, k)) <= Cardinality(Carrying(P \ {p}, k)) + 1
  <2>1. CASE k = p.key
    BY <1>2, <1>3, <2>1
  <2>2. CASE k # p.key
    BY <1>1, <1>3, <2>2
  <2> QED BY <2>1, <2>2
<1> QED BY <1>1, <1>4

\* A packet lost on the way: one of the next generation is missed.
LEMMA LoseFlow ==
    ASSUME NEW x, NEW y, NEW P, FlowKept(x, y, P), NEW p \in P,
           NEW z \in EndStates, z.recv = x.recv, z.largest = x.largest,
           z.missed = IF p.key = x.recv + 1 THEN x.missed + 1 ELSE x.missed
    PROVE  FlowKept(z, y, P \ {p})
<1>1. /\ x \in EndStates /\ y \in EndStates /\ P \subseteq QkPacket /\ IsFiniteSet(P)
      /\ NumbersFit(x, y, P) /\ KeysFit(x, y) /\ PacketsCounted(x, y, P)
  BY DEF FlowKept
<1>2. x.recv \in Nat /\ y.count \in Nat /\ x.missed \in Nat /\ QkThreshold \in Nat
  BY <1>1, FieldTypes, QkAssumption
<1>3. NumbersFit(z, y, P \ {p}) /\ KeysFit(z, y)
  BY <1>1 DEF NumbersFit, KeysFit
<1>4. /\ Cardinality(Carrying(P, x.recv + 1)) <= Cardinality(Carrying(P \ {p}, x.recv + 1)) + 1
      /\ p.key # x.recv + 1 => Carrying(P \ {p}, x.recv + 1) = Carrying(P, x.recv + 1)
      /\ IsFiniteSet(P \ {p})
  BY <1>1, OneLess
<1>5. Cardinality(Carrying(P, x.recv + 1)) \in Nat /\ Cardinality(Carrying(P \ {p}, x.recv + 1)) \in Nat
  BY <1>1, <1>4, CarryingFinite
<1>6. Cardinality(Carrying(P, x.recv + 1)) + x.missed <= Cardinality(Carrying(P \ {p}, x.recv + 1)) + z.missed
  BY <1>2, <1>4, <1>5
<1>7. z.missed \in Nat
  BY FieldTypes
<1>8. PacketsCounted(z, y, P \ {p})
  BY <1>1, <1>2, <1>5, <1>6, <1>7 DEF PacketsCounted
<1> QED BY <1>1, <1>3, <1>4, <1>8 DEF FlowKept

\* open() refuses a packet, or opens one of a generation it has: none of the next is missing.
LEMMA TakeFlow ==
    ASSUME NEW x, NEW y, NEW P, FlowKept(x, y, P), NEW p \in P, p.key # x.recv + 1,
           NEW z \in EndStates, z.recv = x.recv, z.missed = x.missed,
           z.largest = x.largest \/ (p.key = x.recv /\ z.largest \in {x.largest, p.pn})
    PROVE  FlowKept(z, y, P \ {p})
<1>1. /\ x \in EndStates /\ y \in EndStates /\ P \subseteq QkPacket /\ IsFiniteSet(P)
      /\ NumbersFit(x, y, P) /\ KeysFit(x, y) /\ PacketsCounted(x, y, P)
  BY DEF FlowKept
<1>2. /\ x.recv \in Nat /\ x.largest \in Int /\ QkStart \in Nat
      /\ \A q \in P : q.key \in Nat /\ q.pn \in Nat
  BY <1>1, FieldTypes, QkAssumption DEF QkPacket
<1>3. IsFiniteSet(P \ {p}) /\ Carrying(P \ {p}, x.recv + 1) = Carrying(P, x.recv + 1)
  BY <1>1, OneLess
<1>4. NumbersFit(z, y, P \ {p})
  <2>1. /\ QkStart <= y.next /\ y.next <= QkStart + QkPackets /\ QkStart - 1 <= x.largest /\ x.largest < y.next
        /\ \A q \in P : /\ QkStart <= q.pn /\ q.pn < y.next /\ q.key <= y.send
                        /\ q.key > x.recv => q.pn > x.largest
        /\ \A r, q \in P : r.key > q.key => r.pn > q.pn
    BY <1>1 DEF NumbersFit
  <2>2. QkStart - 1 <= z.largest /\ z.largest < y.next
    BY <1>2, <2>1
  <2>3. \A q \in P : q.key > x.recv => q.pn > z.largest
    BY <1>2, <2>1
  <2> QED BY <2>1, <2>2, <2>3 DEF NumbersFit
<1>5. KeysFit(z, y) /\ PacketsCounted(z, y, P \ {p})
  BY <1>1, <1>3 DEF KeysFit, PacketsCounted
<1> QED BY <1>1, <1>3, <1>4, <1>5 DEF FlowKept

\* open() with the next key: the receiver is in the generation of the packet now.
LEMMA FreshFlow ==
    ASSUME NEW x, NEW y, NEW P, FlowKept(x, y, P), KeysFit(y, x), NEW p \in P, p.key = x.recv + 1,
           NEW z \in EndStates, z.recv = p.key, z.largest \in {x.largest, p.pn}
    PROVE  FlowKept(z, y, P \ {p})
<1>1. /\ x \in EndStates /\ y \in EndStates /\ P \subseteq QkPacket /\ IsFiniteSet(P)
      /\ NumbersFit(x, y, P) /\ KeysFit(x, y) /\ PacketsCounted(x, y, P)
  BY DEF FlowKept
<1>2. /\ x.recv \in Nat /\ x.largest \in Int /\ QkStart \in Nat /\ y.send \in Nat
      /\ \A q \in P : q.key \in Nat /\ q.pn \in Nat
  BY <1>1, FieldTypes, QkAssumption DEF QkPacket
<1>3. /\ QkStart <= y.next /\ y.next <= QkStart + QkPackets /\ QkStart - 1 <= x.largest /\ x.largest < y.next
      /\ \A q \in P : /\ QkStart <= q.pn /\ q.pn < y.next /\ q.key <= y.send
                      /\ q.key > x.recv => q.pn > x.largest
      /\ \A r, q \in P : r.key > q.key => r.pn > q.pn
  BY <1>1 DEF NumbersFit
<1>4. NumbersFit(z, y, P \ {p})
  <2>1. QkStart - 1 <= z.largest /\ z.largest < y.next
    BY <1>2, <1>3
  <2>2. \A q \in P : q.key > z.recv => q.pn > z.largest
    BY <1>2, <1>3
  <2> QED BY <1>3, <2>1, <2>2 DEF NumbersFit
<1>5. z.recv <= y.send
  BY <1>3
<1>6. KeysFit(z, y)
  BY <1>1, <1>5 DEF KeysFit
<1>7. y.send <= x.recv + 2 /\ (y.send = x.recv + 2 => y.pending)
  BY <1>1, TwoApart
<1>8. (y.send = z.recv + 1 => y.pending) /\ y.send # z.recv + 2
  BY <1>2, <1>7
<1>9. PacketsCounted(z, y, P \ {p})
  BY <1>1, <1>8 DEF PacketsCounted
<1>10. IsFiniteSet(P \ {p})
  BY <1>1, OneLess
<1> QED BY <1>1, <1>4, <1>6, <1>9, <1>10 DEF FlowKept

\* The sender follows its receiver into the new generation, or was in it already.
LEMMA FollowFlow ==
    ASSUME NEW x, NEW y, NEW Q, FlowKept(y, x, Q), KeysFit(x, y), x.recv + 1 <= y.send,
           NEW z \in EndStates, z.recv = x.recv + 1, z.send = x.recv + 1, z.pending = FALSE, z.count = 0,
           z.next = x.next
    PROVE  FlowKept(y, z, Q)
<1>1. /\ x \in EndStates /\ y \in EndStates /\ Q \subseteq QkPacket /\ IsFiniteSet(Q)
      /\ NumbersFit(y, x, Q) /\ KeysFit(y, x) /\ PacketsCounted(y, x, Q)
  BY DEF FlowKept
<1>2. /\ x.recv \in Nat /\ x.send \in Nat /\ y.recv \in Nat /\ y.send \in Nat /\ y.missed \in Nat /\ x.pending \in BOOLEAN
      /\ y.pending \in BOOLEAN /\ \A q \in Q : q.key \in Nat
  BY <1>1, FieldTypes DEF QkPacket
<1>3. x.send = x.recv \/ x.send = x.recv + 1
  BY <1>1, <1>2 DEF KeysFit
<1>4. y.recv <= x.send /\ (y.send = y.recv \/ y.send = y.recv + 1)
  BY <1>1, <1>2 DEF KeysFit
<1>5. NumbersFit(y, z, Q)
  BY <1>1, <1>2, <1>3 DEF NumbersFit
<1>6. KeysFit(y, z)
  BY <1>2, <1>3, <1>4 DEF KeysFit
<1>7. Cardinality(Carrying(Q, y.recv + 1)) \in Nat
  BY <1>1, CarryingFinite
<1>8. z.send # y.recv + 2
  BY <1>2, <1>4
<1>9. PacketsCounted(y, z, Q)
  BY <1>1, <1>2, <1>7, <1>8 DEF PacketsCounted
<1> QED BY <1>1, <1>5, <1>6, <1>9 DEF FlowKept

\* A step of one end keeps the invariant when it keeps both directions.
LEMMA BothFlows ==
    ASSUME KeysInv, NEW e \in QkEnds, NEW z \in EndStates, qkend' = [qkend EXCEPT ![e] = z],
           NEW N \in SUBSET QkPacket, qknet' = N, IsFiniteSet(N),
           FlowKept(z, qkend[QkPeer(e)], {p \in N : p.to = e}),
           FlowKept(qkend[QkPeer(e)], z, {p \in N : p.to = QkPeer(e)})
    PROVE  KeysInv'
<1>1. QkPeer(e) \in QkEnds /\ QkPeer(e) # e /\ QkPeer(QkPeer(e)) = e /\ \A f \in QkEnds : f = e \/ f = QkPeer(e)
  BY BothEnds
<1>2. qkend'[e] = z /\ qkend'[QkPeer(e)] = qkend[QkPeer(e)] /\ qkend' \in [QkEnds -> EndStates]
  BY <1>1 DEF KeysInv, KeyTypes
<1>3. KeyTypes'
  BY <1>2 DEF KeyTypes
<1>4. \A f : Toward(f)' = {p \in N : p.to = f}
  BY DEF Toward
<1>5. FlowKept(qkend'[e], qkend'[QkPeer(e)], Toward(e)')
  BY <1>2, <1>4
<1>6. FlowKept(qkend'[QkPeer(e)], qkend'[QkPeer(QkPeer(e))], Toward(QkPeer(e))')
  BY <1>1, <1>2, <1>4
<1>7. \A f \in QkEnds : FlowKept(qkend'[f], qkend'[QkPeer(f)], Toward(f)')
  BY <1>1, <1>5, <1>6
<1>8. (\A f \in QkEnds : FlowKept(qkend[f], qkend[QkPeer(f)], Toward(f)))'
  BY <1>7
<1> QED BY <1>3, <1>8 DEF KeysInv

\* The two directions of an end as the invariant sees them.
LEMMA FlowsHold ==
    ASSUME KeysInv, NEW e \in QkEnds
    PROVE  /\ qkend[e] \in EndStates /\ qkend[QkPeer(e)] \in EndStates
           /\ qknet \in SUBSET QkPacket /\ IsFiniteSet(qknet)
           /\ FlowKept(qkend[e], qkend[QkPeer(e)], {p \in qknet : p.to = e})
           /\ FlowKept(qkend[QkPeer(e)], qkend[e], {p \in qknet : p.to = QkPeer(e)})
BY BothEnds DEF KeysInv, KeyTypes, Toward

LEMMA SealStep ==
    ASSUME KeysInv, NEW e \in QkEnds, QkSend(e)
    PROVE  KeysInv'
<1> PICK x \in EndStates : x = qkend[e]
  BY FlowsHold
<1> PICK y \in EndStates : y = qkend[QkPeer(e)]
  BY FlowsHold
<1> PICK z : z = [x EXCEPT !.next = x.next + 1, !.count = x.count + 1]
  OBVIOUS
<1> PICK n : n = [to |-> QkPeer(e), key |-> x.send, pn |-> x.next]
  OBVIOUS
<1>1. x.next + 1 \in Nat /\ x.count + 1 \in Nat /\ x.next \in Nat /\ x.send \in Nat
  BY FieldTypes
<1>2. /\ z \in EndStates /\ z.send = x.send /\ z.recv = x.recv /\ z.pending = x.pending /\ z.count = x.count + 1
      /\ z.next = x.next + 1 /\ z.largest = x.largest /\ z.missed = x.missed
  BY <1>1 DEF EndStates
<1>3. n \in QkPacket /\ n.to = QkPeer(e) /\ n.key = x.send /\ n.pn = x.next
  BY <1>1, BothEnds DEF QkPacket
<1>4. qkend' = [qkend EXCEPT ![e] = z] /\ qknet' = qknet \cup {n} /\ x.next < QkStart + QkPackets
  BY DEF QkSend
<1>5. /\ FlowKept(x, y, {p \in qknet : p.to = e}) /\ FlowKept(y, x, {p \in qknet : p.to = QkPeer(e)})
      /\ qknet \in SUBSET QkPacket /\ IsFiniteSet(qknet)
  BY FlowsHold
<1>6. /\ {p \in qknet \cup {n} : p.to = e} = {p \in qknet : p.to = e}
      /\ {p \in qknet \cup {n} : p.to = QkPeer(e)} = {p \in qknet : p.to = QkPeer(e)} \cup {n}
  BY <1>3, BothEnds
<1>7. FlowKept(z, y, {p \in qknet : p.to = e})
  BY <1>2, <1>5, ReceiverSame
<1>8. FlowKept(y, z, {p \in qknet : p.to = QkPeer(e)} \cup {n})
  <2> DEFINE Q == {p \in qknet : p.to = QkPeer(e)}
  <2>1. FlowKept(y, x, Q)
    BY <1>5
  <2> HIDE DEF Q
  <2>2. FlowKept(y, z, Q \cup {n})
    BY <1>2, <1>3, <1>4, <2>1, SealFlow, ZenonT(60)
  <2> QED BY <2>2 DEF Q
<1>9. qknet \cup {n} \in SUBSET QkPacket /\ IsFiniteSet(qknet \cup {n})
  BY <1>3, <1>5, FS_AddElement
<1>10. /\ FlowKept(z, qkend[QkPeer(e)], {p \in qknet \cup {n} : p.to = e})
       /\ FlowKept(qkend[QkPeer(e)], z, {p \in qknet \cup {n} : p.to = QkPeer(e)})
  BY <1>6, <1>7, <1>8
<1> QED BY <1>2, <1>4, <1>9, <1>10, BothFlows

LEMMA UpdateStep ==
    ASSUME KeysInv, NEW e \in QkEnds, QkKeyUpdate(e)
    PROVE  KeysInv'
<1> PICK x \in EndStates : x = qkend[e]
  BY FlowsHold
<1> PICK y \in EndStates : y = qkend[QkPeer(e)]
  BY FlowsHold
<1> PICK z : z = [x EXCEPT !.send = x.send + 1, !.count = 0, !.pending = TRUE]
  OBVIOUS
<1>1. x.send + 1 \in Nat
  BY FieldTypes
<1>2. /\ z \in EndStates /\ z.send = x.send + 1 /\ z.recv = x.recv /\ z.pending = TRUE
      /\ z.next = x.next /\ z.largest = x.largest /\ z.missed = x.missed
  BY <1>1 DEF EndStates
<1>3. qkend' = [qkend EXCEPT ![e] = z] /\ qknet' = qknet /\ ~x.pending /\ x.count >= QkThreshold
  BY DEF QkKeyUpdate, MayUpdate
<1>4. /\ FlowKept(x, y, {p \in qknet : p.to = e}) /\ FlowKept(y, x, {p \in qknet : p.to = QkPeer(e)})
      /\ qknet \in SUBSET QkPacket /\ IsFiniteSet(qknet)
  BY FlowsHold
<1>5. FlowKept(z, y, {p \in qknet : p.to = e})
  BY <1>2, <1>4, ReceiverSame
<1>6. FlowKept(y, z, {p \in qknet : p.to = QkPeer(e)})
  BY <1>2, <1>3, <1>4, UpdateFlow
<1> QED BY <1>2, <1>3, <1>4, <1>5, <1>6, BothFlows

LEMMA LoseStep ==
    ASSUME KeysInv, NEW p \in qknet, Lose1(p)
    PROVE  KeysInv'
<1>1. p \in QkPacket /\ p.to \in QkEnds
  BY DEF KeysInv, KeyTypes, QkPacket
<1> PICK e \in QkEnds : e = p.to
  BY <1>1
<1> PICK x \in EndStates : x = qkend[e]
  BY FlowsHold
<1> PICK y \in EndStates : y = qkend[QkPeer(e)]
  BY FlowsHold
<1>m. PICK m : m = IF p.key = x.recv + 1 THEN x.missed + 1 ELSE x.missed
  OBVIOUS
<1>z. PICK z : z = [x EXCEPT !.missed = m]
  OBVIOUS
<1>2. m \in Nat
  BY <1>m, FieldTypes
<1>3. /\ z \in EndStates /\ z.send = x.send /\ z.recv = x.recv /\ z.pending = x.pending /\ z.count = x.count
      /\ z.next = x.next /\ z.largest = x.largest /\ z.missed = m
  BY <1>2, <1>z DEF EndStates
<1>4. qkend' = [qkend EXCEPT ![e] = z] /\ qknet' = qknet \ {p}
  BY <1>m, <1>z DEF Lose1
<1>5. /\ FlowKept(x, y, {q \in qknet : q.to = e}) /\ FlowKept(y, x, {q \in qknet : q.to = QkPeer(e)})
      /\ qknet \in SUBSET QkPacket /\ IsFiniteSet(qknet)
  BY FlowsHold
<1>6. /\ {q \in qknet \ {p} : q.to = e} = {q \in qknet : q.to = e} \ {p}
      /\ {q \in qknet \ {p} : q.to = QkPeer(e)} = {q \in qknet : q.to = QkPeer(e)}
      /\ p \in {q \in qknet : q.to = e}
  BY BothEnds, ZenonT(60)
<1>7. FlowKept(y, z, {q \in qknet : q.to = QkPeer(e)})
  BY <1>3, <1>5 DEF FlowKept, NumbersFit, KeysFit, PacketsCounted
<1>8. FlowKept(z, y, {q \in qknet : q.to = e} \ {p})
  <2> DEFINE P == {q \in qknet : q.to = e}
  <2>1. FlowKept(x, y, P) /\ p \in P
    BY <1>5, <1>6
  <2> HIDE DEF P
  <2>2. FlowKept(z, y, P \ {p})
    BY <1>m, <1>3, <2>1, LoseFlow
  <2> QED BY <2>2 DEF P
<1>9. qknet \ {p} \in SUBSET QkPacket /\ IsFiniteSet(qknet \ {p})
  BY <1>5, FS_Subset
<1>10. /\ FlowKept(z, qkend[QkPeer(e)], {q \in qknet \ {p} : q.to = e})
       /\ FlowKept(qkend[QkPeer(e)], z, {q \in qknet \ {p} : q.to = QkPeer(e)})
  BY <1>6, <1>7, <1>8
<1> QED BY <1>3, <1>4, <1>9, <1>10, BothFlows

LEMMA LargerOfTwo ==
    ASSUME NEW a \in Int, NEW b \in Int
    PROVE  Max({a, b}) \in {a, b} /\ Max({a, b}) \in Int
<1>1. \E m \in {a, b} : \A c \in {a, b} : m >= c
  <2>1. CASE a >= b
    BY <2>1
  <2>2. CASE b >= a
    BY <2>2
  <2> QED BY <2>1, <2>2
<1>2. Max({a, b}) \in {a, b}
  BY <1>1 DEF Max
<1> QED BY <1>2

LEMMA ReceiveStep ==
    ASSUME KeysInv, NEW p \in qknet, Receive1(p)
    PROVE  KeysInv'
<1>1. p \in QkPacket /\ p.to \in QkEnds /\ p.key \in Nat /\ p.pn \in Nat
  BY DEF KeysInv, KeyTypes, QkPacket
<1> PICK e \in QkEnds : e = p.to
  BY <1>1
<1> PICK x \in EndStates : x = qkend[e]
  BY FlowsHold
<1> PICK y \in EndStates : y = qkend[QkPeer(e)]
  BY FlowsHold
<1> DEFINE P == {q \in qknet : q.to = e}
           Q == {q \in qknet : q.to = QkPeer(e)}
           N == qknet \ {p}
<1>2. FlowKept(x, y, P) /\ FlowKept(y, x, Q) /\ qknet \in SUBSET QkPacket /\ IsFiniteSet(qknet)
  BY FlowsHold
<1>3. N \in SUBSET QkPacket /\ IsFiniteSet(N) /\ qknet' = N
  BY <1>2, FS_Subset DEF Receive1
<1>4. {q \in N : q.to = e} = P \ {p} /\ {q \in N : q.to = QkPeer(e)} = Q /\ p \in P
  BY BothEnds
<1>5. ASSUME NEW z \in EndStates, qkend' = [qkend EXCEPT ![e] = z],
             FlowKept(z, y, P \ {p}), FlowKept(y, z, Q)
      PROVE  KeysInv'
  <2>1. /\ FlowKept(z, qkend[QkPeer(e)], {q \in N : q.to = e})
        /\ FlowKept(qkend[QkPeer(e)], z, {q \in N : q.to = QkPeer(e)})
    BY <1>4, <1>5
  <2> HIDE DEF N
  <2> QED BY <1>3, <1>5, <2>1, BothFlows
<1>6. x.send \in Nat /\ x.recv \in Nat /\ x.pending \in BOOLEAN /\ x.largest \in Int /\ y.send \in Nat /\ x.count \in Nat
  BY FieldTypes
<1>7. /\ Max({x.largest, p.pn}) \in {x.largest, p.pn} /\ Max({x.largest, p.pn}) \in Int
  BY <1>1, <1>6, LargerOfTwo
<1> HIDE DEF P, Q, N
<1>8. CASE ~OpensPacket(e, p)
  <2>1. p.key # x.recv + 1
    BY <1>8, NextKeyOpens
  <2>2. FlowKept(x, y, P \ {p})
    BY <1>2, <1>4, <2>1, TakeFlow
  <2>3. qkend' = [qkend EXCEPT ![e] = x]
    BY <1>8 DEF Receive1, KeysInv, KeyTypes
  <2> QED BY <1>2, <1>5, <2>2, <2>3
<1>9. CASE OpensPacket(e, p) /\ p.key # x.recv + 1
  <2>1. p.key = x.recv
    BY <1>1, <1>6, <1>9 DEF OpensPacket, KeyTried
  <2>z. PICK z : z = [x EXCEPT !.largest = Max({x.largest, p.pn})]
    OBVIOUS
  <2>2. /\ z \in EndStates /\ z.recv = x.recv /\ z.largest = Max({x.largest, p.pn})
        /\ z.send = x.send /\ z.pending = x.pending /\ z.count = x.count /\ z.next = x.next /\ z.missed = x.missed
    BY <1>7, <2>z DEF EndStates
  <2>3. qkend' = [qkend EXCEPT ![e] = z]
    <3>1. [x EXCEPT !.recv = p.key, !.send = x.send, !.pending = x.pending /\ TRUE, !.count = x.count,
                    !.missed = x.missed, !.largest = Max({x.largest, p.pn})] = z
      BY <1>6, <2>1, <2>z DEF EndStates
    <3>2. qkend' = [qkend EXCEPT ![e] = [x EXCEPT !.recv = p.key, !.send = x.send, !.pending = x.pending /\ TRUE,
                                                  !.count = x.count, !.missed = x.missed,
                                                  !.largest = Max({x.largest, p.pn})]]
      BY <1>9 DEF Receive1
    <3> QED BY <3>1, <3>2
  <2>4. FlowKept(z, y, P \ {p})
    <3>1. z.largest = x.largest \/ (p.key = x.recv /\ z.largest \in {x.largest, p.pn})
      BY <1>7, <2>1, <2>2
    <3> QED BY <1>2, <1>4, <1>9, <2>2, <3>1, TakeFlow
  <2>5. FlowKept(y, z, Q)
    BY <1>2, <2>2 DEF FlowKept, NumbersFit, KeysFit, PacketsCounted
  <2> QED BY <1>5, <2>2, <2>3, <2>4, <2>5
<1>10. CASE OpensPacket(e, p) /\ p.key = x.recv + 1
  <2>1. KeysFit(x, y) /\ KeysFit(y, x) /\ p.key <= y.send
    BY <1>2, <1>4 DEF FlowKept, NumbersFit
  <2>2. (x.pending /\ x.send = x.recv + 1) \/ (~x.pending /\ x.send = x.recv)
    BY <1>6, <2>1 DEF KeysFit
  <2> PICK z : z = [x EXCEPT !.recv = p.key, !.send = x.recv + 1, !.pending = FALSE, !.count = 0,
                             !.missed = 0, !.largest = Max({x.largest, p.pn})]
    OBVIOUS
  <2>3. /\ z \in EndStates /\ z.recv = p.key /\ z.send = x.recv + 1 /\ z.pending = FALSE /\ z.count = 0
        /\ z.largest = Max({x.largest, p.pn}) /\ z.next = x.next
    <3> PICK m \in Int : m = Max({x.largest, p.pn})
      BY <1>7
    <3>1. x.recv + 1 \in Nat
      BY <1>6
    <3> QED BY <1>1, <3>1 DEF EndStates
  <2>4. (IF x.send % 2 # p.key % 2 THEN x.send + 1 ELSE x.send) = x.recv + 1
    BY <1>6, <1>10, <2>2
  <2>5. (x.recv + 1) % 2 = p.key % 2
    BY <1>10
  <2>6. qkend' = [qkend EXCEPT ![e] = z]
    <3> DEFINE send == IF x.send % 2 # p.key % 2 THEN x.send + 1 ELSE x.send
    <3>1. qkend' = [qkend EXCEPT ![e] = [x EXCEPT !.recv = p.key, !.send = send,
                                                  !.pending = @ /\ ~(send % 2 = p.key % 2),
                                                  !.count = 0, !.missed = 0, !.largest = Max({@, p.pn})]]
      BY <1>10 DEF Receive1
    <3>2. send = x.recv + 1
      BY <2>4
    <3> HIDE DEF send
    <3>3. (x.pending /\ ~(send % 2 = p.key % 2)) = FALSE
      BY <2>5, <3>2
    <3>4. [x EXCEPT !.recv = p.key, !.send = send, !.pending = x.pending /\ ~(send % 2 = p.key % 2),
                    !.count = 0, !.missed = 0, !.largest = Max({x.largest, p.pn})] = z
      BY <3>2, <3>3
    <3> QED BY <3>1, <3>4
  <2>7. FlowKept(z, y, P \ {p})
    BY <1>2, <1>4, <1>7, <1>10, <2>1, <2>3, FreshFlow
  <2>8. FlowKept(y, z, Q)
    <3>1. z.recv = x.recv + 1 /\ x.recv + 1 <= y.send
      BY <1>10, <2>1, <2>3
    <3> QED BY <1>2, <2>1, <2>3, <3>1, FollowFlow, ZenonT(60)
  <2> QED BY <1>5, <2>3, <2>6, <2>7, <2>8
<1> QED BY <1>8, <1>9, <1>10

\* 1-RTT packet protection (decode_pn, open, maybe_key_update): for every window, update
\* threshold and start, whatever is reordered or lost and while an end is less than half
\* a window of numbers behind: an end is locked out of its peer's keys only when every
\* packet of a whole generation was lost, an update's worth of them at least, and every
\* packet of the current or the next generation within reach is opened.
THEOREM PacketsStayOpen == QkSpec => []PacketsOpen
<1>1. KeysInv /\ [QkNext]_qkvars => KeysInv'
  <2> SUFFICES ASSUME KeysInv, [QkNext]_qkvars PROVE KeysInv'
    OBVIOUS
  <2>1. CASE QkNext
    BY <2>1, SealStep, UpdateStep, ReceiveStep, LoseStep DEF QkNext
  <2>2. CASE UNCHANGED qkvars
    BY <2>2 DEF qkvars, KeysInv, KeyTypes, Toward
  <2> QED BY <2>1, <2>2
<1> QED BY <1>1, KeysStart, KeysEnough, PTL DEF QkSpec

-----------------------------------------------------------------------------
(***************************************************************************)
(* EndpointKept for every number of addresses, ids, datagrams, moves and   *)
(* restarts.  It is inductive together with IdsDrawn: every id that a      *)
(* connection, the client or a datagram names was drawn before the next    *)
(* one, and a connection a stateless reset speaks of is gone.  As ids are  *)
(* fresh, it cannot come back.                                             *)
(***************************************************************************)
Shapes ==
  /\ DOMAIN qcs = {"conns", "routes", "boot", "next"} /\ qcs.next \in Nat \ {0}
  /\ DOMAIN qcc = {"st", "dcid", "remote", "token", "retried", "addr", "reset"}
  /\ \A x \in qcs.conns : DOMAIN x = {"cid", "init", "odcid", "addr", "st", "proof"}

Drawn(id) == id \in Nat /\ id < qcs.next

MsgDrawn(m) ==
  /\ m.kind \in {"Data", "Finished"} => Drawn(m.dcid)
  /\ m.kind = "Retry" => Drawn(m.rdcid)
  /\ m.kind = "Flight" => Drawn(m.cid)
  /\ m.kind = "Reset" => Drawn(m.reset.cid) /\ \A x \in qcs.conns : x.cid # m.reset.cid

IdsDrawn ==
  /\ \A x \in qcs.conns : Drawn(x.cid)
  /\ Drawn(qcc.remote) /\ (qcc.st = "done" => qcc.reset.cid = qcc.remote)
  /\ \A m \in qcnet : MsgDrawn(m)

EndpointInv == Shapes /\ IdsDrawn /\ EndpointKept

\* What the table says of an id: the connections that use it.
LEMMA TargetsExact ==
  ASSUME RoutesExact, NEW id
  PROVE  \A c : c \in Targets(id) <=> \E x \in qcs.conns : x.cid = c /\ (x.cid = id \/ x.init = id)
<1>1. \A a, b : <<a, b>> \in qcs.routes <=> \E x \in qcs.conns : x.cid = b /\ (x.cid = a \/ x.init = a)
  BY DEF RoutesExact, RoutesOf
<1>2. \A t \in qcs.routes : \E x \in qcs.conns : t = <<x.cid, x.cid>> \/ t = <<x.init, x.cid>>
  BY DEF RoutesExact, RoutesOf
<1>3. \A c : c \in Targets(id) => <<id, c>> \in qcs.routes
  BY <1>2 DEF Targets
<1>4. \A c : <<id, c>> \in qcs.routes => c \in Targets(id)
  BY DEF Targets
<1> QED BY <1>1, <1>3, <1>4

LEMMA TargetConn ==
  ASSUME RoutesExact, NEW id, NEW c \in Targets(id)
  PROVE  Conn(c) \in qcs.conns /\ Conn(c).cid = c
<1>1. \E x \in qcs.conns : x.cid = c
  BY TargetsExact
<1> QED BY <1>1 DEF Conn

\* A step of the client, or of the environment, that leaves the server alone.
LEMMA ClientSide ==
  ASSUME EndpointInv, qcs' = qcs,
         DOMAIN qcc' = DOMAIN qcc, Drawn(qcc'.remote),
         qcc'.st = "done" => qcc'.reset.cid = qcc'.remote,
         qcc'.st = "reset" => \A x \in qcs.conns : x.cid # qcc'.remote,
         \A m \in qcnet' : m \in qcnet \/ MsgDrawn(m)
  PROVE  EndpointInv'
<1>1. Shapes'
  BY DEF EndpointInv, Shapes
<1>2. \A m \in qcnet' : MsgDrawn(m)'
  BY DEF EndpointInv, IdsDrawn, MsgDrawn, Drawn
<1>3. IdsDrawn'
  BY <1>2 DEF EndpointInv, IdsDrawn, Drawn
<1>4. EndpointKept'
  BY DEF EndpointInv, EndpointKept, RoutesExact, AddressProven, ResetDeserved
<1> QED BY <1>1, <1>3, <1>4 DEF EndpointInv

LEMMA QuietServer ==
  ASSUME EndpointInv, qcs' = qcs, qcc' = qcc,
         \A m \in qcnet' : m \in qcnet \/ MsgDrawn(m)
  PROVE  EndpointInv'
<1>1. /\ DOMAIN qcc' = DOMAIN qcc /\ Drawn(qcc'.remote)
      /\ qcc'.st = "done" => qcc'.reset.cid = qcc'.remote
      /\ qcc'.st = "reset" => \A x \in qcs.conns : x.cid # qcc'.remote
  BY DEF EndpointInv, IdsDrawn, EndpointKept, ResetDeserved
<1> QED BY <1>1, ClientSide

\* What the server still has was there before, up to its state; it may have drawn an id
\* for a Retry.
Same(x, y) ==
  /\ y.cid = x.cid /\ y.init = x.init /\ y.addr = x.addr /\ y.proof = x.proof
  /\ DOMAIN y = DOMAIN x

LEMMA ServerSide ==
  ASSUME EndpointInv, qcc' = qcc,
         DOMAIN qcs' = DOMAIN qcs, qcs'.next \in {qcs.next, qcs.next + 1},
         \A y \in qcs'.conns : \E x \in qcs.conns : Same(x, y),
         RoutesExact',
         \A m \in qcnet' : m \in qcnet \/ MsgDrawn(m)'
  PROVE  EndpointInv'
<1>1. Shapes'
  BY DEF EndpointInv, Shapes, Same
<1>2. \A id : Drawn(id) => Drawn(id)'
  BY DEF EndpointInv, Shapes, Drawn
<1>3. \A y \in qcs'.conns : \E x \in qcs.conns : y.cid = x.cid
  BY DEF Same
<1>4. \A m \in qcnet : MsgDrawn(m)'
  BY <1>2, <1>3 DEF EndpointInv, IdsDrawn, MsgDrawn
<1>5. IdsDrawn'
  BY <1>2, <1>3, <1>4 DEF EndpointInv, IdsDrawn
<1>6. AddressProven' /\ ResetDeserved'
  BY DEF EndpointInv, EndpointKept, AddressProven, ResetDeserved, Same
<1> QED BY <1>1, <1>5, <1>6 DEF EndpointInv, EndpointKept

\* A connection is removed, with both of its routes and nobody else's.
LEMMA Removal ==
  ASSUME EndpointInv, NEW x \in qcs.conns, qcs' = Without1(x), qcc' = qcc,
         \A m \in qcnet' : m \in qcnet \/ m.kind = "Close"
  PROVE  EndpointInv'
<1>1. /\ DOMAIN qcs' = DOMAIN qcs /\ qcs'.next = qcs.next /\ qcs'.conns = qcs.conns \ {x}
      /\ qcs'.routes = {t \in qcs.routes : t[2] # x.cid}
  BY DEF Without1, EndpointInv, Shapes
<1>2. RoutesExact
  BY DEF EndpointInv, EndpointKept
<1>3. \A y \in qcs.conns : \A t \in RoutesOf(y) : t[2] = y.cid
  BY DEF RoutesOf
<1>4. \A y \in qcs.conns \ {x} : y.cid # x.cid
  BY <1>2 DEF RoutesExact
<1>5. qcs'.routes = UNION {RoutesOf(y) : y \in qcs'.conns}
  <2>1. \A t \in qcs.routes : t[2] # x.cid => \E y \in qcs.conns \ {x} : t \in RoutesOf(y)
    BY <1>2, <1>3 DEF RoutesExact
  <2>2. \A y \in qcs.conns \ {x} : \A t \in RoutesOf(y) : t \in qcs.routes /\ t[2] # x.cid
    BY <1>2, <1>3, <1>4 DEF RoutesExact
  <2> QED BY <1>1, <2>1, <2>2
<1>6. RoutesExact'
  BY <1>1, <1>2, <1>5 DEF RoutesExact, RoutesOf
<1>7. \A m \in qcnet' : m \in qcnet \/ MsgDrawn(m)'
  BY DEF MsgDrawn
<1>8. \A y \in qcs'.conns : \E z \in qcs.conns : Same(z, y)
  BY <1>1 DEF Same
<1> QED BY <1>1, <1>6, <1>7, <1>8, ServerSide

\* A client whose token is good gets a connection under a fresh id.
LEMMA Acceptance ==
  ASSUME EndpointInv, NEW m \in qcnet, Accept1(m), qcc' = qcc
  PROVE  EndpointInv'
<1> PICK x : x = [cid |-> qcs.next, init |-> m.dcid, odcid |-> m.token.odcid, addr |-> m.addr, st |-> "half",
                  proof |-> m.token.addr]
  OBVIOUS
<1> PICK fl : fl = Flight(x)
  OBVIOUS
<1>1. /\ Targets(m.dcid) = {} /\ QcValidate(m) /\ QcConsume(m, {fl})
      /\ qcs' = [qcs EXCEPT !.conns = @ \cup {x}, !.routes = @ \cup RoutesOf(x), !.next = @ + 1]
  BY DEF Accept1
<1>2. /\ DOMAIN qcs = {"conns", "routes", "boot", "next"} /\ qcs.next \in Nat
      /\ DOMAIN x = {"cid", "init", "odcid", "addr", "st", "proof"}
      /\ x.cid = qcs.next /\ x.init = m.dcid /\ x.addr = x.proof
      /\ fl.kind = "Flight" /\ fl.cid = qcs.next
  BY <1>1 DEF EndpointInv, Shapes, QcValidate, Flight
<1>3. /\ DOMAIN qcs' = DOMAIN qcs /\ qcs'.next = qcs.next + 1
      /\ qcs'.conns = qcs.conns \cup {x} /\ qcs'.routes = qcs.routes \cup RoutesOf(x)
  BY <1>1, <1>2
<1>4. Shapes'
  BY <1>2, <1>3 DEF EndpointInv, Shapes
<1>5. (\A id : Drawn(id) => Drawn(id)' /\ id # x.cid) /\ Drawn(x.cid)'
  BY <1>2, <1>3 DEF Drawn
<1>6. \A n \in qcnet : MsgDrawn(n)'
  <2> SUFFICES ASSUME NEW n \in qcnet PROVE MsgDrawn(n)'
    OBVIOUS
  <2>1. MsgDrawn(n)
    BY DEF EndpointInv, IdsDrawn
  <2> QED BY <1>3, <1>5, <2>1 DEF MsgDrawn
<1>7. MsgDrawn(fl)'
  BY <1>2, <1>5 DEF MsgDrawn
<1>8. qcnet' \subseteq qcnet \cup {fl}
  BY <1>1 DEF QcConsume
<1>9. IdsDrawn'
  BY <1>3, <1>5, <1>6, <1>7, <1>8 DEF EndpointInv, IdsDrawn
<1>10. RoutesExact
  BY DEF EndpointInv, EndpointKept
<1>11. \A y \in qcs.conns : y.cid # x.cid /\ y.init # x.init
  <2>1. \A y \in qcs.conns : y.init # m.dcid
    BY <1>1, <1>10, TargetsExact
  <2> QED BY <1>2, <1>5, <2>1 DEF EndpointInv, IdsDrawn
<1>12. RoutesExact'
  <2>1. qcs'.routes = UNION {RoutesOf(y) : y \in qcs'.conns}
    BY <1>3, <1>10 DEF RoutesExact
  <2>2. \A y, z \in qcs'.conns : y # z => y.cid # z.cid /\ y.init # z.init
    BY <1>3, <1>10, <1>11 DEF RoutesExact
  <2> QED BY <2>1, <2>2 DEF RoutesExact, RoutesOf
<1>13. AddressProven' /\ ResetDeserved'
  BY <1>2, <1>3, <1>5 DEF EndpointInv, EndpointKept, AddressProven, ResetDeserved, IdsDrawn
<1> QED BY <1>4, <1>9, <1>12, <1>13 DEF EndpointInv, EndpointKept

\* A datagram for a connection the server has.
LEMMA RoutedStep ==
  ASSUME EndpointInv, NEW m \in qcnet, Routed(m), qcc' = qcc
  PROVE  EndpointInv'
<1>1. RoutesExact
  BY DEF EndpointInv, EndpointKept
<1>2. PICK x \in {Conn(c) : c \in Targets(m.dcid)} :
        \/ m.kind = "Initial" /\ QcConsume(m, {Flight(x)}) /\ UNCHANGED qcs
        \/ /\ m.kind = "Finished" /\ QcConsume(m, {})
           /\ qcs' = [qcs EXCEPT !.conns = (@ \ {x}) \cup {[x EXCEPT !.st = "up"]}]
        \/ m.kind = "Data" /\ x.st = "up" /\ QcConsume(m, {}) /\ UNCHANGED qcs
        \/ m.kind = "Data" /\ x.st = "half" /\ QcConsume(m, {QcClose(x)}) /\ qcs' = Without1(x)
  BY DEF Routed
<1>3. x \in qcs.conns
  BY <1>1, TargetConn
<1>4. CASE m.kind = "Initial" /\ QcConsume(m, {Flight(x)}) /\ UNCHANGED qcs
  <2>1. MsgDrawn(Flight(x))
    BY <1>3 DEF EndpointInv, IdsDrawn, MsgDrawn, Flight
  <2>2. \A n \in qcnet' : n \in qcnet \/ MsgDrawn(n)
    BY <1>4, <2>1 DEF QcConsume
  <2> QED BY <1>4, <2>1, <2>2, QuietServer
<1>5. CASE m.kind = "Finished" /\ QcConsume(m, {})
           /\ qcs' = [qcs EXCEPT !.conns = (@ \ {x}) \cup {[x EXCEPT !.st = "up"]}]
  <2>1. /\ DOMAIN qcs' = DOMAIN qcs /\ qcs'.next = qcs.next /\ qcs'.routes = qcs.routes
        /\ qcs'.conns = (qcs.conns \ {x}) \cup {[x EXCEPT !.st = "up"]}
    BY <1>5 DEF EndpointInv, Shapes
  <2>2. Same(x, [x EXCEPT !.st = "up"])
    BY <1>3 DEF EndpointInv, Shapes, Same
  <2> PICK z : z = [x EXCEPT !.st = "up"]
    OBVIOUS
  <2>3. Same(x, z) /\ qcs'.conns = (qcs.conns \ {x}) \cup {z} /\ RoutesOf(z) = RoutesOf(x)
    BY <2>1, <2>2 DEF Same, RoutesOf
  <2>4. qcs'.routes = UNION {RoutesOf(y) : y \in qcs'.conns}
    BY <1>1, <1>3, <2>1, <2>3 DEF RoutesExact
  <2>5. \A u, v \in qcs'.conns : u # v => u.cid # v.cid /\ u.init # v.init
    <3>1. \A u, v \in qcs.conns : u # v => u.cid # v.cid /\ u.init # v.init
      BY <1>1 DEF RoutesExact
    <3>2. z.cid = x.cid /\ z.init = x.init
      BY <2>3 DEF Same
    <3> QED BY <1>3, <2>3, <3>1, <3>2
  <2> RoutesExact'
    BY <2>4, <2>5 DEF RoutesExact, RoutesOf
  <2>6. \A y \in qcs'.conns : \E w \in qcs.conns : Same(w, y)
    BY <1>3, <2>3 DEF Same
  <2>7. qcnet' \subseteq qcnet
    BY <1>5 DEF QcConsume
  <2> QED BY <2>1, <2>6, <2>7, ServerSide
<1>6. CASE m.kind = "Data" /\ x.st = "up" /\ QcConsume(m, {}) /\ UNCHANGED qcs
  <2>1. qcnet' \subseteq qcnet
    BY <1>6 DEF QcConsume
  <2> QED BY <1>6, <2>1, QuietServer
<1>7. CASE m.kind = "Data" /\ x.st = "half" /\ QcConsume(m, {QcClose(x)}) /\ qcs' = Without1(x)
  <2>1. \A n \in qcnet' : n \in qcnet \/ n.kind = "Close"
    BY <1>7 DEF QcConsume, QcClose
  <2> QED BY <1>3, <1>7, <2>1, Removal
<1> QED BY <1>2, <1>4, <1>5, <1>6, <1>7

\* A datagram for a connection the server does not have.
LEMMA UnroutedStep ==
  ASSUME EndpointInv, NEW m \in qcnet, Unrouted(m) \/ QcRetry(m) \/ Drop(m), qcc' = qcc
  PROVE  EndpointInv'
<1>1. RoutesExact /\ MsgDrawn(m)
  BY DEF EndpointInv, EndpointKept, IdsDrawn
<1>2. CASE m.kind = "Data" /\ Unrouted(m)
  <2> PICK n : n = [kind |-> "Reset", reset |-> [cid |-> m.dcid, boot |-> qcs.boot]]
    OBVIOUS
  <2>1. Targets(m.dcid) = {} /\ QcConsume(m, {n}) /\ qcs' = qcs
    BY <1>2 DEF Unrouted
  <2>2. \A x \in qcs.conns : x.cid # m.dcid
    BY <1>1, <2>1, TargetsExact
  <2>3. MsgDrawn(n)
    BY <1>1, <1>2, <2>2 DEF MsgDrawn
  <2>4. qcnet' \subseteq qcnet \cup {n}
    BY <2>1 DEF QcConsume
  <2> QED BY <2>1, <2>3, <2>4, QuietServer
<1>3. CASE QcConsume(m, {}) /\ UNCHANGED qcs
  <2>1. qcnet' \subseteq qcnet
    BY <1>3 DEF QcConsume
  <2> QED BY <1>3, <2>1, QuietServer
<1>4. CASE QcRetry(m)
  <2> PICK token : token = [none |-> FALSE, addr |-> m.addr, odcid |-> m.dcid, rdcid |-> qcs.next, time |-> qcnow.time, boot |-> qcs.boot]
    OBVIOUS
  <2> PICK n : n = [kind |-> "Retry", odcid |-> m.dcid, rdcid |-> qcs.next, token |-> token]
    OBVIOUS
  <2>1. QcConsume(m, {n}) /\ qcs' = [qcs EXCEPT !.next = @ + 1]
    BY <1>4 DEF QcRetry
  <2>2. /\ DOMAIN qcs' = DOMAIN qcs /\ qcs'.next = qcs.next + 1 /\ qcs.next \in Nat
        /\ qcs'.conns = qcs.conns /\ qcs'.routes = qcs.routes
    BY <2>1 DEF EndpointInv, Shapes
  <2>3. RoutesExact'
    BY <1>1, <2>2 DEF RoutesExact, RoutesOf
  <2>4. MsgDrawn(n)'
    BY <2>2 DEF MsgDrawn, Drawn
  <2>5. qcnet' \subseteq qcnet \cup {n}
    BY <2>1 DEF QcConsume
  <2>6. \A y \in qcs'.conns : \E x \in qcs.conns : Same(x, y)
    BY <2>2 DEF Same
  <2> QED BY <2>2, <2>3, <2>4, <2>5, <2>6, ServerSide
<1> QED BY <1>2, <1>3, <1>4 DEF Unrouted, Drop

\* The steps of the client.
LEMMA ClientStep ==
  ASSUME EndpointInv,
         SendInitial \/ SendData \/ SendFinished \/ ClientReceives \/ ClientEnds
  PROVE  EndpointInv'
<1>1. /\ DOMAIN qcc = {"st", "dcid", "remote", "token", "retried", "addr", "reset"}
      /\ Drawn(qcc.remote) /\ (qcc.st = "done" => qcc.reset.cid = qcc.remote)
      /\ qcc.st = "reset" => \A x \in qcs.conns : x.cid # qcc.remote
  BY DEF EndpointInv, Shapes, IdsDrawn, EndpointKept, ResetDeserved
<1>2. CASE SendInitial
  <2> PICK n : n = [kind |-> "Initial", dcid |-> qcc.dcid, token |-> qcc.token, addr |-> qcc.addr]
    OBVIOUS
  <2>1. qcnet' \subseteq qcnet \cup {n} /\ MsgDrawn(n) /\ qcs' = qcs /\ qcc' = qcc
    BY <1>2 DEF SendInitial, Transmit, MsgDrawn
  <2> QED BY <2>1, QuietServer
<1>3. CASE SendData \/ SendFinished
  <2> PICK k \in {"Data", "Finished"} : Transmit({[kind |-> k, dcid |-> qcc.remote, addr |-> qcc.addr]})
    BY <1>3 DEF SendData, SendFinished
  <2> PICK n : n = [kind |-> k, dcid |-> qcc.remote, addr |-> qcc.addr]
    OBVIOUS
  <2>1. qcnet' \subseteq qcnet \cup {n} /\ MsgDrawn(n) /\ qcs' = qcs /\ qcc' = qcc
    BY <1>1, <1>3 DEF SendData, SendFinished, Transmit, MsgDrawn
  <2> QED BY <2>1, QuietServer
<1>4. CASE ClientReceives
  <2>1. PICK m \in qcnet : OnRetry(m) \/ OnFlight(m) \/ OnReset(m) \/ OnClose(m)
    BY <1>4 DEF ClientReceives
  <2>2. MsgDrawn(m) /\ qcs' = qcs /\ qcnet' \subseteq qcnet
    BY <2>1 DEF EndpointInv, IdsDrawn, OnRetry, OnFlight, OnReset, OnClose, QcConsume
  <2>3. /\ DOMAIN qcc' = DOMAIN qcc /\ Drawn(qcc'.remote)
        /\ qcc'.st = "done" => qcc'.reset.cid = qcc'.remote
        /\ qcc'.st = "reset" => \A x \in qcs.conns : x.cid # qcc'.remote
    <3>1. CASE qcc' = qcc
      BY <1>1, <3>1
    <3>2. CASE OnRetry(m) /\ qcc' # qcc
      BY <1>1, <2>2, <3>2 DEF OnRetry, MsgDrawn
    <3>3. CASE OnFlight(m) /\ qcc' # qcc
      BY <1>1, <2>2, <3>3 DEF OnFlight, MsgDrawn
    <3>4. CASE OnReset(m) /\ qcc' # qcc
      BY <1>1, <2>2, <3>4 DEF OnReset, MsgDrawn
    <3>5. CASE OnClose(m) /\ qcc' # qcc
      BY <1>1, <2>2, <3>5 DEF OnClose
    <3> QED BY <2>1, <3>1, <3>2, <3>3, <3>4, <3>5
  <2> QED BY <2>2, <2>3, ClientSide
<1>5. CASE ClientEnds
  <2>1. qcs' = qcs /\ qcnet' = qcnet /\ qcc' = [qcc EXCEPT !.st = "failed"]
    BY <1>5 DEF ClientEnds
  <2>2. /\ DOMAIN qcc' = DOMAIN qcc /\ Drawn(qcc'.remote) /\ qcc'.st = "failed" /\ qcnet' \subseteq qcnet
    BY <1>1, <2>1
  <2> QED BY <2>1, <2>2, ClientSide
<1> QED BY <1>2, <1>3, <1>4, <1>5

\* Losses, moves, time and restarts.
LEMMA EnvironmentStep ==
  ASSUME EndpointInv, Restart \/ Move \/ TimePasses \/ LoseDatagram
  PROVE  EndpointInv'
<1>1. /\ DOMAIN qcc = {"st", "dcid", "remote", "token", "retried", "addr", "reset"}
      /\ Drawn(qcc.remote) /\ (qcc.st = "done" => qcc.reset.cid = qcc.remote)
      /\ qcc.st = "reset" => \A x \in qcs.conns : x.cid # qcc.remote
  BY DEF EndpointInv, Shapes, IdsDrawn, EndpointKept, ResetDeserved
<1>2. CASE Restart
  <2>1. /\ DOMAIN qcs' = DOMAIN qcs /\ qcs'.next \in {qcs.next, qcs.next + 1} /\ qcs'.conns = {} /\ qcs'.routes = {}
        /\ qcc' = qcc /\ qcnet' \subseteq qcnet
    BY <1>2 DEF Restart, EndpointInv, Shapes
  <2>2. RoutesExact'
    BY <2>1 DEF RoutesExact
  <2> QED BY <2>1, <2>2, ServerSide
<1>3. CASE Move
  <2>1. PICK a \in QcAddrs : qcc' = [qcc EXCEPT !.addr = a]
    BY <1>3 DEF Move
  <2>2. /\ DOMAIN qcc' = DOMAIN qcc /\ qcc'.remote = qcc.remote /\ qcc'.st = qcc.st /\ qcc'.reset = qcc.reset
        /\ qcs' = qcs /\ qcnet' \subseteq qcnet
    BY <1>1, <1>3, <2>1 DEF Move
  <2> QED BY <1>1, <2>2, ClientSide
<1>4. CASE TimePasses \/ LoseDatagram
  <2>1. qcs' = qcs /\ qcc' = qcc /\ qcnet' \subseteq qcnet
    BY <1>4 DEF TimePasses, LoseDatagram
  <2> QED BY <2>1, QuietServer
<1> QED BY <1>2, <1>3, <1>4

\* However datagrams are repeated, lost and reordered, clients move and servers restart,
\* handle_server_datagram() keeps its two tables in agreement, holds state for proven
\* addresses only, and no client believes a stateless reset of a connection that lives.
THEOREM EndpointStaysKept == QcSpec => []EndpointKept
<1>1. QcInit => EndpointInv
  BY DEF QcInit, EndpointInv, Shapes, IdsDrawn, Drawn, EndpointKept, RoutesExact, AddressProven, ResetDeserved
<1>2. EndpointInv /\ [QcNext]_qcvars => EndpointInv'
  <2> SUFFICES ASSUME EndpointInv, [QcNext]_qcvars PROVE EndpointInv'
    OBVIOUS
  <2>1. CASE ServerReceives
    <3>1. PICK m \in qcnet : Routed(m) \/ Unrouted(m) \/ QcRetry(m) \/ Accept1(m) \/ Drop(m)
      BY <2>1 DEF ServerReceives
    <3>2. qcc' = qcc
      BY <2>1 DEF ServerReceives
    <3> QED BY <3>1, <3>2, RoutedStep, UnroutedStep, Acceptance
  <2>2. CASE ServerTimeouts
    <3>1. PICK x \in qcs.conns : ServerTimeout(x)
      BY <2>2 DEF ServerTimeouts
    <3>2. qcc' = qcc /\ qcs' = Without1(x) /\ \A n \in qcnet' : n \in qcnet \/ n.kind = "Close"
      BY <3>1 DEF ServerTimeout, Transmit, QcClose
    <3> QED BY <3>2, Removal
  <2>3. CASE UNCHANGED qcvars
    <3>1. qcs' = qcs /\ qcc' = qcc /\ qcnet' \subseteq qcnet
      BY <2>3 DEF qcvars
    <3> QED BY <3>1, QuietServer
  <2> QED BY <2>1, <2>2, <2>3, ClientStep, EnvironmentStep DEF QcNext
<1>3. EndpointInv => EndpointKept
  BY DEF EndpointInv
<1> QED BY <1>1, <1>2, <1>3, PTL DEF QcSpec

-----------------------------------------------------------------------------
(***************************************************************************)
(* NamesHonoured, for every chain, root store and host name.  It is about  *)
(* one call of the verifier, so its invariant is little more than that an  *)
(* accepted chain has passed; the work is in the labels: a wildcard hides  *)
(* the first one only, and whether a name is below a subtree with fewer    *)
(* labels does not depend on it.                                           *)
(***************************************************************************)
\* The first element decides only about ends as long as the rest.
LEMMA EndOfTail ==
    ASSUME NEW S, NEW n \in Seq(S), n # <<>>, NEW d \in Seq(S)
    PROVE  /\ Tail(n) \in Seq(S) /\ Len(Tail(n)) = Len(n) - 1
           /\ (Len(n) > Len(d) /\ SubSeq(n, Len(n) - Len(d) + 1, Len(n)) = d)
              <=> \/ Tail(n) = d
                  \/ Len(Tail(n)) > Len(d) /\ SubSeq(Tail(n), Len(Tail(n)) - Len(d) + 1, Len(Tail(n))) = d
<1>1. PICK a \in Nat, b \in Nat : a = Len(n) /\ b = Len(d)
  OBVIOUS
<1>2. PICK t \in Seq(S) : t = Tail(n)
  <2>1. Tail(n) \in Seq(S)
    OBVIOUS
  <2> QED BY <2>1
<1>3. PICK e \in Nat : e = a - 1
  BY <1>1
<1>4. a >= 1 /\ Len(t) = e /\ \A i \in 1..e : t[i] = n[i + 1]
  BY <1>1, <1>2, <1>3
<1>5. ASSUME NEW q \in Seq(S), NEW m \in Nat, m = Len(q), m > b
      PROVE  SubSeq(q, m - b + 1, m) = d <=> \A i \in 1..b : q[m - b + i] = d[i]
  <2>1. PICK l \in Nat : l = m - b + 1 /\ l >= 1 /\ l <= m + 1
    <3>1. m - b + 1 \in Nat /\ m - b + 1 >= 1 /\ m - b + 1 <= m + 1
      BY <1>5
    <3> QED BY <3>1, Zenon
  <2>2. PICK s : s = SubSeq(q, l, m)
    OBVIOUS
  <2>3. s \in Seq(S) /\ Len(s) = m - l + 1
    BY <1>5, <2>1, <2>2
  <2>4. Len(s) = b
    BY <2>1, <2>3
  <2>5. \A i \in 1..(m - l + 1) : s[i] = q[l + i - 1]
    <3>1. l >= 1 /\ l <= m + 1 /\ l \in Nat /\ m \in Nat /\ q \in Seq(S) /\ Len(q) = m
      BY <1>5, <2>1
    <3> QED BY ONLY <2>2, <3>1
  <2>6. \A i \in 1..b : i \in 1..(m - l + 1) /\ l + i - 1 = m - b + i
    BY <2>1
  <2>7. \A i \in 1..b : s[i] = q[m - b + i]
    BY <2>5, <2>6
  <2>8. s = d <=> \A i \in 1..b : s[i] = d[i]
    <3>1. s \in Seq(S) /\ d \in Seq(S) /\ Len(s) = b /\ Len(d) = b
      BY <1>1, <2>3, <2>4
    <3> QED BY ONLY <3>1, b \in Nat
  <2> QED BY <2>1, <2>2, <2>7, <2>8
<1>6. /\ a > b => (SubSeq(n, a - b + 1, a) = d <=> \A i \in 1..b : n[a - b + i] = d[i])
      /\ e > b => (SubSeq(t, e - b + 1, e) = d <=> \A i \in 1..b : t[e - b + i] = d[i])
  BY <1>1, <1>4, <1>5
<1>7. t = d <=> e = b /\ \A i \in 1..b : t[i] = d[i]
  BY <1>1, <1>4
<1>8. ASSUME a > b PROVE \A i \in 1..b : t[e - b + i] = n[a - b + i]
  <2> SUFFICES ASSUME NEW i \in 1..b PROVE t[e - b + i] = n[a - b + i]
    OBVIOUS
  <2>1. e - b + i \in 1..e /\ (e - b + i) + 1 = a - b + i
    BY <1>3, <1>8
  <2> QED BY <1>4, <2>1
<1>9. (a > b /\ SubSeq(n, a - b + 1, a) = d) <=> t = d \/ (e > b /\ SubSeq(t, e - b + 1, e) = d)
  <2>1. CASE e = b
    <3>1. \A i \in 1..b : e - b + i = i
      BY <2>1
    <3>2. a > b /\ ~(e > b)
      BY <1>3, <2>1
    <3>3. \A i \in 1..b : t[i] = n[a - b + i]
      BY <1>8, <3>1, <3>2
    <3> QED BY <1>6, <1>7, <2>1, <3>2, <3>3
  <2>2. CASE e > b
    <3>1. a > b /\ e # b
      BY <1>3, <2>2
    <3> QED BY <1>6, <1>7, <1>8, <2>2, <3>1
  <2>3. CASE e < b
    <3>1. ~(a > b) /\ e # b /\ ~(e > b)
      BY <1>3, <2>3
    <3> QED BY <1>7, <3>1
  <2> QED BY <2>1, <2>2, <2>3
<1> QED BY <1>1, <1>2, <1>3, <1>4, <1>9

LEMMA BelowTail ==
    ASSUME NEW n \in Seq(STRING), n # <<>>, NEW c, c.n \in Seq(STRING)
    PROVE  Below(n, c) <=> Tail(n) = c.n \/ Below(Tail(n), c)
  BY EndOfTail DEF Below

\* A name that matches a pattern is the pattern, or differs from it in the first label.
LEMMA MatchesTail ==
    ASSUME NEW n \in Seq(STRING), NEW p \in Seq(STRING), DnsMatch(n, p)
    PROVE  n = p \/ (Wild(p) /\ n # <<>> /\ p # <<>> /\ Tail(n) = Tail(p) /\ Len(n) = Len(p))
<1>1. Wild(p) => p # <<>>
  BY DEF Wild
<1>2. Wild(p) /\ Len(n) = Len(p) => n # <<>>
  BY DEF Wild
<1> QED BY <1>1, <1>2 DEF DnsMatch

\* What an excluded subtree does not hit, it does not hold, whatever the wildcard.
LEMMA ExcludedOut ==
    ASSUME NEW n \in Seq(STRING), NEW p \in Seq(STRING), DnsMatch(n, p),
           NEW c, c.n \in Seq(STRING), ~ConstraintHits(p, c, TRUE)
    PROVE  ~In(n, c)
<1>1. c.n # <<>>
  BY DEF ConstraintHits
<1>2. CASE ~Wild(p)
  <2>1. n = p
    BY <1>2 DEF DnsMatch
  <2>2. IF c.dot THEN ~Below(p, c) ELSE ~(p = c.n \/ Below(p, c))
    BY <1>1, <1>2 DEF ConstraintHits
  <2> QED BY <1>1, <2>1, <2>2 DEF In
<1>3. CASE Wild(p)
  <2>1. n # <<>> /\ p # <<>> /\ Tail(n) = Tail(p) /\ Len(n) = Len(p)
    <3>1. p # <<>>
      BY <1>3 DEF Wild
    <3> QED BY <3>1, MatchesTail
  <2>2. /\ ~(~c.dot /\ Tail(p) = c.n) /\ ~Below(Tail(p), c)
        /\ ~(~c.dot /\ Len(c.n) = Len(p) /\ Tail(c.n) = Tail(p)) /\ ~(c.dot /\ Tail(p) = c.n)
    BY <1>1, <1>3 DEF ConstraintHits, ExcludedBelow, ExcludedOneLabel
  <2>3. ~Below(n, c)
    BY <2>1, <2>2, BelowTail
  <2>4. ~c.dot => n # c.n
    BY <2>1, <2>2
  <2> QED BY <1>1, <2>3, <2>4 DEF In
<1> QED BY <1>2, <1>3

\* What a permitted subtree hits, it holds: no label of it is a wildcard.
LEMMA PermittedIn ==
    ASSUME NEW n \in Seq(STRING), NEW p \in Seq(STRING), DnsMatch(n, p),
           NEW c, c.n \in Seq(STRING), ~Contains(c.n, "*"), ConstraintHits(p, c, FALSE)
    PROVE  In(n, c)
<1>1. c.n = <<>> \/ Below(p, c) \/ (~c.dot /\ p = c.n)
  BY DEF ConstraintHits
<1>2. CASE n = p
  BY <1>1, <1>2 DEF In
<1>3. CASE n # p
  <2>1. Wild(p) /\ n # <<>> /\ p # <<>> /\ Tail(n) = Tail(p) /\ Len(n) = Len(p)
    BY <1>3, MatchesTail
  <2>2. p # c.n
    <3>1. Contains(p, "*")
      BY <2>1 DEF Contains, Wild
    <3> QED BY <3>1
  <2>3. Below(p, c) => Below(n, c)
    BY <2>1, BelowTail
  <2> QED BY <1>1, <2>2, <2>3 DEF In
<1> QED BY <1>2, <1>3

\* validate_chain() with hostname_matches(), as one judgement.
LEMMA AcceptedHonoured ==
    ASSUME NEW chain \in X5Chains, NEW roots, NEW name \in X5Names,
           HostnameMatches(name, chain[1].names), ValidateChain(chain, roots)
    PROVE  /\ \A i \in 2..Len(chain) :
                ~(i = Len(chain) /\ Anchored(chain, roots)) =>
                   /\ \A c \in chain[i].nc.excluded : ~In(name, c)
                   /\ chain[i].nc.permitted # {} => \E c \in chain[i].nc.permitted : In(name, c)
           /\ \E r \in roots : r = Last(chain) \/ SignedBy(Last(chain), r)
<1>1. PICK n \in Nat : n = Len(chain) /\ n > 0
  BY X5Assumption DEF ValidateChain
<1>2. 1 \in 1..n /\ \A i \in 2..n : i \in 1..n /\ 1 \in 1..(i - 1)
  BY <1>1
<1>3. PICK p \in chain[1].names : DnsMatch(name, p)
  BY DEF HostnameMatches
<1>4. name \in Seq(STRING) /\ p \in Seq(STRING)
  BY <1>1, <1>2, <1>3, X5Assumption
<1>5. ASSUME NEW i \in 2..n, ~(i = n /\ Anchored(chain, roots))
      PROVE  /\ \A c \in chain[i].nc.excluded : ~In(name, c)
             /\ chain[i].nc.permitted # {} => \E c \in chain[i].nc.permitted : In(name, c)
  <2>1. /\ \A c \in chain[i].nc.permitted \union chain[i].nc.excluded : c.n \in Seq(STRING)
        /\ \A c \in chain[i].nc.permitted : ~Contains(c.n, "*")
    BY <1>1, <1>2, X5Assumption
  <2>2. chain[i].nc.permitted \union chain[i].nc.excluded # {} => Permits(chain[i].nc, chain[1].names)
    BY <1>1, <1>2, <1>5 DEF ValidateChain, Subordinates
  <2>3. ASSUME NEW c \in chain[i].nc.excluded PROVE ~In(name, c)
    <3>1. ~ConstraintHits(p, c, TRUE)
      BY <1>3, <2>2 DEF Permits
    <3> QED BY <1>3, <1>4, <2>1, <3>1, ExcludedOut
  <2>4. ASSUME chain[i].nc.permitted # {} PROVE \E c \in chain[i].nc.permitted : In(name, c)
    <3>1. PICK c \in chain[i].nc.permitted : ConstraintHits(p, c, FALSE)
      BY <1>3, <2>2, <2>4 DEF Permits
    <3> QED BY <1>3, <1>4, <2>1, <3>1, PermittedIn
  <2> QED BY <2>3, <2>4
<1>6. \E r \in roots : r = Last(chain) \/ SignedBy(Last(chain), r)
  BY DEF ValidateChain, Anchored, RootSigns
<1> QED BY <1>1, <1>5, <1>6

VerifierTypes == x5 \in [chain : X5Chains, roots : X5Roots, name : X5Names, res : {"none", "accepted", "refused"}]

\* For every chain, root store and host name: what validate_chain() and
\* hostname_matches() accept honours the name constraints of every CA above the leaf,
\* whatever wildcard the leaf hides the name behind, and rests on a trusted root.
THEOREM NamesStayHonoured == X5Spec => []NamesHonoured
<1>1. X5Init => VerifierTypes /\ NamesHonoured
  <2> SUFFICES ASSUME X5Init PROVE VerifierTypes /\ NamesHonoured
    OBVIOUS
  <2>1. VerifierTypes /\ x5.res = "none"
    BY DEF X5Init, VerifierTypes
  <2> QED BY <2>1 DEF NamesHonoured
<1>2. VerifierTypes /\ NamesHonoured /\ [X5Next]_x5vars => (VerifierTypes /\ NamesHonoured)'
  <2> SUFFICES ASSUME VerifierTypes, NamesHonoured, [X5Next]_x5vars PROVE (VerifierTypes /\ NamesHonoured)'
    OBVIOUS
  <2>1. CASE UNCHANGED x5vars
    BY <2>1 DEF x5vars, VerifierTypes, NamesHonoured
  <2>2. CASE XValidate
    <3>1. PICK ch \in X5Chains, ro \in X5Roots, na \in X5Names : ch = x5.chain /\ ro = x5.roots /\ na = x5.name
      BY DEF VerifierTypes
    <3>2. PICK res \in {"accepted", "refused"} :
            /\ x5' = [x5 EXCEPT !.res = res]
            /\ res = "accepted" => HostnameMatches(na, ch[1].names) /\ ValidateChain(ch, ro)
      BY <2>2, <3>1 DEF XValidate
    <3>3. x5'.chain = ch /\ x5'.roots = ro /\ x5'.name = na /\ x5'.res = res /\ VerifierTypes'
      BY <3>1, <3>2 DEF VerifierTypes
    <3>4. NamesHonoured'
      BY <3>2, <3>3, AcceptedHonoured DEF NamesHonoured
    <3> QED BY <3>3, <3>4
  <2> QED BY <2>1, <2>2 DEF X5Next
<1> QED BY <1>1, <1>2, PTL DEF X5Spec

-----------------------------------------------------------------------------
(***************************************************************************)
(* StreamKept, for any number of writes, requests and records and every    *)
(* limit on the use of a key.  Its strengthening follows the pieces on     *)
(* their way: each is the one that comes after the piece before it, the    *)
(* first continues what the reader has, and what the last leaves behind is *)
(* where the writer stands, unless the transport was cut.                  *)
(***************************************************************************)
Recs == [gen : Nat, seq : Nat, kind : {"data", "ku0", "ku1", "close"}, n : Nat, asks : Nat]
PieceSet == [r : Recs, i : 1..4]
Places == [gen : Nat, seq : Nat, data : Nat, asks : Nat]

\* Where a reader and a writer stand in the stream, and where a record leaves them.
ReadPlace(rd) == [gen |-> rd.gen, seq |-> rd.seq, data |-> rd.data, asks |-> rd.asked]
WritePlace(w) == [gen |-> w.gen, seq |-> w.seq, data |-> w.sent, asks |-> w.asks]
Fits(r, at) ==
    /\ r.gen = at.gen /\ r.seq = at.seq
    /\ r.n = IF r.kind = "data" THEN at.data + 1 ELSE at.data
    /\ r.asks = IF r.kind = "ku1" THEN at.asks + 1 ELSE at.asks
After(r) ==
    IF r.kind \in {"ku0", "ku1"} THEN [gen |-> r.gen + 1, seq |-> 0, data |-> r.n, asks |-> r.asks]
    ELSE [gen |-> r.gen, seq |-> r.seq + 1, data |-> r.n, asks |-> r.asks]

\* Piece x comes after h pieces of record r, or is the first of the record that fits.
Links(x, h, r, at) == IF h = 0 THEN x.i = 1 /\ Fits(x.r, at) ELSE x.i = h + 1 /\ x.r = r

Chain(q, h, r, at) ==
    /\ q # <<>> => Links(q[1], h, r, at)
    /\ \A j \in 1..(Len(q) - 1) : Links(q[j + 1], q[j].i % 4, q[j].r, After(q[j].r))
Reaches(q, h, at, to) ==
    IF q = <<>> THEN h = 0 /\ at = to ELSE q[Len(q)].i = 4 /\ After(q[Len(q)].r) = to

\* How much of a record the reader has, and of which.
HasRead(rd) == CASE rd.rec = "idle" -> 0 [] rd.rec = "header" -> 1 [] rd.rec = "payload" -> 2 + Len(rd.got)
Reading(rd) == IF rd.rec = "header" THEN rd.got[1].r ELSE rd.head

Writers == [gen : Nat, seq : Nat, records : Nat, pending : BOOLEAN, out : Seq(PieceSet), sent : Nat, writes : Nat,
            asks : Nat, updates : Nat, budget : Nat, last : Nat \X Int, twice : BOOLEAN]
Readers == [gen : Nat, seq : Nat, rec : {"idle", "header", "payload"}, got : Seq(PieceSet), head : Recs \union {NoRecord},
            data : Nat, asked : Nat, closed : BOOLEAN, eof : {"", "notify", "error", "clean"}, bad : BOOLEAN]

TrTypes ==
    /\ trVer \in {12, 13} /\ trCut \in BOOLEAN
    /\ trW \in [Ends -> Writers] /\ trR \in [Ends -> Readers] /\ trWire \in [Ends -> Seq(PieceSet)]

\* A record on its way to a reader: requests are counted, and nothing follows a close.
Promised(r, w, over) == r.asks <= w.asks /\ (r.kind = "close" => over /\ r.n = w.sent)

ReaderShape(rd) ==
    /\ rd.rec = "idle" => rd.got = <<>>
    /\ rd.rec = "header" => Len(rd.got) = 1 /\ rd.got[1].i = 1
    /\ rd.rec = "payload" => Len(rd.got) <= 1 /\ rd.head \in Recs
    /\ rd.bad = FALSE
    /\ rd.rec # "idle" => Fits(Reading(rd), ReadPlace(rd))

\* What reader rd may expect of pieces q, of writer w at the other end, which is over or not.
Directed(q, rd, w, over, cut) ==
    /\ ReaderShape(rd)
    /\ Chain(q, HasRead(rd), Reading(rd), ReadPlace(rd))
    /\ ~cut => Reaches(q, HasRead(rd), ReadPlace(rd), WritePlace(w))
    /\ rd.rec # "idle" => Promised(Reading(rd), w, over)
    /\ \A j \in 1..Len(q) : Promised(q[j].r, w, over)
    /\ rd.asked <= w.asks
    /\ rd.eof = "notify" => rd.closed /\ over /\ rd.data = w.sent

\* A writer has used no number twice, and updates for a reason.
WriterKept(w, asked) ==
    /\ w.out = <<>> /\ w.twice = FALSE /\ Fresh(w)
    /\ w.updates + (IF w.pending THEN 1 ELSE 0) <= w.asks + w.budget + asked

TrInv ==
    /\ TrTypes
    /\ \A e \in Ends : Directed(trWire[e], trR[e], trW[Peer(e)], trR[Peer(e)].closed, trCut)
    /\ \A e \in Ends : WriterKept(trW[e], trR[e].asked)

LEMMA AfterTypes == \A r \in Recs : After(r) \in Places
  BY DEF Recs, Places, After

LEMMA PieceFacts == \A x \in PieceSet : x.r \in Recs /\ x.i \in 1..4
  BY DEF PieceSet

\* The pieces of a record, on their own.
LEMMA PiecesFit ==
    ASSUME NEW r \in Recs, NEW at, NEW s, Fits(r, at)
    PROVE  /\ Pieces(r) \in Seq(PieceSet) /\ Len(Pieces(r)) = 4 /\ \A j \in 1..4 : Pieces(r)[j].r = r
           /\ Chain(Pieces(r), 0, s, at) /\ Reaches(Pieces(r), 0, at, After(r))
<1>1. PICK p : p = Pieces(r)
  OBVIOUS
<1>2. p = <<Piece(r, 1), Piece(r, 2), Piece(r, 3), Piece(r, 4)>>
  BY <1>1 DEF Pieces
<1>3. \A i \in 1..4 : Piece(r, i) \in PieceSet /\ Piece(r, i).r = r /\ Piece(r, i).i = i
  BY DEF PieceSet, Piece
<1>4. p \in Seq(PieceSet) /\ Len(p) = 4 /\ \A i \in 1..4 : p[i].r = r /\ p[i].i = i
  <2>1. Piece(r, 1) \in PieceSet /\ Piece(r, 2) \in PieceSet /\ Piece(r, 3) \in PieceSet /\ Piece(r, 4) \in PieceSet
    BY <1>3
  <2>2. p \in Seq(PieceSet) /\ Len(p) = 4
    BY <1>2, <2>1
  <2>3. \A i \in 1..4 : i = 1 \/ i = 2 \/ i = 3 \/ i = 4
    OBVIOUS
  <2>4. \A i \in 1..4 : p[i] = Piece(r, i)
    BY <1>2, <2>3
  <2> QED BY <1>3, <2>2, <2>4
<1>5. p # <<>> /\ Links(p[1], 0, s, at)
  <2>1. 1 \in 1..4
    OBVIOUS
  <2>2. Len(p) = 4 /\ Len(<<>>) = 0
    BY <1>4
  <2>3. p # <<>>
    BY <2>2
  <2> QED BY <1>4, <2>1, <2>3 DEF Links
<1>6. ASSUME NEW j \in 1..3 PROVE Links(p[j + 1], p[j].i % 4, p[j].r, After(p[j].r))
  <2>1. j \in 1..4 /\ j + 1 \in 1..4 /\ j % 4 = j /\ j # 0
    OBVIOUS
  <2> QED BY <1>4, <2>1 DEF Links
<1>7. Chain(p, 0, s, at)
  <2>1. Len(p) - 1 = 3
    BY <1>4
  <2> QED BY <1>5, <1>6, <2>1 DEF Chain
<1>8. Reaches(p, 0, at, After(r))
  BY <1>4, <1>5 DEF Reaches
<1> QED BY <1>1, <1>4, <1>7, <1>8

\* One stretch of the stream after another.
LEMMA Joined ==
    ASSUME NEW q \in Seq(PieceSet), NEW o \in Seq(PieceSet), NEW h, NEW r, NEW s, NEW at, NEW mid, NEW to,
           Chain(q, h, r, at), Reaches(q, h, at, mid), Chain(o, 0, s, mid), Reaches(o, 0, mid, to)
    PROVE  /\ q \o o \in Seq(PieceSet) /\ Len(q \o o) = Len(q) + Len(o)
           /\ \A j \in 1..Len(q \o o) : IF j <= Len(q) THEN (q \o o)[j] = q[j]
                                        ELSE j - Len(q) \in 1..Len(o) /\ (q \o o)[j] = o[j - Len(q)]
           /\ Chain(q \o o, h, r, at) /\ Reaches(q \o o, h, at, to)
<1>1. PICK a \in Nat, b \in Nat : a = Len(q) /\ b = Len(o)
  OBVIOUS
<1>2. PICK f : f = q \o o
  OBVIOUS
<1>3. f \in Seq(PieceSet) /\ Len(f) = a + b
  BY <1>1, <1>2
<1>4. \A j \in 1..(a + b) : IF j <= a THEN f[j] = q[j] ELSE j - a \in 1..b /\ f[j] = o[j - a]
  BY <1>1, <1>2
<1>5. /\ q = <<>> <=> a = 0
      /\ o = <<>> <=> b = 0
      /\ f = <<>> <=> a + b = 0
  BY <1>1, <1>3
<1>6. CASE b = 0
  <2>1. f = q
    BY <1>1, <1>2, <1>5, <1>6
  <2>2. mid = to
    BY <1>5, <1>6 DEF Reaches
  <2> QED BY <1>1, <1>2, <1>3, <1>4, <2>1, <2>2
<1>7. CASE b # 0 /\ a = 0
  <2>1. f = o
    BY <1>1, <1>2, <1>5, <1>7
  <2>2. h = 0 /\ at = mid
    BY <1>5, <1>7 DEF Reaches
  <2>3. Chain(f, h, r, at)
    BY <2>1, <2>2 DEF Chain, Links
  <2>4. Reaches(f, h, at, to)
    BY <2>1, <2>2
  <2> QED BY <1>1, <1>2, <1>3, <1>4, <2>3, <2>4
<1>8. CASE b # 0 /\ a # 0
  <2>1. q[a].i = 4 /\ After(q[a].r) = mid /\ o[b].i = 4 /\ After(o[b].r) = to
    BY <1>1, <1>5, <1>8 DEF Reaches
  <2>2. Links(q[1], h, r, at) /\ Links(o[1], 0, s, mid)
    BY <1>5, <1>8 DEF Chain
  <2>3. f # <<>> /\ f[1] = q[1] /\ f[a + b] = o[b]
    <3>1. 1 \in 1..(a + b) /\ 1 <= a /\ a + b \in 1..(a + b) /\ ~(a + b <= a) /\ (a + b) - a = b
      BY <1>8
    <3> QED BY <1>4, <1>5, <1>8, <3>1
  <2>4. ASSUME NEW j \in 1..(a + b - 1) PROVE Links(f[j + 1], f[j].i % 4, f[j].r, After(f[j].r))
    <3>1. CASE j < a
      <4>1. j \in 1..(a - 1) /\ j \in 1..(a + b) /\ j + 1 \in 1..(a + b) /\ j <= a /\ j + 1 <= a
        BY <3>1
      <4>2. f[j] = q[j] /\ f[j + 1] = q[j + 1]
        BY <1>4, <4>1
      <4> QED BY <1>1, <4>1, <4>2 DEF Chain
    <3>2. CASE j = a
      <4>1. j \in 1..(a + b) /\ j + 1 \in 1..(a + b) /\ j <= a /\ ~(j + 1 <= a) /\ (j + 1) - a = 1
        BY <3>2
      <4>2. f[j] = q[a] /\ f[j + 1] = o[1]
        BY <1>4, <3>2, <4>1
      <4>3. 4 % 4 = 0
        OBVIOUS
      <4>4. o[1].i = 1 /\ Fits(o[1].r, mid)
        BY <2>2 DEF Links
      <4> QED BY <2>1, <4>2, <4>3, <4>4 DEF Links
    <3>3. CASE j > a
      <4>1. PICK k \in 1..(b - 1) : k = j - a
        BY <3>3
      <4>2. j \in 1..(a + b) /\ j + 1 \in 1..(a + b) /\ ~(j <= a) /\ ~(j + 1 <= a) /\ (j + 1) - a = k + 1
        BY <3>3, <4>1
      <4>3. f[j] = o[k] /\ f[j + 1] = o[k + 1]
        BY <1>4, <4>1, <4>2
      <4> QED BY <1>1, <4>1, <4>3 DEF Chain
    <3> QED BY <3>1, <3>2, <3>3
  <2>5. Chain(f, h, r, at)
    BY <1>3, <2>2, <2>3, <2>4 DEF Chain
  <2>6. Reaches(f, h, at, to)
    BY <1>3, <2>1, <2>3 DEF Reaches
  <2> QED BY <1>1, <1>2, <1>3, <1>4, <2>5, <2>6
<1> QED BY <1>6, <1>7, <1>8

\* The reader takes the first piece.
LEMMA OneRead ==
    ASSUME NEW q \in Seq(PieceSet), q # <<>>, NEW h, NEW r, NEW at, Chain(q, h, r, at)
    PROVE  LET x == q[1]
               from == IF x.i = 4 THEN After(x.r) ELSE at IN
           /\ x \in PieceSet /\ Links(x, h, r, at)
           /\ Tail(q) \in Seq(PieceSet) /\ Len(Tail(q)) = Len(q) - 1
           /\ \A j \in 1..(Len(q) - 1) : Tail(q)[j] = q[j + 1]
           /\ Fits(x.r, at) => Chain(Tail(q), x.i % 4, x.r, from)
           /\ \A to : Reaches(q, h, at, to) => Reaches(Tail(q), x.i % 4, from, to)
<1>1. PICK a \in Nat : a = Len(q)
  OBVIOUS
<1>2. PICK t \in Seq(PieceSet) : t = Tail(q)
  <2>1. Tail(q) \in Seq(PieceSet)
    OBVIOUS
  <2> QED BY <2>1
<1>3. a >= 1 /\ Len(t) = a - 1 /\ \A j \in 1..(a - 1) : t[j] = q[j + 1]
  BY <1>1, <1>2
<1>4. t = <<>> <=> a = 1
  BY <1>3
<1>5. PICK x \in PieceSet : x = q[1]
  <2>1. 1 \in 1..a
    BY <1>3
  <2>2. q[1] \in PieceSet
    BY <1>1, <2>1
  <2> QED BY <2>2
<1>6. PICK from : from = IF x.i = 4 THEN After(x.r) ELSE at
  OBVIOUS
<1>7. x.i \in 1..4
  BY PieceFacts
<1>8. Links(x, h, r, at)
  BY <1>5 DEF Chain
<1>9. \A j \in 1..(a - 1) : Links(q[j + 1], q[j].i % 4, q[j].r, After(q[j].r))
  BY <1>1 DEF Chain
<1>10. Chain(t, x.i % 4, x.r, from)
  <2>1. ASSUME t # <<>> PROVE Links(t[1], x.i % 4, x.r, from)
    <3>1. 1 \in 1..(a - 1) /\ t[1] = q[1 + 1]
      BY <1>3, <1>4, <2>1
    <3>2. Links(t[1], x.i % 4, x.r, After(x.r))
      BY <1>5, <1>9, <3>1
    <3>3. x.i % 4 = 0 <=> x.i = 4
      BY <1>7
    <3> QED BY <1>6, <3>2, <3>3 DEF Links
  <2>2. ASSUME NEW j \in 1..(a - 1 - 1) PROVE Links(t[j + 1], t[j].i % 4, t[j].r, After(t[j].r))
    <3>1. j \in 1..(a - 1) /\ j + 1 \in 1..(a - 1)
      BY <1>3
    <3>2. t[j] = q[j + 1] /\ t[j + 1] = q[(j + 1) + 1]
      BY <1>3, <3>1
    <3> QED BY <1>9, <3>1, <3>2
  <2> QED BY <1>3, <2>1, <2>2 DEF Chain
<1>11. ASSUME NEW to, Reaches(q, h, at, to) PROVE Reaches(t, x.i % 4, from, to)
  <2>1. q[a].i = 4 /\ After(q[a].r) = to
    BY <1>1, <1>11 DEF Reaches
  <2>2. CASE a = 1
    <3>1. x.i = 4 /\ from = to /\ 4 % 4 = 0
      BY <1>5, <1>6, <2>1, <2>2
    <3> QED BY <1>4, <2>2, <3>1 DEF Reaches
  <2>3. CASE a # 1
    <3>1. a - 1 \in 1..(a - 1) /\ (a - 1) + 1 = a
      BY <1>3, <2>3
    <3>2. t[a - 1] = q[a] /\ Len(t) = a - 1 /\ t # <<>>
      BY <1>3, <1>4, <2>3, <3>1
    <3> QED BY <2>1, <3>2 DEF Reaches
  <2> QED BY <2>2, <2>3
<1> QED BY <1>1, <1>2, <1>3, <1>5, <1>6, <1>8, <1>10, <1>11

\* A writer at work: v is what w0 has become, v.out what it has yet to flush.
Growing(v, w0, asked, over) ==
    /\ v \in Writers /\ v.twice = FALSE /\ Fresh(v) /\ w0.asks <= v.asks
    /\ v.updates + (IF v.pending THEN 1 ELSE 0) <= v.asks + v.budget + asked
    /\ Chain(v.out, 0, NoRecord, WritePlace(w0)) /\ Reaches(v.out, 0, WritePlace(w0), WritePlace(v))
    /\ \A j \in 1..Len(v.out) : Promised(v.out[j].r, v, over)

LEMMA WriterFacts ==
    ASSUME NEW w \in Writers
    PROVE  /\ w.gen \in Nat /\ w.seq \in Nat /\ w.records \in Nat /\ w.pending \in BOOLEAN /\ w.out \in Seq(PieceSet)
           /\ w.sent \in Nat /\ w.writes \in Nat /\ w.asks \in Nat /\ w.updates \in Nat /\ w.budget \in Nat
           /\ w.last \in Nat \X Int /\ w.twice \in BOOLEAN
  BY DEF Writers

\* One more record.
LEMMA SealGrows ==
    ASSUME NEW w, NEW w0, NEW asked, Growing(w, w0, asked, FALSE), w0.asks \in Nat,
           NEW r \in Recs, Fits(r, WritePlace(w)), NEW v \in Writers, NEW over \in BOOLEAN,
           v.out = w.out \o Pieces(r), WritePlace(v) = After(r), w.asks <= v.asks,
           v.twice = FALSE, Fresh(v), v.updates + (IF v.pending THEN 1 ELSE 0) <= v.asks + v.budget + asked,
           Promised(r, v, over)
    PROVE  Growing(v, w0, asked, over)
<1>1. w \in Writers /\ w.out \in Seq(PieceSet) /\ w.asks \in Nat /\ v.asks \in Nat
  BY WriterFacts DEF Growing
<1>2. /\ Pieces(r) \in Seq(PieceSet) /\ Len(Pieces(r)) = 4 /\ \A j \in 1..4 : Pieces(r)[j].r = r
      /\ Chain(Pieces(r), 0, NoRecord, WritePlace(w)) /\ Reaches(Pieces(r), 0, WritePlace(w), After(r))
  BY PiecesFit
<1>3. Chain(w.out, 0, NoRecord, WritePlace(w0)) /\ Reaches(w.out, 0, WritePlace(w0), WritePlace(w))
  BY DEF Growing
<1>4. PICK q \in Seq(PieceSet), p \in Seq(PieceSet) : q = w.out /\ p = Pieces(r)
  BY <1>1, <1>2
<1>5. /\ Len(q \o p) = Len(q) + Len(p)
      /\ \A j \in 1..Len(q \o p) : IF j <= Len(q) THEN (q \o p)[j] = q[j]
                                   ELSE j - Len(q) \in 1..Len(p) /\ (q \o p)[j] = p[j - Len(q)]
      /\ Chain(q \o p, 0, NoRecord, WritePlace(w0)) /\ Reaches(q \o p, 0, WritePlace(w0), After(r))
  BY <1>2, <1>3, <1>4, Joined
<1>6. v.out = q \o p
  BY <1>4
<1>7. ASSUME NEW j \in 1..Len(v.out) PROVE Promised(v.out[j].r, v, over)
  <2>1. CASE j <= Len(q)
    <3>1. j \in 1..Len(q) /\ v.out[j] = q[j]
      BY <1>5, <1>6, <2>1
    <3>2. Promised(q[j].r, w, FALSE)
      BY <1>4, <3>1 DEF Growing
    <3>3. q[j].r.asks \in Nat
      BY <3>1, PieceFacts DEF Recs
    <3> QED BY <1>1, <3>1, <3>2, <3>3 DEF Promised
  <2>2. CASE ~(j <= Len(q))
    <3>1. j - Len(q) \in 1..4 /\ v.out[j] = p[j - Len(q)]
      BY <1>2, <1>4, <1>5, <1>6, <2>2
    <3> QED BY <1>2, <1>4, <3>1
  <2> QED BY <2>1, <2>2
<1>8. w0.asks <= v.asks
  BY <1>1 DEF Growing
<1> QED BY <1>5, <1>6, <1>7, <1>8 DEF Growing

\* Seal(), field by field: any number may be the next of a fresh writer.
LEMMA Sealed ==
    ASSUME NEW w \in Writers, Fresh(w), w.twice = FALSE, NEW kind \in {"data", "ku0", "ku1", "close"}, NEW n \in Nat
    PROVE  LET r == [gen |-> w.gen, seq |-> w.seq, kind |-> kind, n |-> n, asks |-> w.asks]
               v == Seal(w, kind, n) IN
           /\ r \in Recs /\ v \in Writers /\ v.out = w.out \o Pieces(r) /\ v.gen = w.gen /\ v.seq = w.seq + 1
           /\ v.last = <<w.gen, w.seq>> /\ v.twice = FALSE
           /\ v.records = w.records /\ v.pending = w.pending /\ v.sent = w.sent /\ v.writes = w.writes
           /\ v.asks = w.asks /\ v.updates = w.updates /\ v.budget = w.budget
<1>1. PICK r : r = [gen |-> w.gen, seq |-> w.seq, kind |-> kind, n |-> n, asks |-> w.asks]
  OBVIOUS
<1>2. r \in Recs
  BY <1>1, WriterFacts DEF Recs
<1>3. PICK o : o = w.out \o Pieces(r)
  OBVIOUS
<1>4. o \in Seq(PieceSet)
  <2>1. Piece(r, 1) \in PieceSet /\ Piece(r, 2) \in PieceSet /\ Piece(r, 3) \in PieceSet /\ Piece(r, 4) \in PieceSet
    BY <1>2 DEF Piece, PieceSet
  <2>2. Pieces(r) \in Seq(PieceSet)
    BY <2>1 DEF Pieces
  <2> QED BY <1>3, <2>2, WriterFacts
<1>5. PICK m \in Nat : m = w.seq + 1
  BY WriterFacts
<1>6. PICK l \in Nat \X Int : l = <<w.gen, w.seq>>
  <2>1. w.gen \in Nat /\ w.seq \in Int
    BY WriterFacts
  <2> QED BY <2>1
<1>7. Seal(w, kind, n) = [w EXCEPT !.seq = m, !.out = o, !.twice = FALSE, !.last = l]
  BY <1>1, <1>3, <1>5, <1>6 DEF Seal
<1>8. PICK v : v = [w EXCEPT !.seq = m, !.out = o, !.twice = FALSE, !.last = l]
  OBVIOUS
<1>9. v \in Writers
  BY <1>4, <1>8 DEF Writers
<1>10. /\ v.out = o /\ v.gen = w.gen /\ v.seq = m /\ v.last = l /\ v.twice = FALSE
       /\ v.records = w.records /\ v.pending = w.pending /\ v.sent = w.sent /\ v.writes = w.writes
       /\ v.asks = w.asks /\ v.updates = w.updates /\ v.budget = w.budget
  BY <1>8 DEF Writers
<1> QED BY <1>1, <1>2, <1>3, <1>5, <1>6, <1>7, <1>8, <1>9, <1>10

LEMMA DataGrows ==
    ASSUME NEW w, NEW w0, NEW asked, Growing(w, w0, asked, FALSE), w0.asks \in Nat
    PROVE  Growing(Data(w), w0, asked, FALSE)
<1>1. w \in Writers /\ Fresh(w) /\ w.twice = FALSE
  BY DEF Growing
<1>2. w.gen \in Nat /\ w.seq \in Nat /\ w.sent \in Nat /\ w.records \in Nat /\ w.asks \in Nat
  BY <1>1, WriterFacts
<1>3. PICK n \in Nat, k \in Nat : n = w.sent + 1 /\ k = w.records + 1
  BY <1>2
<1>4. PICK s : s = Seal(w, "data", n)
  OBVIOUS
<1>5. PICK r : r = [gen |-> w.gen, seq |-> w.seq, kind |-> "data", n |-> n, asks |-> w.asks]
  OBVIOUS
<1>6. /\ r \in Recs /\ s \in Writers /\ s.out = w.out \o Pieces(r) /\ s.gen = w.gen /\ s.seq = w.seq + 1
      /\ s.last = <<w.gen, w.seq>> /\ s.twice = FALSE
      /\ s.records = w.records /\ s.pending = w.pending /\ s.sent = w.sent /\ s.asks = w.asks
      /\ s.updates = w.updates /\ s.budget = w.budget
  BY <1>1, <1>4, <1>5, Sealed, ZenonT(60)
<1>7. PICK v : v = [s EXCEPT !.sent = n, !.records = k]
  OBVIOUS
<1>8. v = Data(w)
  BY <1>3, <1>4, <1>6, <1>7 DEF Data
<1>9. v \in Writers
  BY <1>6, <1>7 DEF Writers
<1>10. /\ v.out = s.out /\ v.gen = s.gen /\ v.seq = s.seq /\ v.last = s.last /\ v.twice = s.twice /\ v.sent = n
       /\ v.pending = s.pending /\ v.asks = s.asks /\ v.updates = s.updates /\ v.budget = s.budget
  BY <1>6, <1>7 DEF Writers
<1>11. Fresh(v)
  <2>1. v.gen = w.gen /\ v.seq = w.seq + 1 /\ v.last = <<w.gen, w.seq>>
    BY <1>6, <1>10
  <2>2. v.last[1] = w.gen /\ v.last[2] = w.seq
    BY <2>1
  <2> QED BY <1>2, <2>1, <2>2 DEF Fresh
<1>12. Fits(r, WritePlace(w))
  BY <1>3, <1>5 DEF Fits, WritePlace
<1>13. WritePlace(v) = After(r)
  BY <1>5, <1>6, <1>10 DEF WritePlace, After
<1>14. Promised(r, v, FALSE)
  BY <1>2, <1>5, <1>6, <1>10 DEF Promised
<1>15. w.asks <= v.asks /\ v.updates + (IF v.pending THEN 1 ELSE 0) <= v.asks + v.budget + asked
  BY <1>2, <1>6, <1>10 DEF Growing
<1> QED BY <1>6, <1>8, <1>9, <1>10, <1>11, <1>12, <1>13, <1>14, <1>15, SealGrows

\* A KeyUpdate, for whatever reason: u is w with the reason written down.
LEMMA UpdateGrows ==
    ASSUME NEW w, NEW w0, NEW asked \in Nat, Growing(w, w0, asked, FALSE), w0.asks \in Nat, NEW request \in BOOLEAN,
           NEW u \in Writers, u.out = w.out, u.gen = w.gen, u.seq = w.seq, u.last = w.last, u.twice = w.twice,
           u.sent = w.sent, u.updates = w.updates, u.asks = IF request THEN w.asks + 1 ELSE w.asks,
           u.updates + 1 + (IF u.pending THEN 1 ELSE 0) <= u.asks + u.budget + asked
    PROVE  Growing(KeyUpdate(u, request), w0, asked, FALSE)
<1>1. w \in Writers /\ Fresh(u) /\ u.twice = FALSE
  BY DEF Growing, Fresh
<1>2. u.gen \in Nat /\ u.seq \in Nat /\ u.sent \in Nat /\ u.updates \in Nat /\ u.asks \in Nat /\ w.asks \in Nat /\ u.budget \in Nat
  BY <1>1, WriterFacts
<1>3. PICK g \in Nat, m \in Nat : g = u.gen + 1 /\ m = u.updates + 1
  BY <1>2
<1>4. PICK kind \in {"ku0", "ku1"} : kind = IF request THEN "ku1" ELSE "ku0"
  OBVIOUS
<1>5. PICK s : s = Seal(u, kind, u.sent)
  OBVIOUS
<1>6. PICK r : r = [gen |-> u.gen, seq |-> u.seq, kind |-> kind, n |-> u.sent, asks |-> u.asks]
  OBVIOUS
<1>7. /\ r \in Recs /\ s \in Writers /\ s.out = u.out \o Pieces(r) /\ s.gen = u.gen /\ s.seq = u.seq + 1
      /\ s.last = <<u.gen, u.seq>> /\ s.twice = FALSE
      /\ s.records = u.records /\ s.pending = u.pending /\ s.sent = u.sent /\ s.asks = u.asks
      /\ s.updates = u.updates /\ s.budget = u.budget
  <2>1. PICK n \in Nat : n = u.sent
    BY <1>2
  <2>2. CASE kind = "ku0"
    <3>1. s = Seal(u, "ku0", n) /\ r = [gen |-> u.gen, seq |-> u.seq, kind |-> "ku0", n |-> n, asks |-> u.asks]
      BY <1>5, <1>6, <2>1, <2>2
    <3> QED BY ONLY <1>1, <3>1, Sealed, u \in Writers, n \in Nat, ZenonT(60)
  <2>3. CASE kind = "ku1"
    <3>1. s = Seal(u, "ku1", n) /\ r = [gen |-> u.gen, seq |-> u.seq, kind |-> "ku1", n |-> n, asks |-> u.asks]
      BY <1>5, <1>6, <2>1, <2>3
    <3> QED BY ONLY <1>1, <3>1, Sealed, u \in Writers, n \in Nat, ZenonT(60)
  <2> QED BY <2>2, <2>3
<1>8. PICK v : v = [s EXCEPT !.gen = g, !.seq = 0, !.records = 0, !.updates = m]
  OBVIOUS
<1>9. v = KeyUpdate(u, request)
  BY <1>3, <1>4, <1>5, <1>7, <1>8 DEF KeyUpdate
<1>10. v \in Writers
  BY <1>7, <1>8 DEF Writers
<1>11. /\ v.out = s.out /\ v.gen = g /\ v.seq = 0 /\ v.last = s.last /\ v.twice = s.twice /\ v.sent = s.sent
       /\ v.pending = s.pending /\ v.asks = s.asks /\ v.updates = m /\ v.budget = s.budget
  BY <1>7, <1>8 DEF Writers
<1>12. Fresh(v)
  <2>1. v.gen = u.gen + 1 /\ v.last = <<u.gen, u.seq>>
    BY <1>3, <1>7, <1>11
  <2>2. v.last[1] = u.gen
    BY <2>1
  <2> QED BY <1>2, <2>1, <2>2 DEF Fresh
<1>13. Fits(r, WritePlace(w))
  BY <1>4, <1>6 DEF Fits, WritePlace
<1>14. WritePlace(v) = After(r)
  BY <1>3, <1>4, <1>6, <1>7, <1>11 DEF WritePlace, After
<1>15. Promised(r, v, FALSE)
  BY <1>2, <1>4, <1>6, <1>7, <1>11 DEF Promised
<1>16. w.asks <= v.asks
  BY <1>2, <1>7, <1>11
<1>17. v.updates + (IF v.pending THEN 1 ELSE 0) <= v.asks + v.budget + asked
  BY <1>2, <1>3, <1>7, <1>11
<1>18. v.out = w.out \o Pieces(r) /\ v.twice = FALSE
  BY <1>7, <1>11
<1> QED BY <1>7, <1>9, <1>10, <1>12, <1>13, <1>14, <1>15, <1>16, <1>17, <1>18, SealGrows

LEMMA EndFacts ==
    ASSUME NEW e \in Ends
    PROVE  Peer(e) \in Ends /\ Peer(e) # e /\ Peer(Peer(e)) = e /\ \A x \in Ends : x = e \/ x = Peer(e)
  BY DEF Ends, Peer

\* A direction does not mind that its writer is over, or that the transport is cut.
LEMMA DirectedKept ==
    ASSUME NEW q, NEW rd, NEW w, NEW over, NEW cut, Directed(q, rd, w, over, cut),
           NEW v, NEW over2, NEW cut2, WritePlace(v) = WritePlace(w), v.asks = w.asks, v.sent = w.sent,
           over => over2, cut => cut2
    PROVE  Directed(q, rd, v, over2, cut2)
  BY DEF Directed, Promised

\* Nor that its reader stops.
LEMMA ReaderStops ==
    ASSUME NEW q, NEW rd, NEW w, NEW over, NEW cut, Directed(q, rd, w, over, cut),
           NEW d, d.rec = rd.rec, d.got = rd.got, d.head = rd.head, d.gen = rd.gen, d.seq = rd.seq,
           d.data = rd.data, d.asked = rd.asked, d.bad = rd.bad, d.eof # "notify"
    PROVE  Directed(q, d, w, over, cut)
<1>1. HasRead(d) = HasRead(rd) /\ Reading(d) = Reading(rd) /\ ReadPlace(d) = ReadPlace(rd)
  BY DEF HasRead, Reading, ReadPlace
<1>2. ReaderShape(d)
  BY <1>1 DEF Directed, ReaderShape
<1> QED BY <1>1, <1>2 DEF Directed

LEMMA SentStep ==
    ASSUME TrInv, NEW e \in Ends, trR[e].closed = FALSE, NEW over \in BOOLEAN, NEW w,
           Growing(w, trW[e], trR[e].asked, over), Flush(e, w), trR' = [trR EXCEPT ![e].closed = over],
           UNCHANGED <<trVer, trCut>>
    PROVE  TrInv'
<1>1. PICK p \in Ends : p = Peer(e) /\ p # e /\ Peer(p) = e /\ \A x \in Ends : x = e \/ x = p
  BY EndFacts
<1>2. PICK v : v = [w EXCEPT !.out = <<>>]
  OBVIOUS
<1>3. w \in Writers /\ w.out \in Seq(PieceSet) /\ w.asks \in Nat
  BY WriterFacts DEF Growing
<1>4. /\ v \in Writers /\ v.out = <<>> /\ v.gen = w.gen /\ v.seq = w.seq /\ v.last = w.last /\ v.twice = w.twice
      /\ v.sent = w.sent /\ v.pending = w.pending /\ v.asks = w.asks /\ v.updates = w.updates /\ v.budget = w.budget
  <2>0. <<>> \in Seq(PieceSet)
    OBVIOUS
  <2>1. PICK o \in Seq(PieceSet) : o = <<>>
    BY <2>0
  <2>2. v = [w EXCEPT !.out = o]
    BY <1>2, <2>1
  <2>3. v \in Writers
    BY ONLY <2>2, <1>3, o \in Seq(PieceSet) DEF Writers
  <2>4. /\ v.out = o /\ v.gen = w.gen /\ v.seq = w.seq /\ v.last = w.last /\ v.twice = w.twice
        /\ v.sent = w.sent /\ v.pending = w.pending /\ v.asks = w.asks /\ v.updates = w.updates /\ v.budget = w.budget
    BY ONLY <2>2, <1>3 DEF Writers
  <2> QED BY <2>1, <2>3, <2>4
<1>5. TrTypes /\ trW[e] \in Writers /\ trW[e].asks \in Nat /\ trR[e] \in Readers /\ trR[p] \in Readers
      /\ trWire[p] \in Seq(PieceSet)
  BY WriterFacts DEF TrInv, TrTypes
<1>6. PICK d : d = [trR[e] EXCEPT !.closed = over]
  OBVIOUS
<1>7. /\ d \in Readers /\ d.closed = over /\ d.rec = trR[e].rec /\ d.got = trR[e].got /\ d.head = trR[e].head
      /\ d.gen = trR[e].gen /\ d.seq = trR[e].seq /\ d.data = trR[e].data /\ d.asked = trR[e].asked
      /\ d.bad = trR[e].bad /\ d.eof = trR[e].eof
  BY <1>5, <1>6 DEF Readers
<1>8. PICK q : q = IF trCut THEN trWire[p] ELSE trWire[p] \o w.out
  OBVIOUS
<1>9. /\ trW' = [trW EXCEPT ![e] = v] /\ trR' = [trR EXCEPT ![e] = d] /\ trWire' = [trWire EXCEPT ![p] = q]
      /\ UNCHANGED <<trVer, trCut>>
  BY <1>1, <1>2, <1>6, <1>8 DEF Flush
<1>10. /\ trW'[e] = v /\ trW'[p] = trW[p] /\ trR'[e] = d /\ trR'[p] = trR[p]
       /\ trWire'[p] = q /\ trWire'[e] = trWire[e]
  BY <1>1, <1>5, <1>9 DEF TrTypes
<1>11. Directed(trWire[p], trR[p], trW[e], FALSE, trCut)
  BY <1>1 DEF TrInv
<1>12. trWire[p] \in Seq(PieceSet) /\ \A j \in 1..Len(trWire[p]) : trWire[p][j].r \in Recs
  BY <1>5, PieceFacts
<1>13. \A r \in Recs : Promised(r, trW[e], FALSE) => Promised(r, v, over)
  <2>1. \A r \in Recs : r.asks \in Nat
    BY DEF Recs
  <2>2. trW[e].asks <= v.asks
    BY <1>4 DEF Growing
  <2> QED BY <1>3, <1>4, <1>5, <2>1, <2>2 DEF Promised
<1>14. /\ ReaderShape(trR[p]) /\ trR[p].eof # "notify"
       /\ (trR[p].rec # "idle" => Promised(Reading(trR[p]), v, over))
       /\ trR[p].asked <= v.asks
       /\ \A j \in 1..Len(trWire[p]) : Promised(trWire[p][j].r, v, over)
  <2>1. trR[p].rec # "idle" => Reading(trR[p]) \in Recs
    <3>1. CASE trR[p].rec = "payload"
      BY <1>11, <3>1 DEF Directed, ReaderShape, Reading
    <3>2. CASE trR[p].rec = "header"
      <4>1. trR[p].got \in Seq(PieceSet) /\ Len(trR[p].got) = 1
        BY <1>5, <1>11, <3>2 DEF Directed, ReaderShape, Readers
      <4>2. trR[p].got[1] \in PieceSet
        BY <4>1
      <4> QED BY <3>2, <4>2, PieceFacts DEF Reading
    <3>3. trR[p].rec \in {"idle", "header", "payload"}
      BY <1>5 DEF Readers
    <3> QED BY <3>1, <3>2, <3>3
  <2>2. trR[p].asked \in Nat
    BY <1>5 DEF Readers
  <2>3. trW[e].asks <= v.asks /\ v.asks \in Nat
    BY <1>3, <1>4 DEF Growing
  <2>4. trR[p].asked <= trW[e].asks
    BY <1>11 DEF Directed
  <2>5. trR[p].asked <= v.asks
    BY <1>5, <2>2, <2>3, <2>4
  <2> QED BY <1>11, <1>12, <1>13, <2>1, <2>5 DEF Directed
<1>15. q \in Seq(PieceSet) /\ Directed(q, trR[p], v, over, trCut)
  <2>1. CASE trCut
    BY <1>5, <1>8, <1>11, <1>14, <2>1 DEF Directed
  <2>2. CASE ~trCut
    <3>1. PICK a \in Seq(PieceSet), o \in Seq(PieceSet) : a = trWire[p] /\ o = w.out
      BY <1>3, <1>5
    <3>2. q = a \o o
      BY <1>8, <2>2, <3>1
    <3>3. Chain(a, HasRead(trR[p]), Reading(trR[p]), ReadPlace(trR[p]))
          /\ Reaches(a, HasRead(trR[p]), ReadPlace(trR[p]), WritePlace(trW[e]))
      BY <1>11, <2>2, <3>1 DEF Directed
    <3>4. /\ Chain(o, 0, NoRecord, WritePlace(trW[e])) /\ Reaches(o, 0, WritePlace(trW[e]), WritePlace(w))
          /\ \A j \in 1..Len(o) : Promised(o[j].r, w, over)
      BY <3>1 DEF Growing
    <3>5. /\ a \o o \in Seq(PieceSet) /\ Len(a \o o) = Len(a) + Len(o)
          /\ \A j \in 1..Len(a \o o) : IF j <= Len(a) THEN (a \o o)[j] = a[j]
                                       ELSE j - Len(a) \in 1..Len(o) /\ (a \o o)[j] = o[j - Len(a)]
          /\ Chain(a \o o, HasRead(trR[p]), Reading(trR[p]), ReadPlace(trR[p]))
          /\ Reaches(a \o o, HasRead(trR[p]), ReadPlace(trR[p]), WritePlace(w))
      BY <3>3, <3>4, Joined
    <3>6. WritePlace(w) = WritePlace(v)
      BY <1>4 DEF WritePlace
    <3>7. ASSUME NEW j \in 1..Len(q) PROVE Promised(q[j].r, v, over)
      <4>1. CASE j <= Len(a)
        <5>1. j \in 1..Len(a) /\ q[j] = a[j]
          BY <3>2, <3>5, <4>1
        <5> QED BY <1>14, <3>1, <5>1
      <4>2. CASE ~(j <= Len(a))
        <5>1. PICK k \in 1..Len(o) : q[j] = o[k]
          BY <3>2, <3>5, <4>2
        <5> QED BY <1>4, <3>4, <5>1 DEF Promised
      <4> QED BY <4>1, <4>2
    <3> QED BY <1>14, <3>2, <3>5, <3>6, <3>7 DEF Directed
  <2> QED BY <2>1, <2>2
<1>16. Directed(trWire[e], d, trW[p], trR[p].closed, trCut)
  <2>1. Directed(trWire[e], trR[e], trW[p], trR[p].closed, trCut)
    BY <1>1 DEF TrInv
  <2>2. d.eof # "notify"
    BY <1>7, <2>1 DEF Directed
  <2> QED BY <1>7, <2>1, <2>2, ReaderStops
<1>17. WriterKept(v, d.asked) /\ WriterKept(trW[p], trR[p].asked)
  <2>1. Fresh(v)
    BY <1>4 DEF Growing, Fresh
  <2>2. WriterKept(v, d.asked)
    BY <1>4, <1>7, <2>1 DEF Growing, WriterKept
  <2> QED BY <1>1, <2>2 DEF TrInv
<1>18. TrTypes'
  BY <1>1, <1>4, <1>5, <1>7, <1>9, <1>15 DEF TrTypes
<1>19. \A x \in Ends : Directed(trWire'[x], trR'[x], trW'[Peer(x)], trR'[Peer(x)].closed, trCut')
  BY <1>1, <1>7, <1>9, <1>10, <1>15, <1>16
<1>20. \A x \in Ends : WriterKept(trW'[x], trR'[x].asked)
  BY <1>1, <1>10, <1>17
<1> QED BY <1>18, <1>19, <1>20 DEF TrInv

\* A writer between two calls.
LEMMA Continues ==
    ASSUME TrInv, NEW e \in Ends, NEW n \in Nat
    PROVE  /\ Growing([trW[e] EXCEPT !.writes = n], trW[e], trR[e].asked, FALSE)
           /\ Growing(trW[e], trW[e], trR[e].asked, FALSE)
           /\ trW[e] \in Writers /\ trW[e].asks \in Nat /\ trR[e].asked \in Nat
<1>1. trW[e] \in Writers /\ trR[e] \in Readers /\ WriterKept(trW[e], trR[e].asked)
  BY DEF TrInv, TrTypes
<1>2. PICK w \in Writers : w = trW[e]
  BY <1>1
<1>3. w.asks \in Nat /\ trR[e].asked \in Nat
  BY <1>1, WriterFacts DEF Readers
<1>4. Growing(w, w, trR[e].asked, FALSE)
  <2>1. w.out = <<>> /\ w.twice = FALSE /\ Fresh(w)
        /\ w.updates + (IF w.pending THEN 1 ELSE 0) <= w.asks + w.budget + trR[e].asked
    BY <1>1, <1>2 DEF WriterKept
  <2>2. Len(w.out) = 0 /\ \A j \in 1..0 : FALSE
    BY <2>1
  <2>3. \A j \in 1..(0 - 1) : FALSE
    OBVIOUS
  <2>4. Chain(w.out, 0, NoRecord, WritePlace(w)) /\ Reaches(w.out, 0, WritePlace(w), WritePlace(w))
    BY <2>1, <2>2, <2>3 DEF Chain, Reaches
  <2> QED BY <1>3, <2>1, <2>2, <2>4 DEF Growing
<1>5. PICK v : v = [w EXCEPT !.writes = n]
  OBVIOUS
<1>6. /\ v \in Writers /\ v.out = w.out /\ v.gen = w.gen /\ v.seq = w.seq /\ v.last = w.last /\ v.twice = w.twice
      /\ v.sent = w.sent /\ v.pending = w.pending /\ v.asks = w.asks /\ v.updates = w.updates /\ v.budget = w.budget
  BY <1>5 DEF Writers
<1>7. WritePlace(v) = WritePlace(w) /\ Fresh(v)
  BY <1>4, <1>6 DEF WritePlace, Growing, Fresh
<1>8. Growing(v, w, trR[e].asked, FALSE)
  BY <1>4, <1>6, <1>7 DEF Growing, Promised
<1> QED BY <1>1, <1>2, <1>3, <1>4, <1>5, <1>8

LEMMA OwedGrows ==
    ASSUME NEW w, NEW w0, NEW asked \in Nat, Growing(w, w0, asked, FALSE), w0.asks \in Nat
    PROVE  Growing(Owed(w), w0, asked, FALSE)
<1>1. w \in Writers
  BY DEF Growing
<1>2. w.pending \in BOOLEAN /\ w.updates \in Nat /\ w.budget \in Nat /\ w.asks \in Nat
  BY <1>1, WriterFacts
<1>3. CASE trVer = 13 /\ w.pending
  <2>1. PICK u : u = [w EXCEPT !.pending = FALSE]
    OBVIOUS
  <2>2. /\ u \in Writers /\ u.out = w.out /\ u.gen = w.gen /\ u.seq = w.seq /\ u.last = w.last /\ u.twice = w.twice
        /\ u.sent = w.sent /\ u.pending = FALSE /\ u.asks = w.asks /\ u.updates = w.updates /\ u.budget = w.budget
    BY <1>1, <2>1 DEF Writers
  <2>3. w.updates + 1 <= w.asks + w.budget + asked
    BY <1>3 DEF Growing
  <2>4. u.updates + 1 + (IF u.pending THEN 1 ELSE 0) <= u.asks + u.budget + asked
    BY <1>2, <2>2, <2>3
  <2>5. Growing(KeyUpdate(u, FALSE), w0, asked, FALSE)
    BY <2>2, <2>4, UpdateGrows
  <2> QED BY <1>3, <2>1, <2>5 DEF Owed
<1>4. CASE ~(trVer = 13 /\ w.pending) /\ trVer = 13 /\ w.records >= TrLimit
  <2>1. PICK n \in Nat : n = w.budget + 1
    BY <1>2
  <2>2. PICK u : u = [w EXCEPT !.budget = n]
    OBVIOUS
  <2>3. /\ u \in Writers /\ u.out = w.out /\ u.gen = w.gen /\ u.seq = w.seq /\ u.last = w.last /\ u.twice = w.twice
        /\ u.sent = w.sent /\ u.pending = w.pending /\ u.asks = w.asks /\ u.updates = w.updates /\ u.budget = n
    BY <1>1, <2>2 DEF Writers
  <2>4. w.updates + 0 <= w.asks + w.budget + asked /\ ~w.pending
    BY <1>4 DEF Growing
  <2>5. u.updates + 1 + (IF u.pending THEN 1 ELSE 0) <= u.asks + u.budget + asked
    BY <1>2, <2>1, <2>3, <2>4
  <2>6. Growing(KeyUpdate(u, FALSE), w0, asked, FALSE)
    BY <2>3, <2>5, UpdateGrows
  <2> QED BY <1>4, <2>1, <2>2, <2>6 DEF Owed
<1>5. CASE ~(trVer = 13 /\ w.pending) /\ ~(trVer = 13 /\ w.records >= TrLimit)
  BY <1>5 DEF Owed
<1> QED BY <1>3, <1>4, <1>5

LEMMA WriteStep ==
    ASSUME TrInv, NEW e \in Ends, WriteAll(e) \/ RequestKeyUpdate(e) \/ CloseNotify(e)
    PROVE  TrInv'
<1>1. /\ trW[e] \in Writers /\ trW[e].asks \in Nat /\ trR[e].asked \in Nat
      /\ Growing(trW[e], trW[e], trR[e].asked, FALSE)
  <2>1. 0 \in Nat
    OBVIOUS
  <2> QED BY <2>1, Continues
<1>2. trR \in [Ends -> Readers] /\ trR[e].closed = FALSE
  <2>1. trR \in [Ends -> Readers]
    BY DEF TrInv, TrTypes
  <2>2. trR[e].closed \in BOOLEAN /\ ~trR[e].closed
    BY <2>1 DEF Readers, WriteAll, RequestKeyUpdate, CloseNotify
  <2> QED BY <2>1, <2>2
<1>3. trR = [trR EXCEPT ![e].closed = FALSE]
  <2>1. [trR[e] EXCEPT !.closed = FALSE] = trR[e]
    BY <1>2 DEF Readers
  <2> QED BY <1>2, <2>1
<1>4. CASE WriteAll(e)
  <2>1. PICK n \in Nat : n = trW[e].writes + 1
    BY <1>1, WriterFacts, SMTT(60)
  <2>2. PICK w : w = Owed([trW[e] EXCEPT !.writes = n])
    OBVIOUS
  <2>3. Growing(w, trW[e], trR[e].asked, FALSE)
    BY <1>1, <2>2, Continues, OwedGrows
  <2>4. Growing(Data(w), trW[e], trR[e].asked, FALSE)
    BY <1>1, <2>3, DataGrows
  <2>5. Growing(Data(Data(w)), trW[e], trR[e].asked, FALSE)
    BY <1>1, <2>4, DataGrows
  <2>6. [trW[e] EXCEPT !.writes = @ + 1] = [trW[e] EXCEPT !.writes = n]
    BY <2>1
  <2>7. PICK v : Growing(v, trW[e], trR[e].asked, FALSE) /\ Flush(e, v)
    BY <1>4, <2>2, <2>4, <2>5, <2>6 DEF WriteAll
  <2>8. trR' = [trR EXCEPT ![e].closed = FALSE] /\ UNCHANGED <<trVer, trCut>>
    BY <1>3, <1>4 DEF WriteAll
  <2> QED BY <1>2, <2>7, <2>8, SentStep
<1>5. CASE RequestKeyUpdate(e)
  <2>1. PICK n \in Nat : n = trW[e].asks + 1
    BY <1>1
  <2>2. PICK w \in Writers : w = trW[e]
    BY <1>1
  <2>3. PICK u : u = [w EXCEPT !.asks = n]
    OBVIOUS
  <2>4. /\ u \in Writers /\ u.out = w.out /\ u.gen = w.gen /\ u.seq = w.seq /\ u.last = w.last /\ u.twice = w.twice
        /\ u.sent = w.sent /\ u.pending = w.pending /\ u.asks = n /\ u.updates = w.updates /\ u.budget = w.budget
    BY <2>3 DEF Writers
  <2>5. w.updates + (IF w.pending THEN 1 ELSE 0) <= w.asks + w.budget + trR[e].asked
    BY <1>1, <2>2 DEF Growing
  <2>6. PICK k \in 0..1 : k = IF w.pending THEN 1 ELSE 0
    OBVIOUS
  <2>7. u.updates + 1 + k <= u.asks + u.budget + trR[e].asked
    <3>1. w.updates \in Nat /\ w.budget \in Nat /\ w.asks \in Nat
      BY WriterFacts
    <3> QED BY <1>1, <2>1, <2>2, <2>4, <2>5, <2>6, <3>1
  <2>8. u.updates + 1 + (IF u.pending THEN 1 ELSE 0) <= u.asks + u.budget + trR[e].asked
    BY <2>4, <2>6, <2>7
  <2>9. u.asks = IF TRUE THEN w.asks + 1 ELSE w.asks
    BY <2>1, <2>2, <2>4
  <2>10. Growing(KeyUpdate(u, TRUE), trW[e], trR[e].asked, FALSE)
    BY <1>1, <2>2, <2>4, <2>8, <2>9, UpdateGrows
  <2>11. Flush(e, KeyUpdate(u, TRUE)) /\ trR' = [trR EXCEPT ![e].closed = FALSE] /\ UNCHANGED <<trVer, trCut>>
    BY <1>3, <1>5, <2>1, <2>2, <2>3 DEF RequestKeyUpdate
  <2> QED BY <1>2, <2>10, <2>11, SentStep
<1>6. CASE CloseNotify(e)
  <2>1. PICK w \in Writers : w = trW[e]
    BY <1>1
  <2>2. PICK n \in Nat : n = w.sent
    BY WriterFacts
  <2>3. PICK v : v = Seal(w, "close", n)
    OBVIOUS
  <2>4. PICK r : r = [gen |-> w.gen, seq |-> w.seq, kind |-> "close", n |-> n, asks |-> w.asks]
    OBVIOUS
  <2>5. Fresh(w) /\ w.twice = FALSE /\ w.gen \in Nat /\ w.seq \in Nat /\ w.asks \in Nat
    BY <1>1, <2>1, WriterFacts DEF Growing
  <2>6. /\ r \in Recs /\ v \in Writers /\ v.out = w.out \o Pieces(r) /\ v.gen = w.gen /\ v.seq = w.seq + 1
        /\ v.last = <<w.gen, w.seq>> /\ v.twice = FALSE
        /\ v.pending = w.pending /\ v.sent = w.sent /\ v.asks = w.asks
        /\ v.updates = w.updates /\ v.budget = w.budget
    BY ONLY <2>3, <2>4, <2>5, Sealed, w \in Writers, n \in Nat, ZenonT(60)
  <2>7. Fresh(v)
    <3>1. v.last[1] = w.gen /\ v.last[2] = w.seq
      BY <2>6
    <3> QED BY <2>5, <2>6, <3>1 DEF Fresh
  <2>8. Fits(r, WritePlace(w))
    BY <2>2, <2>4 DEF Fits, WritePlace
  <2>9. WritePlace(v) = After(r)
    BY <2>2, <2>4, <2>6 DEF WritePlace, After
  <2>10. Promised(r, v, TRUE) /\ w.asks <= v.asks
    BY <2>2, <2>4, <2>5, <2>6 DEF Promised
  <2>11. v.updates + (IF v.pending THEN 1 ELSE 0) <= v.asks + v.budget + trR[e].asked
    BY <1>1, <2>1, <2>6 DEF Growing
  <2>12. Growing(v, trW[e], trR[e].asked, TRUE)
    BY <1>1, <2>1, <2>6, <2>7, <2>8, <2>9, <2>10, <2>11, SealGrows
  <2>13. Flush(e, v) /\ trR' = [trR EXCEPT ![e].closed = TRUE] /\ UNCHANGED <<trVer, trCut>>
    BY <1>6, <2>1, <2>2, <2>3 DEF CloseNotify
  <2> QED BY <1>2, <2>12, <2>13, SentStep
<1> QED BY <1>4, <1>5, <1>6

\* Where h pieces of a record have been read, n more are read of the same record.
LEMMA OneMore ==
    ASSUME NEW q \in Seq(PieceSet), q # <<>>, NEW h \in 0..3, NEW r, NEW at, Chain(q, h, r, at), h # 0 => Fits(r, at)
    PROVE  LET s == q[1].r
               from == IF h + 1 = 4 THEN After(s) ELSE at IN
           /\ s \in Recs /\ Fits(s, at) /\ (h # 0 => s = r) /\ q[1].i = h + 1 /\ q[1] \in PieceSet
           /\ Tail(q) \in Seq(PieceSet) /\ Len(Tail(q)) = Len(q) - 1
           /\ \A j \in 1..(Len(q) - 1) : Tail(q)[j] = q[j + 1]
           /\ Chain(Tail(q), (h + 1) % 4, s, from)
           /\ \A to : Reaches(q, h, at, to) => Reaches(Tail(q), (h + 1) % 4, from, to)
<1>1. /\ q[1] \in PieceSet /\ Links(q[1], h, r, at)
      /\ Tail(q) \in Seq(PieceSet) /\ Len(Tail(q)) = Len(q) - 1
      /\ \A j \in 1..(Len(q) - 1) : Tail(q)[j] = q[j + 1]
      /\ Fits(q[1].r, at) => Chain(Tail(q), q[1].i % 4, q[1].r, IF q[1].i = 4 THEN After(q[1].r) ELSE at)
      /\ \A to : Reaches(q, h, at, to) => Reaches(Tail(q), q[1].i % 4, IF q[1].i = 4 THEN After(q[1].r) ELSE at, to)
  BY OneRead
<1>2. q[1].i = h + 1 /\ Fits(q[1].r, at) /\ (h # 0 => q[1].r = r)
  BY <1>1 DEF Links
<1>3. q[1].r \in Recs
  BY <1>1, PieceFacts
<1> QED BY <1>1, <1>2, <1>3

Reader(q, h, r, at, n, t, s, k, from) ==
    /\ q \in Seq(PieceSet) /\ h \in 0..3 /\ Chain(q, h, r, at) /\ (h # 0 => Fits(r, at))
    /\ n \in 1..2 /\ h + n <= 4 /\ n <= Len(q) /\ t = SubSeq(q, n + 1, Len(q))
    /\ s = q[1].r /\ k = (h + n) % 4 /\ from = IF h + n = 4 THEN After(s) ELSE at

LEMMA Reads ==
    ASSUME NEW q, NEW h, NEW r, NEW at, NEW n, NEW t, NEW s, NEW k, NEW from, Reader(q, h, r, at, n, t, s, k, from)
    PROVE  /\ s \in Recs /\ Fits(s, at) /\ (h # 0 => s = r) /\ q[1].i = h + 1 /\ q[1] \in PieceSet
           /\ n = 2 => q[2] \in PieceSet /\ q[2].i = h + 2 /\ q[2].r = s
           /\ t \in Seq(PieceSet) /\ (\A j \in 1..Len(t) : j + n \in 1..Len(q) /\ t[j] = q[j + n])
           /\ Chain(t, k, s, from)
           /\ \A to : Reaches(q, h, at, to) => Reaches(t, k, from, to)
<1> USE DEF Reader
<1>1. PICK a \in Nat : a = Len(q)
  OBVIOUS
<1>11. n \in 1..2 /\ h + n <= 4 /\ n <= a /\ t = SubSeq(q, n + 1, a) /\ k = (h + n) % 4
       /\ from = IF h + n = 4 THEN After(s) ELSE at
  BY <1>1
<1>2. q # <<>>
  <2>1. Len(<<>>) = 0
    OBVIOUS
  <2> QED BY <2>1
<1>0. q \in Seq(PieceSet) /\ h \in 0..3 /\ s = q[1].r /\ Chain(q, h, r, at) /\ (h # 0 => Fits(r, at))
  OBVIOUS
<1> HIDE DEF Reader
<1>4. PICK u \in Seq(PieceSet) : u = Tail(q)
  <2>1. Tail(q) \in Seq(PieceSet)
    BY <1>0, <1>2
  <2> QED BY <2>1
<1>5. /\ s \in Recs /\ Fits(s, at) /\ (h # 0 => s = r) /\ q[1].i = h + 1 /\ q[1] \in PieceSet
      /\ u \in Seq(PieceSet) /\ Len(u) = a - 1
      /\ \A j \in 1..(a - 1) : u[j] = q[j + 1]
      /\ Chain(u, (h + 1) % 4, s, IF h + 1 = 4 THEN After(s) ELSE at)
      /\ \A to : Reaches(q, h, at, to) => Reaches(u, (h + 1) % 4, IF h + 1 = 4 THEN After(s) ELSE at, to)
  BY ONLY <1>0, <1>1, <1>2, <1>4, OneMore
<1>6. /\ t \in Seq(PieceSet) /\ Len(t) = a - n /\ \A j \in 1..(a - n) : t[j] = q[j + n]
  BY <1>0, <1>1, <1>11
<1>7. \A j \in 1..Len(t) : j + n \in 1..Len(q) /\ t[j] = q[j + n]
  BY <1>1, <1>6, <1>11, SMTT(60)
<1>8. CASE n = 1
  <2>1. t = u
    BY <1>0, <1>1, <1>4, <1>5, <1>6, <1>8
  <2>2. k = (h + 1) % 4 /\ from = IF h + 1 = 4 THEN After(s) ELSE at
    BY <1>8, <1>11
  <2>3. Chain(t, k, s, from) /\ (\A to : Reaches(q, h, at, to) => Reaches(t, k, from, to))
    BY ONLY <1>5, <2>1, <2>2
  <2>4. /\ s \in Recs /\ Fits(s, at) /\ (h # 0 => s = r) /\ q[1].i = h + 1 /\ q[1] \in PieceSet /\ n # 2
    BY <1>5, <1>8
  <2> QED BY ONLY <1>6, <1>7, <2>3, <2>4
<1>9. CASE n = 2
  <2>1. h \in 0..2 /\ h + 1 \in 0..3 /\ (h + 1) % 4 = h + 1 /\ h + 1 # 0 /\ h + 1 # 4 /\ a >= 2
    BY <1>0, <1>1, <1>9, <1>11, SMTT(60)
  <2>2. u # <<>> /\ u[1] = q[2] /\ Chain(u, h + 1, s, at)
    <3>1. 1 \in 1..(a - 1) /\ Len(u) # 0 /\ Len(<<>>) = 0
      BY <1>5, <2>1
    <3> QED BY <1>5, <2>1, <3>1
  <2>3. PICK m \in 0..3 : m = h + 1
    BY <2>1
  <2>4. Chain(u, m, s, at) /\ (m # 0 => Fits(s, at)) /\ u \in Seq(PieceSet)
    BY <1>5, <2>2, <2>3
  <2>5. /\ u[1].r \in Recs /\ (m # 0 => u[1].r = s) /\ u[1].i = m + 1 /\ u[1] \in PieceSet
        /\ Tail(u) \in Seq(PieceSet) /\ Len(Tail(u)) = Len(u) - 1
        /\ \A j \in 1..(Len(u) - 1) : Tail(u)[j] = u[j + 1]
        /\ Chain(Tail(u), (m + 1) % 4, u[1].r, IF m + 1 = 4 THEN After(u[1].r) ELSE at)
        /\ \A to : Reaches(u, m, at, to) => Reaches(Tail(u), (m + 1) % 4, IF m + 1 = 4 THEN After(u[1].r) ELSE at, to)
    BY ONLY <2>2, <2>4, OneMore, m \in 0..3, u \in Seq(PieceSet)
  <2>6. Tail(u) = t
    <3>1. PICK v \in Seq(PieceSet) : v = Tail(u)
      BY <2>5
    <3>2. Len(v) = a - 2
      BY <1>5, <2>5, <3>1
    <3>3. ASSUME NEW j \in 1..(a - 2) PROVE v[j] = t[j]
      <4>1. j \in 1..(a - 1 - 1) /\ j + 1 \in 1..(a - 1) /\ (j + 1) + 1 = j + 2
        OBVIOUS
      <4>2. v[j] = u[j + 1] /\ u[j + 1] = q[j + 2]
        BY <1>5, <2>5, <3>1, <4>1
      <4> QED BY <1>6, <1>9, <4>2
    <3>4. Len(t) = a - 2 /\ t \in Seq(PieceSet)
      BY <1>6, <1>9
    <3>5. v = t
      BY ONLY <3>2, <3>3, <3>4, v \in Seq(PieceSet)
    <3> QED BY <3>1, <3>5
  <2>7. u[1].r = s /\ m + 1 = h + n /\ h + 1 = m /\ h + 2 = m + 1
    BY <1>9, <2>1, <2>3, <2>5
  <2>8. Chain(t, k, s, from) /\ (\A to : Reaches(u, m, at, to) => Reaches(t, k, from, to))
    BY <1>11, <2>5, <2>6, <2>7
  <2>9. \A to : Reaches(q, h, at, to) => Reaches(u, m, at, to)
    BY <1>5, <2>1, <2>3
  <2>10. q[2] \in PieceSet /\ q[2].i = h + 2 /\ q[2].r = s
    BY <2>2, <2>5, <2>7
  <2> QED BY <1>5, <1>6, <1>7, <2>8, <2>9, <2>10
<1>10. n = 1 \/ n = 2
  BY <1>11
<1> QED BY ONLY <1>8, <1>9, <1>10

LEMMA ReaderFacts ==
    ASSUME NEW rd \in Readers, ReaderShape(rd)
    PROVE  /\ rd.gen \in Nat /\ rd.seq \in Nat /\ rd.data \in Nat /\ rd.asked \in Nat /\ rd.got \in Seq(PieceSet)
           /\ HasRead(rd) \in 0..3 /\ (HasRead(rd) # 0 <=> rd.rec # "idle")
           /\ rd.rec # "idle" => Reading(rd) \in Recs /\ Fits(Reading(rd), ReadPlace(rd))
           /\ rd.rec \in {"idle", "header", "payload"}
           /\ rd.rec = "payload" => HasRead(rd) = 2 + Len(rd.got) /\ Reading(rd) = rd.head
           /\ rd.rec = "header" => HasRead(rd) = 1 /\ Reading(rd) = rd.got[1].r /\ Len(rd.got) = 1
           /\ rd.rec = "idle" => HasRead(rd) = 0 /\ rd.got = <<>>
<1>1. /\ rd.gen \in Nat /\ rd.seq \in Nat /\ rd.data \in Nat /\ rd.asked \in Nat /\ rd.got \in Seq(PieceSet)
      /\ rd.rec \in {"idle", "header", "payload"}
  BY DEF Readers
<1>2. PICK l \in Nat : l = Len(rd.got)
  BY <1>1
<1>3. CASE rd.rec = "idle"
  BY <1>1, <1>3 DEF HasRead, ReaderShape
<1>4. CASE rd.rec = "header"
  <2>1. Len(rd.got) = 1 /\ Fits(Reading(rd), ReadPlace(rd))
    BY <1>4 DEF ReaderShape
  <2>2. rd.got[1] \in PieceSet
    BY <1>1, <2>1
  <2>3. HasRead(rd) = 1 /\ Reading(rd) = rd.got[1].r
    BY <1>4 DEF HasRead, Reading
  <2> QED BY <1>1, <1>4, <2>1, <2>2, <2>3, PieceFacts
<1>5. CASE rd.rec = "payload"
  <2>1. l <= 1 /\ rd.head \in Recs /\ Fits(Reading(rd), ReadPlace(rd))
    BY <1>2, <1>5 DEF ReaderShape
  <2>2. HasRead(rd) = 2 + l /\ Reading(rd) = rd.head
    BY <1>2, <1>5 DEF HasRead, Reading
  <2>3. HasRead(rd) \in 0..3 /\ HasRead(rd) # 0
    BY <2>1, <2>2
  <2> QED BY <1>1, <1>2, <1>5, <2>1, <2>2, <2>3
<1> QED BY <1>1, <1>3, <1>4, <1>5

\* A step of the reader at e: the other direction does not see it.
LEMMA ReadStep ==
    ASSUME TrInv, NEW e \in Ends, NEW d \in Readers, NEW t \in Seq(PieceSet), NEW w \in Writers,
           trR' = [trR EXCEPT ![e] = d], trWire' = [trWire EXCEPT ![e] = t], trW' = [trW EXCEPT ![e] = w],
           UNCHANGED <<trVer, trCut>>, trR[e].closed => d.closed,
           WritePlace(w) = WritePlace(trW[e]), w.asks = trW[e].asks, w.sent = trW[e].sent, WriterKept(w, d.asked),
           Directed(t, d, trW[Peer(e)], trR[Peer(e)].closed, trCut)
    PROVE  TrInv'
<1>1. PICK p \in Ends : p = Peer(e) /\ p # e /\ Peer(p) = e /\ \A x \in Ends : x = e \/ x = p
  BY EndFacts
<1>2. TrTypes
  BY DEF TrInv
<1>3. /\ trW'[e] = w /\ trW'[p] = trW[p] /\ trR'[e] = d /\ trR'[p] = trR[p]
      /\ trWire'[e] = t /\ trWire'[p] = trWire[p]
  BY <1>1, <1>2 DEF TrTypes
<1>4. Directed(trWire[p], trR[p], trW[e], trR[e].closed, trCut) /\ WriterKept(trW[p], trR[p].asked)
  BY <1>1 DEF TrInv
<1>5. Directed(trWire[p], trR[p], w, d.closed, trCut)
  BY <1>4, DirectedKept
<1>6. TrTypes'
  BY <1>2 DEF TrTypes
<1>7. \A x \in Ends : Directed(trWire'[x], trR'[x], trW'[Peer(x)], trR'[Peer(x)].closed, trCut')
  BY <1>1, <1>3, <1>5
<1>8. \A x \in Ends : WriterKept(trW'[x], trR'[x].asked)
  BY <1>1, <1>3, <1>4
<1> QED BY <1>6, <1>7, <1>8 DEF TrInv

\* A read that stops inside a record.
PartRead(q, rd, n, t, d) ==
    /\ q \in Seq(PieceSet) /\ rd \in Readers /\ n \in 1..2 /\ n <= Len(q) /\ HasRead(rd) + n < 4
    /\ t = SubSeq(q, n + 1, Len(q))
    /\ d.rec # "idle" /\ HasRead(d) = HasRead(rd) + n /\ Reading(d) = q[1].r /\ ReadPlace(d) = ReadPlace(rd)
    /\ d.asked = rd.asked /\ d.bad = FALSE /\ d.eof # "notify"
    /\ (d.rec = "header" => Len(d.got) = 1 /\ d.got[1].i = 1)
    /\ (d.rec = "payload" => Len(d.got) <= 1 /\ d.head \in Recs)

LEMMA ReadsPart ==
    ASSUME NEW q, NEW rd, NEW w, NEW over, NEW cut, Directed(q, rd, w, over, cut),
           NEW n, NEW t, NEW d, PartRead(q, rd, n, t, d)
    PROVE  t \in Seq(PieceSet) /\ Directed(t, d, w, over, cut)
<1> USE DEF PartRead
<1>1. ReaderShape(rd) /\ Chain(q, HasRead(rd), Reading(rd), ReadPlace(rd))
  BY DEF Directed
<1>2. PICK h \in 0..3, r \in {Reading(rd)}, at \in {ReadPlace(rd)} : h = HasRead(rd)
  BY <1>1, ReaderFacts
<1>3. Chain(q, h, r, at) /\ (h # 0 => Fits(r, at)) /\ h + n <= 4 /\ h + n # 4
  BY <1>1, <1>2, ReaderFacts
<1>0. PICK s, k, from : s = q[1].r /\ k = (h + n) % 4 /\ from = IF h + n = 4 THEN After(s) ELSE at
  OBVIOUS
<1>4. /\ s \in Recs /\ Fits(s, at)
      /\ t \in Seq(PieceSet) /\ (\A j \in 1..Len(t) : j + n \in 1..Len(q) /\ t[j] = q[j + n])
      /\ Chain(t, k, s, from) /\ (\A to : Reaches(q, h, at, to) => Reaches(t, k, from, to))
  <2>1. Reader(q, h, r, at, n, t, s, k, from)
    BY <1>0, <1>3 DEF Reader
  <2> QED BY ONLY <2>1, Reads
<1>5. (h + n) % 4 = h + n
  BY <1>3
<1>6. Chain(t, HasRead(d), Reading(d), ReadPlace(d))
  BY <1>0, <1>2, <1>3, <1>4, <1>5
<1>7. ~cut => Reaches(t, HasRead(d), ReadPlace(d), WritePlace(w))
  BY <1>0, <1>2, <1>3, <1>4, <1>5 DEF Directed
<1>8. \A j \in 1..Len(q) : Promised(q[j].r, w, over)
  BY DEF Directed
<1>9. Promised(q[1].r, w, over)
  <2>1. 1 \in 1..Len(q)
    OBVIOUS
  <2> QED BY <1>8, <2>1
<1>10. ReaderShape(d)
  BY <1>0, <1>2, <1>4 DEF ReaderShape
<1>11. d.asked <= w.asks
  BY DEF Directed
<1>12. \A j \in 1..Len(t) : Promised(t[j].r, w, over)
  BY <1>4, <1>8
<1> QED BY <1>4, <1>6, <1>7, <1>9, <1>10, <1>11, <1>12 DEF Directed

\* A read that completes a record.
WholeRead(q, rd, n, t, d) ==
    /\ q \in Seq(PieceSet) /\ rd \in Readers /\ n \in 1..2 /\ n <= Len(q) /\ rd.rec # "idle" /\ HasRead(rd) + n = 4
    /\ t = SubSeq(q, n + 1, Len(q))
    /\ d.rec = "idle" /\ d.got = <<>> /\ ReadPlace(d) = After(Reading(rd)) /\ d.bad = FALSE
    /\ (d.eof = "notify" => d.closed /\ Reading(rd).kind = "close")

LEMMA ReadsWhole ==
    ASSUME NEW q, NEW rd, NEW w, NEW over, NEW cut, Directed(q, rd, w, over, cut),
           NEW n, NEW t, NEW d, WholeRead(q, rd, n, t, d)
    PROVE  t \in Seq(PieceSet) /\ Directed(t, d, w, over, cut)
<1> USE DEF WholeRead
<1>1. ReaderShape(rd) /\ Chain(q, HasRead(rd), Reading(rd), ReadPlace(rd))
  BY DEF Directed
<1>2. PICK h \in 0..3, r \in Recs, at \in {ReadPlace(rd)} : h = HasRead(rd) /\ r = Reading(rd)
  BY <1>1, ReaderFacts
<1>3. Chain(q, h, r, at) /\ h # 0 /\ (h # 0 => Fits(r, at)) /\ h + n <= 4 /\ h + n = 4
  BY <1>1, <1>2, ReaderFacts
<1>0. PICK s, k, from : s = q[1].r /\ k = (h + n) % 4 /\ from = IF h + n = 4 THEN After(s) ELSE at
  OBVIOUS
<1>4. /\ (h # 0 => s = r)
      /\ t \in Seq(PieceSet) /\ (\A j \in 1..Len(t) : j + n \in 1..Len(q) /\ t[j] = q[j + n])
      /\ Chain(t, k, s, from) /\ (\A to : Reaches(q, h, at, to) => Reaches(t, k, from, to))
  <2>1. Reader(q, h, r, at, n, t, s, k, from)
    BY <1>0, <1>3 DEF Reader
  <2> QED BY ONLY <2>1, Reads
<1>5. (h + n) % 4 = 0 /\ s = r /\ k = 0 /\ from = After(r)
  BY <1>0, <1>3, <1>4
<1>6. HasRead(d) = 0 /\ ReadPlace(d) = After(r)
  BY <1>2 DEF HasRead
<1>7. Chain(t, 0, r, After(r)) /\ (~cut => Reaches(t, 0, After(r), WritePlace(w)))
  BY <1>2, <1>3, <1>4, <1>5 DEF Directed
<1>8. Chain(t, HasRead(d), Reading(d), ReadPlace(d))
  BY <1>6, <1>7 DEF Chain, Links
<1>9. Promised(r, w, over) /\ \A j \in 1..Len(q) : Promised(q[j].r, w, over)
  BY <1>2 DEF Directed
<1>10. \A j \in 1..Len(t) : Promised(t[j].r, w, over)
  BY <1>4, <1>9
<1>11. d.asked = r.asks /\ d.data = r.n
  BY <1>6 DEF ReadPlace, After
<1>12. d.asked <= w.asks /\ (d.eof = "notify" => d.closed /\ over /\ d.data = w.sent)
  BY <1>2, <1>9, <1>11 DEF Promised
<1>13. ReaderShape(d)
  BY DEF ReaderShape
<1> QED BY <1>4, <1>6, <1>7, <1>8, <1>10, <1>12, <1>13 DEF Directed

\* What reading finds at e.
LEMMA AtReader ==
    ASSUME TrInv, NEW e \in Ends, ~trR[e].closed
    PROVE  /\ trR[e] \in Readers /\ trW[e] \in Writers /\ trWire[e] \in Seq(PieceSet) /\ ReaderShape(trR[e])
           /\ Directed(trWire[e], trR[e], trW[Peer(e)], trR[Peer(e)].closed, trCut)
           /\ WriterKept(trW[e], trR[e].asked)
           /\ trR[e].closed = FALSE /\ trR[e].bad = FALSE /\ trR[e].eof # "notify"
           /\ trW = [trW EXCEPT ![e] = trW[e]]
<1>1. /\ trR[e] \in Readers /\ trW[e] \in Writers /\ trWire[e] \in Seq(PieceSet) /\ trW \in [Ends -> Writers]
      /\ Directed(trWire[e], trR[e], trW[Peer(e)], trR[Peer(e)].closed, trCut)
      /\ WriterKept(trW[e], trR[e].asked)
  BY DEF TrInv, TrTypes
<1>2. trR[e].closed = FALSE
  BY <1>1 DEF Readers
<1> QED BY <1>1, <1>2 DEF Directed, ReaderShape

\* The pieces in hand, after n more.
LEMMA InHand ==
    ASSUME NEW g \in Seq(PieceSet), NEW q \in Seq(PieceSet), NEW n \in 1..2, n <= Len(q), Len(g) + n <= 2,
           NEW got, got = g \o SubSeq(q, 1, n)
    PROVE  /\ got \in Seq(PieceSet) /\ Len(got) = Len(g) + n
           /\ Len(g) = 0 => got[1] = q[1] /\ (n = 2 => got[2] = q[2])
           /\ Len(g) = 1 => got[1] = g[1] /\ got[2] = q[1]
<1>1. PICK u \in Seq(PieceSet) : u = SubSeq(q, 1, n)
  <2>1. SubSeq(q, 1, n) \in Seq(PieceSet)
    OBVIOUS
  <2> QED BY <2>1
<1>2. Len(u) = n /\ u[1] = q[1] /\ (n = 2 => u[2] = q[2])
  BY <1>1
<1>3. got = g \o u
  BY <1>1
<1>4. got \in Seq(PieceSet) /\ Len(got) = Len(g) + n
  BY <1>2, <1>3
<1>5. CASE Len(g) = 0
  BY <1>2, <1>3, <1>4, <1>5
<1>6. CASE Len(g) # 0
  BY <1>2, <1>3, <1>4, <1>6
<1> QED BY <1>4, <1>5, <1>6

LEMMA HeaderStep ==
    ASSUME TrInv, NEW e \in Ends, RecReadHeader(e)
    PROVE  TrInv'
<1>1. ~trR[e].closed /\ trR[e].rec \in {"idle", "header"}
  BY DEF RecReadHeader
<1>2. PICK rd \in Readers, q \in Seq(PieceSet), w \in Writers : rd = trR[e] /\ q = trWire[e] /\ w = trW[e]
  BY <1>1, AtReader
<1>3. /\ ReaderShape(rd) /\ rd.closed = FALSE /\ rd.bad = FALSE /\ rd.eof # "notify"
      /\ Directed(q, rd, trW[Peer(e)], trR[Peer(e)].closed, trCut)
      /\ WriterKept(w, rd.asked) /\ trW = [trW EXCEPT ![e] = w]
  BY <1>1, <1>2, AtReader
<1>4. PICK n \in RecTakes(e) :
        LET got == rd.got \o SubSeq(q, 1, n) IN
        /\ Consume(e, n)
        /\ trR' = [trR EXCEPT ![e] =
                IF Len(got) < 2 THEN SaveHeader(rd, got)
                ELSE [rd EXCEPT !.rec = "payload", !.got = <<>>, !.head = got[1].r,
                                !.bad = IF Framed(got) THEN @ ELSE TRUE]]
  BY <1>2 DEF RecReadHeader
<1>5. /\ rd.got \in Seq(PieceSet) /\ HasRead(rd) \in 0..3 /\ (rd.rec = "header" => Reading(rd) \in Recs)
      /\ (rd.rec = "header" => HasRead(rd) = 1 /\ Reading(rd) = rd.got[1].r /\ Len(rd.got) = 1 /\ rd.got[1].i = 1)
      /\ (rd.rec = "idle" => HasRead(rd) = 0 /\ Len(rd.got) = 0)
      /\ HasRead(rd) = Len(rd.got) /\ Len(rd.got) \in 0..1
  <2>1. /\ rd.got \in Seq(PieceSet) /\ HasRead(rd) \in 0..3 /\ (rd.rec = "header" => Reading(rd) \in Recs)
        /\ (rd.rec = "header" => HasRead(rd) = 1 /\ Reading(rd) = rd.got[1].r /\ Len(rd.got) = 1)
        /\ (rd.rec = "idle" => HasRead(rd) = 0 /\ rd.got = <<>>)
    BY <1>3, ReaderFacts
  <2>2. rd.rec = "header" => rd.got[1].i = 1
    BY <1>3 DEF ReaderShape
  <2>3. Len(<<>>) = 0
    OBVIOUS
  <2>4. CASE rd.rec = "idle"
    BY <2>1, <2>3, <2>4
  <2>5. CASE rd.rec = "header"
    BY <2>1, <2>2, <2>5
  <2> QED BY <1>1, <1>2, <2>4, <2>5
<1>6. n \in 1..2 /\ n <= Len(q) /\ Len(rd.got) + n <= 2
  BY <1>2, <1>4, <1>5 DEF RecTakes
<1>7. PICK got : got = rd.got \o SubSeq(q, 1, n)
  OBVIOUS
<1>8. /\ got \in Seq(PieceSet) /\ Len(got) = Len(rd.got) + n
      /\ Len(rd.got) = 0 => got[1] = q[1] /\ (n = 2 => got[2] = q[2])
      /\ Len(rd.got) = 1 => got[1] = rd.got[1] /\ got[2] = q[1]
  <2>1. PICK g \in Seq(PieceSet) : g = rd.got
    BY <1>5
  <2>2. got = g \o SubSeq(q, 1, n) /\ Len(g) + n <= 2 /\ n <= Len(q) /\ n \in 1..2
    BY <1>6, <1>7, <2>1
  <2>3. /\ got \in Seq(PieceSet) /\ Len(got) = Len(g) + n
        /\ Len(g) = 0 => got[1] = q[1] /\ (n = 2 => got[2] = q[2])
        /\ Len(g) = 1 => got[1] = g[1] /\ got[2] = q[1]
    BY ONLY <2>2, InHand, q \in Seq(PieceSet), g \in Seq(PieceSet)
  <2> QED BY <2>1, <2>3
<1>9. PICK t : t = SubSeq(q, n + 1, Len(q))
  OBVIOUS
<1>10. trWire' = [trWire EXCEPT ![e] = t]
  BY <1>2, <1>4, <1>9 DEF Consume
<1>11. PICK h \in 0..3, r \in {Reading(rd)}, at \in {ReadPlace(rd)} : h = HasRead(rd)
  BY <1>5
<1>12. Chain(q, h, r, at) /\ (h # 0 => Fits(r, at)) /\ h + n <= 4 /\ h + n < 4
  BY <1>3, <1>5, <1>6, <1>11, ReaderFacts DEF Directed
<1>13. /\ q[1].r \in Recs /\ (h # 0 => q[1].r = r) /\ q[1].i = h + 1
       /\ n = 2 => q[2].i = h + 2 /\ q[2].r = q[1].r
  <2>1. PICK s, k, from : s = q[1].r /\ k = (h + n) % 4 /\ from = IF h + n = 4 THEN After(s) ELSE at
    OBVIOUS
  <2>2. /\ s \in Recs /\ (h # 0 => s = r) /\ q[1].i = h + 1
        /\ n = 2 => q[2].i = h + 2 /\ q[2].r = s
    <3>1. Reader(q, h, r, at, n, t, s, k, from)
      BY <1>6, <1>9, <1>12, <2>1 DEF Reader
    <3> QED BY ONLY <3>1, Reads
  <2> QED BY <2>1, <2>2
<1>14. ASSUME NEW d \in Readers, trR' = [trR EXCEPT ![e] = d], d.closed = rd.closed, d.asked = rd.asked,
              t \in Seq(PieceSet) /\ Directed(t, d, trW[Peer(e)], trR[Peer(e)].closed, trCut)
       PROVE  TrInv'
  <2>1. trW' = [trW EXCEPT ![e] = w] /\ UNCHANGED <<trVer, trCut>>
    BY <1>3 DEF RecReadHeader
  <2>2. trR[e].closed => d.closed
    BY <1>2, <1>14
  <2>3. WriterKept(w, d.asked)
    BY <1>3, <1>14
  <2> QED BY <1>2, <1>10, <1>14, <2>1, <2>2, <2>3, ReadStep
<1>15. CASE Len(got) < 2
  <2>1. PICK d : d = SaveHeader(rd, got)
    OBVIOUS
  <2>2. d \in Readers
    BY <1>8, <2>1 DEF Readers, SaveHeader
  <2>3. /\ d.rec = "header" /\ d.got = got /\ d.closed = rd.closed /\ d.asked = rd.asked /\ d.gen = rd.gen
        /\ d.seq = rd.seq /\ d.data = rd.data /\ d.bad = rd.bad /\ d.eof = rd.eof
    BY <2>1 DEF Readers, SaveHeader
  <2>4. Len(rd.got) = 0 /\ n = 1 /\ Len(got) = 1 /\ got[1] = q[1] /\ h = 0
    BY <1>5, <1>6, <1>8, <1>11, <1>15
  <2>5. HasRead(d) = 1 /\ Reading(d) = q[1].r /\ ReadPlace(d) = ReadPlace(rd) /\ got[1].i = 1
    BY <1>13, <2>3, <2>4 DEF HasRead, Reading, ReadPlace
  <2>6. HasRead(d) = HasRead(rd) + n /\ HasRead(rd) + n < 4
    BY <1>11, <2>4, <2>5
  <2>7. t \in Seq(PieceSet) /\ Directed(t, d, trW[Peer(e)], trR[Peer(e)].closed, trCut)
    <3>1. d.bad = FALSE /\ d.rec # "idle" /\ d.eof # "notify" /\ d.asked = rd.asked
          /\ (d.rec = "header" => Len(d.got) = 1 /\ d.got[1].i = 1)
          /\ (d.rec = "payload" => Len(d.got) <= 1 /\ d.head \in Recs)
      BY <1>3, <2>3, <2>4, <2>5
    <3>2. PartRead(q, rd, n, t, d)
      BY <1>6, <1>9, <2>5, <2>6, <3>1 DEF PartRead
    <3> QED BY ONLY <1>3, <3>2, ReadsPart
  <2> QED BY <1>4, <1>7, <1>14, <1>15, <2>1, <2>2, <2>3, <2>7
<1>16. CASE ~(Len(got) < 2)
  <2>1. Len(got) = 2 /\ h + n = 2
    BY <1>5, <1>6, <1>8, <1>11, <1>16
  <2>2. got[1].i = 1 /\ got[2].i = 2 /\ got[1].r = q[1].r /\ got[2].r = q[1].r
    <3>1. CASE Len(rd.got) = 0
      <4>1. n = 2 /\ h = 0 /\ got[1] = q[1] /\ got[2] = q[2]
        <5>1. h = 0 /\ n = 2
          BY <1>5, <1>6, <1>11, <2>1, <3>1
        <5> QED BY <1>8, <3>1, <5>1
      <4> QED BY <1>13, <4>1
    <3>2. CASE Len(rd.got) = 1
      <4>1. h = 1 /\ rd.rec = "header" /\ got[1] = rd.got[1] /\ got[2] = q[1] /\ rd.got[1].i = 1 /\ r = rd.got[1].r
        BY <1>1, <1>2, <1>5, <1>8, <1>11, <3>2
      <4> QED BY <1>13, <4>1
    <3> QED BY <1>5, <3>1, <3>2
  <2>3. PICK s \in Recs : s = q[1].r
    BY <1>13
  <2>4. <<>> \in Seq(PieceSet)
    OBVIOUS
  <2>5. PICK z \in Seq(PieceSet) : z = <<>>
    BY <2>4
  <2>6. PICK d : d = [rd EXCEPT !.rec = "payload", !.got = z, !.head = s, !.bad = FALSE]
    OBVIOUS
  <2>7. trR' = [trR EXCEPT ![e] = d]
    BY <1>3, <1>4, <1>7, <1>16, <2>2, <2>3, <2>5, <2>6 DEF Framed
  <2>8. d \in Readers
    BY ONLY <2>6, rd \in Readers, s \in Recs, z \in Seq(PieceSet) DEF Readers
  <2>9. /\ d.rec = "payload" /\ d.got = z /\ d.head = s /\ d.closed = rd.closed /\ d.asked = rd.asked /\ d.gen = rd.gen
        /\ d.seq = rd.seq /\ d.data = rd.data /\ d.bad = FALSE /\ d.eof = rd.eof
    BY ONLY <2>6, rd \in Readers, s \in Recs, z \in Seq(PieceSet) DEF Readers
  <2>10. HasRead(d) = 2 /\ Reading(d) = q[1].r /\ ReadPlace(d) = ReadPlace(rd) /\ Len(d.got) = 0
    BY <2>3, <2>5, <2>9 DEF HasRead, Reading, ReadPlace
  <2>11. HasRead(d) = HasRead(rd) + n /\ HasRead(rd) + n < 4 /\ Len(d.got) <= 1
    BY <1>11, <2>1, <2>10
  <2>12. t \in Seq(PieceSet) /\ Directed(t, d, trW[Peer(e)], trR[Peer(e)].closed, trCut)
    <3>1. d.bad = FALSE /\ d.rec # "idle" /\ d.eof # "notify" /\ d.asked = rd.asked
          /\ (d.rec = "header" => Len(d.got) = 1 /\ d.got[1].i = 1)
          /\ (d.rec = "payload" => Len(d.got) <= 1 /\ d.head \in Recs)
      BY <1>3, <2>9, <2>11
    <3>2. PartRead(q, rd, n, t, d)
      BY <1>6, <1>9, <2>10, <2>11, <3>1 DEF PartRead
    <3> QED BY ONLY <1>3, <3>2, ReadsPart
  <2> QED BY <1>14, <2>7, <2>8, <2>9, <2>12
<1> QED BY <1>15, <1>16

\* Opened(), field by field: the record fits, so it opens.
Opening(rd, r, o) ==
    /\ rd \in Readers /\ r \in Recs /\ Fits(r, ReadPlace(rd)) /\ rd.bad = FALSE /\ rd.eof # "notify"
    /\ o = Opened(rd, r)

LEMMA OpenedFacts ==
    ASSUME NEW rd, NEW r, NEW o, Opening(rd, r, o)
    PROVE  /\ o \in Readers /\ o.rec = "idle" /\ o.got = <<>> /\ ReadPlace(o) = After(r) /\ o.bad = FALSE
           /\ o.eof = "notify" => o.closed /\ r.kind = "close"
           /\ o.gen # rd.gen <=> r.kind \in {"ku0", "ku1"}
           /\ o.asked = IF r.kind = "ku1" THEN rd.asked + 1 ELSE rd.asked
           /\ rd.closed => o.closed
<1> USE DEF Opening
<1>0. rd \in Readers
  OBVIOUS
<1>1. /\ rd.gen \in Nat /\ rd.seq \in Nat /\ rd.data \in Nat /\ rd.asked \in Nat
      /\ r.kind \in {"data", "ku0", "ku1", "close"} /\ rd.closed \in BOOLEAN
  BY DEF Readers, Recs
<1>2. /\ r.gen = rd.gen /\ r.seq = rd.seq
      /\ r.n = IF r.kind = "data" THEN rd.data + 1 ELSE rd.data
      /\ r.asks = IF r.kind = "ku1" THEN rd.asked + 1 ELSE rd.asked
  BY DEF Fits, ReadPlace
<1>3. PICK z \in Seq(PieceSet) : z = <<>>
  <2>1. <<>> \in Seq(PieceSet)
    OBVIOUS
  <2> QED BY <2>1
<1>4. PICK s1 \in Nat, d1 \in Nat, g1 \in Nat, a1 \in Nat :
        s1 = rd.seq + 1 /\ d1 = rd.data + 1 /\ g1 = rd.gen + 1 /\ a1 = rd.asked + 1
  <2>1. rd.seq + 1 \in Nat /\ rd.data + 1 \in Nat /\ rd.gen + 1 \in Nat /\ rd.asked + 1 \in Nat
    BY <1>1
  <2> QED BY <2>1
<1>5. PICK b : b = [rd EXCEPT !.rec = "idle", !.got = z, !.seq = s1]
  OBVIOUS
<1>6. b \in Readers
  BY ONLY <1>0, <1>5, z \in Seq(PieceSet), s1 \in Nat DEF Readers
<1>7. /\ b.rec = "idle" /\ b.got = z /\ b.seq = s1 /\ b.gen = rd.gen /\ b.data = rd.data /\ b.asked = rd.asked
      /\ b.bad = rd.bad /\ b.eof = rd.eof /\ b.closed = rd.closed
  BY ONLY <1>0, <1>5, z \in Seq(PieceSet), s1 \in Nat DEF Readers
<1>8. CASE r.kind = "data"
  <2>1. o = [b EXCEPT !.data = d1, !.bad = FALSE]
    BY <1>1, <1>2, <1>3, <1>4, <1>5, <1>7, <1>8 DEF Opened
  <2>2. o \in Readers
    BY ONLY <2>1, <1>6, d1 \in Nat DEF Readers
  <2>3. /\ o.rec = b.rec /\ o.got = b.got /\ o.seq = b.seq /\ o.gen = b.gen /\ o.data = d1 /\ o.asked = b.asked
        /\ o.bad = FALSE /\ o.eof = b.eof /\ o.closed = b.closed
    BY ONLY <2>1, <1>6 DEF Readers
  <2>4. ReadPlace(o) = After(r)
    BY <1>2, <1>4, <1>7, <1>8, <2>3 DEF ReadPlace, After
  <2> QED BY <1>3, <1>7, <1>8, <2>2, <2>3, <2>4
<1>9. CASE r.kind = "close"
  <2>1. o = [b EXCEPT !.closed = TRUE, !.eof = "notify"]
    BY <1>1, <1>2, <1>3, <1>4, <1>5, <1>9 DEF Opened
  <2>2. o \in Readers
    BY ONLY <2>1, <1>6 DEF Readers
  <2>3. /\ o.rec = b.rec /\ o.got = b.got /\ o.seq = b.seq /\ o.gen = b.gen /\ o.data = b.data /\ o.asked = b.asked
        /\ o.bad = b.bad /\ o.eof = "notify" /\ o.closed = TRUE
    BY ONLY <2>1, <1>6 DEF Readers
  <2>4. ReadPlace(o) = After(r)
    BY <1>2, <1>4, <1>7, <1>9, <2>3 DEF ReadPlace, After
  <2> QED BY <1>3, <1>7, <1>9, <2>2, <2>3, <2>4
<1>10. CASE r.kind \in {"ku0", "ku1"}
  <2>1. PICK a \in Nat : a = IF r.kind = "ku1" THEN a1 ELSE rd.asked
    BY <1>1, <1>4
  <2>2. o = [b EXCEPT !.gen = g1, !.seq = 0, !.asked = a]
    <3>1. r.kind # "data" /\ r.kind # "close"
      BY <1>10
    <3>2. o = [b EXCEPT !.gen = b.gen + 1, !.seq = 0, !.asked = IF r.kind = "ku1" THEN b.asked + 1 ELSE b.asked]
      BY <1>2, <1>3, <1>4, <1>5, <3>1 DEF Opened
    <3> QED BY <1>4, <1>7, <2>1, <3>2
  <2>3. o \in Readers
    BY ONLY <2>2, <1>6, g1 \in Nat, a \in Nat DEF Readers
  <2>4. /\ o.rec = b.rec /\ o.got = b.got /\ o.seq = 0 /\ o.gen = g1 /\ o.data = b.data /\ o.asked = a
        /\ o.bad = b.bad /\ o.eof = b.eof /\ o.closed = b.closed
    BY ONLY <2>2, <1>6 DEF Readers
  <2>5. ReadPlace(o) = After(r)
    BY <1>2, <1>4, <1>7, <1>10, <2>1, <2>4 DEF ReadPlace, After
  <2>6. g1 # rd.gen
    BY <1>1, <1>4
  <2> QED BY <1>3, <1>4, <1>7, <1>10, <2>1, <2>3, <2>4, <2>5, <2>6
<1> QED BY <1>1, <1>8, <1>9, <1>10

\* apply_key_update owes an answer to a request, and to nothing else.
LEMMA AskedKept ==
    ASSUME NEW w \in Writers, NEW asked \in Nat, WriterKept(w, asked), NEW kind, NEW more \in Nat, asked <= more,
           kind = "ku1" => more = asked + 1, NEW v, v = w \/ v = Asked(w, kind)
    PROVE  /\ v \in Writers /\ WritePlace(v) = WritePlace(w) /\ v.asks = w.asks /\ v.sent = w.sent
           /\ WriterKept(v, more)
<1>1. w.updates \in Nat /\ w.budget \in Nat /\ w.asks \in Nat /\ w.pending \in BOOLEAN
  BY WriterFacts
<1>2. /\ w.out = <<>> /\ w.twice = FALSE /\ Fresh(w)
      /\ w.updates + (IF w.pending THEN 1 ELSE 0) <= w.asks + w.budget + asked
  BY DEF WriterKept
<1>3. CASE v = w
  BY <1>1, <1>2, <1>3 DEF WriterKept
<1>4. CASE v = Asked(w, kind)
  <2>1. PICK p \in BOOLEAN : p = IF kind = "ku1" THEN TRUE ELSE w.pending
    BY <1>1
  <2>2. v = [w EXCEPT !.pending = p]
    BY <1>4, <2>1 DEF Asked
  <2>3. v \in Writers
    BY ONLY <2>2, w \in Writers, p \in BOOLEAN DEF Writers
  <2>4. /\ v.out = w.out /\ v.gen = w.gen /\ v.seq = w.seq /\ v.last = w.last /\ v.twice = w.twice
        /\ v.sent = w.sent /\ v.pending = p /\ v.asks = w.asks /\ v.updates = w.updates /\ v.budget = w.budget
    BY ONLY <2>2, w \in Writers, p \in BOOLEAN DEF Writers
  <2>5. WritePlace(v) = WritePlace(w) /\ Fresh(v)
    BY <1>2, <2>4 DEF WritePlace, Fresh
  <2>6. v.updates + (IF v.pending THEN 1 ELSE 0) <= v.asks + v.budget + more
    <3>1. CASE kind = "ku1"
      BY <1>1, <1>2, <2>1, <2>4, <3>1
    <3>2. CASE kind # "ku1"
      BY <1>1, <1>2, <2>1, <2>4, <3>2
    <3> QED BY <3>1, <3>2
  <2> QED BY <1>2, <2>3, <2>4, <2>5, <2>6 DEF WriterKept
<1> QED BY <1>3, <1>4

LEMMA PayloadStep ==
    ASSUME TrInv, NEW e \in Ends, RecReadPayload(e)
    PROVE  TrInv'
<1>1. ~trR[e].closed /\ trR[e].rec = "payload"
  BY DEF RecReadPayload
<1>2. PICK rd \in Readers, q \in Seq(PieceSet), w \in Writers : rd = trR[e] /\ q = trWire[e] /\ w = trW[e]
  BY <1>1, AtReader
<1>3. /\ ReaderShape(rd) /\ rd.closed = FALSE /\ rd.bad = FALSE /\ rd.eof # "notify" /\ rd.rec = "payload"
      /\ Directed(q, rd, trW[Peer(e)], trR[Peer(e)].closed, trCut)
      /\ WriterKept(w, rd.asked) /\ trW = [trW EXCEPT ![e] = w]
  BY <1>1, <1>2, AtReader
<1>4. PICK n \in RecTakes(e) :
        LET got == rd.got \o SubSeq(q, 1, n)
            o == Opened(rd, rd.head) IN
        /\ Consume(e, n)
        /\ IF Len(got) < 2
             THEN trR' = [trR EXCEPT ![e] = SavePayload(rd, got)] /\ UNCHANGED trW
             ELSE /\ trR' = [trR EXCEPT ![e] = o]
                  /\ trW' = [trW EXCEPT ![e] = IF o.gen # rd.gen THEN Asked(w, rd.head.kind) ELSE w]
  BY <1>2 DEF RecReadPayload
<1>5. PICK r \in Recs : r = rd.head /\ Reading(rd) = r /\ Fits(r, ReadPlace(rd))
  BY <1>3, ReaderFacts
<1>6. /\ rd.got \in Seq(PieceSet) /\ HasRead(rd) = 2 + Len(rd.got) /\ Len(rd.got) \in 0..1 /\ rd.asked \in Nat
      /\ rd.head \in Recs
  <2>1. rd.got \in Seq(PieceSet) /\ HasRead(rd) = 2 + Len(rd.got) /\ HasRead(rd) \in 0..3 /\ rd.asked \in Nat
    BY <1>3, ReaderFacts
  <2>2. PICK l \in Nat : l = Len(rd.got)
    BY <2>1
  <2>3. l <= 1
    BY <1>3, <2>2 DEF ReaderShape
  <2>4. l \in 0..1
    BY <2>3
  <2> QED BY ONLY <1>5, <2>1, <2>2, <2>4
<1>7. PICK g \in Seq(PieceSet) : g = rd.got
  BY <1>6
<1>8. n \in 1..2 /\ n <= Len(q) /\ Len(g) + n <= 2 /\ Len(g) \in 0..1
  BY <1>2, <1>4, <1>6, <1>7 DEF RecTakes
<1>9. PICK got : got = g \o SubSeq(q, 1, n)
  OBVIOUS
<1>10. /\ got \in Seq(PieceSet) /\ Len(got) = Len(g) + n
       /\ Len(g) = 0 => got[1] = q[1] /\ (n = 2 => got[2] = q[2])
       /\ Len(g) = 1 => got[1] = g[1] /\ got[2] = q[1]
  BY ONLY <1>8, <1>9, InHand, q \in Seq(PieceSet), g \in Seq(PieceSet)
<1>11. PICK t : t = SubSeq(q, n + 1, Len(q))
  OBVIOUS
<1>12. trWire' = [trWire EXCEPT ![e] = t] /\ UNCHANGED <<trVer, trCut>>
  BY <1>2, <1>4, <1>11 DEF Consume, RecReadPayload
<1>13. CASE Len(got) < 2
  <2>1. PICK d : d = SavePayload(rd, got)
    OBVIOUS
  <2>2. d \in Readers
    BY ONLY <1>10, <2>1, rd \in Readers DEF Readers, SavePayload
  <2>3. /\ d.rec = rd.rec /\ d.got = got /\ d.head = rd.head /\ d.closed = rd.closed /\ d.asked = rd.asked
        /\ d.gen = rd.gen /\ d.seq = rd.seq /\ d.data = rd.data /\ d.bad = rd.bad /\ d.eof = rd.eof
    BY ONLY <2>1, rd \in Readers DEF Readers, SavePayload
  <2>4. Len(g) = 0 /\ n = 1 /\ Len(got) = 1 /\ HasRead(rd) = 2
    BY <1>6, <1>7, <1>8, <1>10, <1>13
  <2>5. HasRead(d) = 3 /\ Reading(d) = r /\ ReadPlace(d) = ReadPlace(rd)
    BY <1>3, <1>5, <2>3, <2>4 DEF HasRead, Reading, ReadPlace
  <2>6. q[1].r = r
    <3>1. q # <<>>
      <4>1. Len(<<>>) = 0
        OBVIOUS
      <4> QED BY <1>8, <4>1
    <3>2. Links(q[1], HasRead(rd), Reading(rd), ReadPlace(rd))
      BY <1>3, <3>1 DEF Directed, Chain
    <3> QED BY <1>5, <2>4, <3>2 DEF Links
  <2>7. PartRead(q, rd, n, t, d)
    BY <1>3, <1>5, <1>8, <1>11, <2>3, <2>4, <2>5, <2>6 DEF PartRead
  <2>8. t \in Seq(PieceSet) /\ Directed(t, d, trW[Peer(e)], trR[Peer(e)].closed, trCut)
    BY ONLY <1>3, <2>7, ReadsPart
  <2>9. trR' = [trR EXCEPT ![e] = d] /\ trW' = [trW EXCEPT ![e] = w]
    BY <1>3, <1>4, <1>7, <1>9, <1>13, <2>1
  <2>10. WriterKept(w, d.asked) /\ (trR[e].closed => d.closed)
    BY <1>2, <1>3, <2>3
  <2> QED BY <1>2, <1>12, <2>2, <2>8, <2>9, <2>10, ReadStep
<1>14. CASE ~(Len(got) < 2)
  <2>1. PICK o : o = Opened(rd, r)
    OBVIOUS
  <2>2. /\ o \in Readers /\ o.rec = "idle" /\ o.got = <<>> /\ ReadPlace(o) = After(r) /\ o.bad = FALSE
        /\ (o.eof = "notify" => o.closed /\ r.kind = "close")
        /\ (o.gen # rd.gen <=> r.kind \in {"ku0", "ku1"})
        /\ o.asked = IF r.kind = "ku1" THEN rd.asked + 1 ELSE rd.asked
        /\ (rd.closed => o.closed)
    <3>1. Opening(rd, r, o)
      BY <1>3, <1>5, <2>1 DEF Opening
    <3> QED BY ONLY <3>1, OpenedFacts
  <2>3. Len(g) + n = 2 /\ HasRead(rd) + n = 4
    BY <1>6, <1>7, <1>8, <1>10, <1>14
  <2>4. WholeRead(q, rd, n, t, o)
    BY <1>3, <1>5, <1>8, <1>11, <2>2, <2>3 DEF WholeRead
  <2>5. t \in Seq(PieceSet) /\ Directed(t, o, trW[Peer(e)], trR[Peer(e)].closed, trCut)
    BY ONLY <1>3, <2>4, ReadsWhole
  <2>6. PICK v : v = IF o.gen # rd.gen THEN Asked(w, r.kind) ELSE w
    OBVIOUS
  <2>7. trR' = [trR EXCEPT ![e] = o] /\ trW' = [trW EXCEPT ![e] = v]
    BY <1>4, <1>5, <1>7, <1>9, <1>14, <2>1, <2>6
  <2>8. o.asked \in Nat /\ rd.asked <= o.asked /\ (r.kind = "ku1" => o.asked = rd.asked + 1)
    BY <1>6, <2>2
  <2>9. /\ v \in Writers /\ WritePlace(v) = WritePlace(w) /\ v.asks = w.asks /\ v.sent = w.sent
        /\ WriterKept(v, o.asked)
    <3>1. PICK asked \in Nat, more \in Nat, kind \in {r.kind} : asked = rd.asked /\ more = o.asked
      BY <1>6, <2>8
    <3>2. WriterKept(w, asked) /\ asked <= more /\ (kind = "ku1" => more = asked + 1) /\ (v = w \/ v = Asked(w, kind))
      BY <1>3, <2>6, <2>8, <3>1
    <3>3. /\ v \in Writers /\ WritePlace(v) = WritePlace(w) /\ v.asks = w.asks /\ v.sent = w.sent
          /\ WriterKept(v, more)
      BY ONLY <3>2, AskedKept, w \in Writers, asked \in Nat, more \in Nat
    <3> QED BY <3>1, <3>3
  <2> QED BY <1>2, <1>12, <2>2, <2>5, <2>7, <2>9, ReadStep
<1> QED BY <1>13, <1>14

LEMMA EofStep ==
    ASSUME TrInv, NEW e \in Ends, ReadEof(e)
    PROVE  TrInv'
<1>1. ~trR[e].closed
  BY DEF ReadEof
<1>2. PICK rd \in Readers, q \in Seq(PieceSet), w \in Writers : rd = trR[e] /\ q = trWire[e] /\ w = trW[e]
  BY <1>1, AtReader
<1>3. /\ Directed(q, rd, trW[Peer(e)], trR[Peer(e)].closed, trCut)
      /\ WriterKept(w, rd.asked) /\ trW = [trW EXCEPT ![e] = w]
  BY <1>1, <1>2, AtReader
<1>4. PICK x \in {"error", "clean"} : x = IF rd.rec = "payload" THEN "error" ELSE "clean"
  OBVIOUS
<1>5. PICK d : d = [rd EXCEPT !.closed = TRUE, !.eof = x]
  OBVIOUS
<1>6. d \in Readers
  BY <1>5 DEF Readers
<1>7. /\ d.rec = rd.rec /\ d.got = rd.got /\ d.head = rd.head /\ d.gen = rd.gen /\ d.seq = rd.seq
      /\ d.data = rd.data /\ d.asked = rd.asked /\ d.bad = rd.bad /\ d.eof # "notify" /\ d.closed
  BY <1>4, <1>5 DEF Readers
<1>8. Directed(q, d, trW[Peer(e)], trR[Peer(e)].closed, trCut)
  BY <1>3, <1>7, ReaderStops
<1>9. trR \in [Ends -> Readers] /\ trWire \in [Ends -> Seq(PieceSet)]
  BY DEF TrInv, TrTypes
<1>10. trR' = [trR EXCEPT ![e] = d] /\ trWire' = [trWire EXCEPT ![e] = q] /\ trW' = [trW EXCEPT ![e] = w]
       /\ UNCHANGED <<trVer, trCut>>
  BY <1>2, <1>3, <1>4, <1>5, <1>9 DEF ReadEof
<1>11. WriterKept(w, d.asked)
  BY <1>3, <1>7
<1> QED BY <1>2, <1>6, <1>7, <1>8, <1>10, <1>11, ReadStep

\* What has not arrived never does.
LEMMA CutKept ==
    ASSUME NEW q \in Seq(PieceSet), NEW rd, NEW w, NEW over, NEW cut, Directed(q, rd, w, over, cut), NEW k \in 0..Len(q)
    PROVE  SubSeq(q, 1, k) \in Seq(PieceSet) /\ Directed(SubSeq(q, 1, k), rd, w, over, TRUE)
<1>1. PICK a \in Nat : a = Len(q)
  OBVIOUS
<1>2. SubSeq(q, 1, k) \in Seq(PieceSet)
  OBVIOUS
<1>3. PICK t \in Seq(PieceSet) : t = SubSeq(q, 1, k)
  BY <1>2
<1>4. Len(t) = k /\ \A j \in 1..k : t[j] = q[j] /\ j \in 1..a
  BY <1>1, <1>3
<1>5. Chain(q, HasRead(rd), Reading(rd), ReadPlace(rd))
  BY DEF Directed
<1>6. t # <<>> => q # <<>> /\ t[1] = q[1]
  BY <1>1, <1>4
<1>7. ASSUME NEW j \in 1..(k - 1) PROVE t[j] = q[j] /\ t[j + 1] = q[j + 1] /\ j \in 1..(a - 1)
  <2>1. j \in 1..k /\ j + 1 \in 1..k /\ j \in 1..(a - 1)
    BY <1>1
  <2> QED BY <1>4, <2>1
<1>8. Chain(t, HasRead(rd), Reading(rd), ReadPlace(rd))
  BY <1>1, <1>4, <1>5, <1>6, <1>7 DEF Chain
<1>9. \A j \in 1..Len(t) : Promised(t[j].r, w, over)
  BY <1>1, <1>4 DEF Directed
<1>10. Directed(t, rd, w, over, TRUE)
  BY <1>8, <1>9 DEF Directed
<1> QED BY <1>3, <1>10

LEMMA CutStep ==
    ASSUME TrInv, Cut
    PROVE  TrInv'
<1>1. PICK e \in Ends : \E k \in 0..Len(trWire[e]) :
        trWire' = [f \in Ends |-> IF f = e THEN SubSeq(trWire[e], 1, k) ELSE <<>>]
  BY DEF Cut
<1>2. PICK k \in 0..Len(trWire[e]) :
        trWire' = [f \in Ends |-> IF f = e THEN SubSeq(trWire[e], 1, k) ELSE <<>>]
  BY <1>1
<1>3. trCut' = TRUE /\ UNCHANGED <<trVer, trW, trR>>
  BY DEF Cut
<1>4. ASSUME NEW f \in Ends
      PROVE  /\ trWire'[f] \in Seq(PieceSet)
             /\ Directed(trWire'[f], trR[f], trW[Peer(f)], trR[Peer(f)].closed, TRUE)
  <2>1. PICK q \in Seq(PieceSet) : q = trWire[f]
    BY DEF TrInv, TrTypes
  <2>2. Directed(q, trR[f], trW[Peer(f)], trR[Peer(f)].closed, trCut)
    BY <2>1 DEF TrInv
  <2>3. PICK m \in 0..Len(q) : trWire'[f] = SubSeq(q, 1, m)
    <3>1. CASE f = e
      BY <1>2, <2>1, <3>1
    <3>2. CASE f # e
      <4>1. 0 \in 0..Len(q) /\ SubSeq(q, 1, 0) = <<>>
        OBVIOUS
      <4> QED BY <1>2, <3>2, <4>1
    <3> QED BY <3>1, <3>2
  <2> QED BY <2>2, <2>3, CutKept
<1>5. TrTypes'
  BY <1>2, <1>3, <1>4 DEF TrInv, TrTypes
<1> QED BY <1>3, <1>4, <1>5 DEF TrInv

LEMMA TrStart == TrInit => TrInv
<1> SUFFICES ASSUME TrInit PROVE TrInv
  OBVIOUS
<1>1. PICK z \in Seq(PieceSet) : z = <<>>
  <2>1. <<>> \in Seq(PieceSet)
    OBVIOUS
  <2> QED BY <2>1
<1>2. PICK l \in Nat \X Int : l = <<0, -1>>
  <2>1. 0 \in Nat /\ -1 \in Int
    OBVIOUS
  <2> QED BY <2>1
<1>3. PICK w : w = [gen |-> 0, seq |-> 0, records |-> 0, pending |-> FALSE, out |-> z,
                    sent |-> 0, writes |-> 0, asks |-> 0, updates |-> 0, budget |-> 0, last |-> l, twice |-> FALSE]
  OBVIOUS
<1>4. PICK rd : rd = [gen |-> 0, seq |-> 0, rec |-> "idle", got |-> z, head |-> NoRecord,
                      data |-> 0, asked |-> 0, closed |-> FALSE, eof |-> "", bad |-> FALSE]
  OBVIOUS
<1>5. w \in Writers /\ rd \in Readers
  BY ONLY <1>3, <1>4, z \in Seq(PieceSet), l \in Nat \X Int DEF Writers, Readers
<1>6. \A e \in Ends : trW[e] = w /\ trR[e] = rd /\ trWire[e] = z
  BY <1>1, <1>2, <1>3, <1>4 DEF TrInit
<1>7. TrTypes
  <2>1. trW = [e \in Ends |-> w] /\ trR = [e \in Ends |-> rd] /\ trWire = [e \in Ends |-> z]
        /\ trVer \in {12, 13} /\ trCut = FALSE
    BY <1>1, <1>2, <1>3, <1>4 DEF TrInit
  <2> QED BY <1>5, <2>1 DEF TrTypes
<1>8. l[1] = 0 /\ l[2] = -1
  BY <1>2
<1>9. WriterKept(w, 0)
  BY <1>1, <1>3, <1>8 DEF WriterKept, Fresh
<1>10. Len(z) = 0 /\ \A j \in 1..(0 - 1) : FALSE
  BY <1>1
<1>11. Directed(z, rd, w, FALSE, trCut)
  <2>1. ReaderShape(rd) /\ HasRead(rd) = 0 /\ ReadPlace(rd) = WritePlace(w)
    BY <1>1, <1>3, <1>4 DEF ReaderShape, HasRead, ReadPlace, WritePlace
  <2>2. Chain(z, 0, Reading(rd), ReadPlace(rd)) /\ Reaches(z, 0, ReadPlace(rd), WritePlace(w))
    BY <1>1, <1>10, <2>1 DEF Chain, Reaches
  <2>3. rd.rec = "idle" /\ rd.asked <= w.asks /\ rd.eof # "notify"
    <3>1. rd.rec = "idle" /\ rd.asked = 0 /\ rd.eof = ""
      BY <1>4
    <3>2. w.asks = 0
      BY <1>3
    <3>3. "" # "notify" /\ 0 <= 0
      OBVIOUS
    <3> QED BY ONLY <3>1, <3>2, <3>3
  <2> QED BY <1>10, <2>1, <2>2, <2>3 DEF Directed
<1>12. rd.asked = 0 /\ rd.closed = FALSE
  BY <1>4
<1> QED BY <1>6, <1>7, <1>9, <1>11, <1>12, EndFacts DEF TrInv

LEMMA TrKeeps == TrInv /\ [TrNext]_trvars => TrInv'
<1> SUFFICES ASSUME TrInv, [TrNext]_trvars PROVE TrInv'
  OBVIOUS
<1>1. CASE UNCHANGED trvars
  <2>1. trVer' = trVer /\ trW' = trW /\ trR' = trR /\ trWire' = trWire /\ trCut' = trCut
    BY <1>1 DEF trvars
  <2> QED BY <2>1 DEF TrInv, TrTypes
<1>2. ASSUME NEW e \in Ends, WriteAll(e) \/ RequestKeyUpdate(e) \/ CloseNotify(e) PROVE TrInv'
  BY <1>2, WriteStep
<1>3. ASSUME NEW e \in Ends, RecReadHeader(e) PROVE TrInv'
  BY <1>3, HeaderStep
<1>4. ASSUME NEW e \in Ends, RecReadPayload(e) PROVE TrInv'
  BY <1>4, PayloadStep
<1>5. ASSUME NEW e \in Ends, ReadEof(e) PROVE TrInv'
  BY <1>5, EofStep
<1>6. CASE Cut
  BY <1>6, CutStep
<1> QED BY <1>1, <1>2, <1>3, <1>4, <1>5, <1>6 DEF TrNext

LEMMA TrMeans == TrInv => StreamKept
<1> SUFFICES ASSUME TrInv, NEW e \in Ends
             PROVE  /\ ~trR[e].bad /\ ~trW[e].twice
                    /\ trR[e].eof = "notify" => trR[e].data = trW[Peer(e)].sent
                    /\ trW[e].updates <= trW[e].asks + trW[e].budget + trW[Peer(e)].asks
  BY DEF StreamKept, RecordsOpen, UpdatesBounded
<1>1. Directed(trWire[e], trR[e], trW[Peer(e)], trR[Peer(e)].closed, trCut) /\ WriterKept(trW[e], trR[e].asked)
  BY DEF TrInv
<1>2. Peer(e) \in Ends
  BY EndFacts
<1>3. trW[e] \in Writers /\ trW[Peer(e)] \in Writers /\ trR[e] \in Readers
  BY <1>2 DEF TrInv, TrTypes
<1>4. /\ trW[e].updates \in Nat /\ trW[e].asks \in Nat /\ trW[e].budget \in Nat /\ trW[e].pending \in BOOLEAN
      /\ trW[Peer(e)].asks \in Nat
  BY <1>3, WriterFacts
<1>5. trR[e].asked \in Nat
  BY <1>3 DEF Readers
<1>6. trR[e].asked <= trW[Peer(e)].asks /\ ~trR[e].bad /\ (trR[e].eof = "notify" => trR[e].data = trW[Peer(e)].sent)
  BY <1>1 DEF Directed, ReaderShape
<1>7. ~trW[e].twice /\ trW[e].updates + (IF trW[e].pending THEN 1 ELSE 0) <= trW[e].asks + trW[e].budget + trR[e].asked
  BY <1>1 DEF WriterKept
<1>8. trW[e].updates <= trW[e].asks + trW[e].budget + trW[Peer(e)].asks
  BY <1>4, <1>5, <1>6, <1>7
<1> QED BY <1>6, <1>7, <1>8

\* However reads are cut short and resumed, and whichever end changes its keys when:
\* records open under the keys they were sealed with, in order and up to the close, and
\* no key seals two records with one number; updates answer requests or a spent key.
THEOREM StreamStaysKept == TrSpec => []StreamKept
<1>1. TrInit => TrInv
  BY TrStart
<1>2. TrInv /\ [TrNext]_trvars => TrInv'
  BY TrKeeps
<1>3. TrInv => StreamKept
  BY TrMeans
<1> QED BY <1>1, <1>2, <1>3, PTL DEF TrSpec

-----------------------------------------------------------------------------
(***************************************************************************)
(* QuicAgrees, for every configuration and any number of changes the       *)
(* network makes.  The invariant says where the client k is in the flight  *)
(* that server s made, and that its transcript is the server's up to there *)
(* once a Handshake packet has opened; a second part follows the honest    *)
(* run, in which ids, tokens and hellos are the ones the ends chose.       *)
(***************************************************************************)
OwnHello(c) == QtHello([alpn |-> c.calpn, params |-> [QtDefaults EXCEPT !.data = c.data]])
OwnParams(c, o, r) == [QtDefaults EXCEPT !.data = c.data, !.udp = c.udp, !.odcid = o, !.rscid = r]

\* The flight that answers hello h under configuration c, and its pieces on the wire.
QtSh == [type |-> "SH", share |-> "ss"]
QtEe(p) == QtEncryptedExtensions(QtEncode(p, "server"))
QtCert(c) == CertificateMessage(c.cert)
QtCv(c, h, p) == [type |-> "CV", signed |-> <<h, QtSh, QtEe(p), QtCert(c)>>, by |-> c.cert]
QtFin(c, h, p) == QtFinished("server", <<h, QtSh, QtEe(p), QtCert(c), QtCv(c, h, p)>>)
QtFlight(c, h, p) == <<h, QtSh, QtEe(p), QtCert(c), QtCv(c, h, p), QtFin(c, h, p)>>
FlightPart(F, k) == <<F[2 + (k + 1) \div 2], IF k % 2 = 1 THEN "head" ELSE "rest">>
UpTo(F, t) == [i \in 1..2 + t |-> F[i]]
SawUpTo(t) ==
  IF t = 0 THEN {} ELSE IF t = 1 THEN {"EE"} ELSE IF t = 2 THEN {"EE", "CERT"}
  ELSE IF t = 3 THEN {"EE", "CERT", "CV"} ELSE {"EE", "CERT", "CV", "FIN"}

Served(s) == s.pc \in {"ready", "done"}
Made(c, s) == QtFlight(c, s.tr[1], s.params)

ConfShape(c) == c.data \in Nat /\ c.udp \in Nat /\ c.verify \in BOOLEAN /\ c.retry \in BOOLEAN
ClientShape(c, k) ==
  /\ DOMAIN k = {"pc", "hello", "dcid", "odcid", "retry", "token", "expected", "tr", "keys", "buf", "saw", "peer"}
  /\ k.pc \in {"start", "sent", "hello", "done", "failed"} /\ k.keys \in BOOLEAN
  /\ k.hello \in {QtNoMsg, OwnHello(c)} /\ (k.pc = "sent" => k.hello = OwnHello(c)) /\ k.odcid = "d0"
ServerShape(s) ==
  DOMAIN s = {"pc", "odcid", "retry", "params", "tr", "peer"} /\ s.pc \in {"idle", "ready", "done", "failed"}

HandOf(F, hand) ==
  /\ hand \in Seq({FlightPart(F, j) : j \in 1..8}) /\ Len(hand) <= 8
  /\ \A j \in 1..Len(hand) : hand[j] = FlightPart(F, 8 - Len(hand) + j)

ServerMade(c, s, hand) ==
  /\ ~Served(s) => hand = <<>>
  /\ Served(s) =>
       /\ s.params = OwnParams(c, s.odcid, s.retry) /\ s.peer = QtParseParams(s.tr[1].params)
       /\ s.tr = IF s.pc = "ready" THEN Made(c, s) ELSE Append(Made(c, s), QtFinished("client", Made(c, s)))
       /\ HandOf(Made(c, s), hand)

\* The client has taken t messages of the flight.
Confirmed(k, p) == p.iscid = k.expected /\ p.odcid = k.odcid /\ p.rscid = k.retry
Followed(c, k, s, t) ==
  /\ k.tr = UpTo(Made(c, s), t) /\ k.saw = SawUpTo(t) /\ s.tr[1] = OwnHello(c)
  /\ t >= 1 => k.peer = QtParseParams(QtEncode(s.params, "server")) /\ Confirmed(k, k.peer)
  /\ t >= 3 => (c.verify => c.cert = "good")

ClientAt(c, k, s, hand) ==
  /\ k.keys <=> k.pc \notin {"start", "sent"}
  /\ ~k.keys => k.saw = {} /\ (Served(s) => Len(hand) = 8)
  /\ k.pc = "hello" =>
       IF ~Served(s) \/ Len(hand) = 8 THEN k.tr = <<OwnHello(c), k.tr[2]>> /\ k.saw = {}
       ELSE Followed(c, k, s, (8 - Len(hand)) \div 2) /\ hand # <<>>
  /\ k.pc = "done" => Served(s) /\ Followed(c, k, s, 4) /\ hand = <<>>

FinAt(k, s, fin) ==
  /\ s.pc = "done" => k.pc = "done" /\ fin = <<>>
  /\ fin # <<>> => fin = <<QtFinished("client", k.tr)>> /\ k.pc = "done" /\ s.pc = "ready"

\* The honest run of two ends set up for each other.
SetUp(c) == "h3" \in c.calpn \cap c.salpn /\ (c.verify => c.cert = "good") /\ c.udp >= 1200 /\ c.udp <= 65527
RetryToken == [o |-> "d0", r |-> "r1"]
HonestMsg(c, k, s, m) ==
  /\ m.type \in {"initial", "retry", "reply"}
  /\ m.type = "initial" =>
       /\ m.hello = OwnHello(c)
       /\ \/ m.dcid = "d0" /\ m.token = QtNoToken
          \/ m.dcid = "r1" /\ m.token = RetryToken /\ k.retry = "r1"
  /\ m.type = "retry" => c.retry /\ m.scid = "r1" /\ m.token = RetryToken
  /\ m.type = "reply" => m.scid = "server" /\ m.hello = QtSh /\ Served(s)
HonestClient(c, k) ==
  \/ k.retry = QtNoId /\ k.dcid = "d0" /\ k.token = QtNoToken
  \/ k.retry = "r1" /\ k.dcid = "r1" /\ k.token = RetryToken /\ c.retry
Honest(c, k, s, net) ==
  /\ \A m \in net : HonestMsg(c, k, s, m)
  /\ HonestClient(c, k) /\ k.pc # "failed" /\ s.pc # "failed"
  /\ Served(s) => /\ s.tr[1] = OwnHello(c) /\ s.odcid = "d0"
                  /\ s.retry = (IF c.retry THEN "r1" ELSE QtNoId) /\ (c.retry => k.retry = "r1")
  /\ k.keys => Served(s) /\ k.expected = "server" /\ (k.pc = "hello" => k.tr[2] = QtSh)

QtInv ==
  /\ ConfShape(qtconf) /\ ClientShape(qtconf, qtc) /\ ServerShape(qts) /\ qtfaults \in Nat
  /\ ServerMade(qtconf, qts, qthand) /\ ClientAt(qtconf, qtc, qts, qthand) /\ FinAt(qtc, qts, qtfin)
  /\ qtfaults = 0 /\ SetUp(qtconf) => Honest(qtconf, qtc, qts, qtnet)

\* One sequence behind another.
LEMMA Joining ==
  ASSUME NEW S, NEW s \in Seq(S), NEW t \in Seq(S)
  PROVE  /\ s \o t \in Seq(S) /\ Len(s \o t) = Len(s) + Len(t)
         /\ \A j \in 1..Len(s) : (s \o t)[j] = s[j]
         /\ \A j \in 1..Len(t) : (s \o t)[Len(s) + j] = t[j]
<1>0. PICK n \in Nat, k \in Nat : n = Len(s) /\ k = Len(t)
  OBVIOUS
<1>1. s \o t \in Seq(S) /\ Len(s \o t) = n + k
  BY <1>0
<1>2. ASSUME NEW j \in 1..n PROVE (s \o t)[j] = s[j]
  BY <1>0
<1>3. ASSUME NEW j \in 1..k PROVE (s \o t)[n + j] = t[j]
  <2>1. n + j \in 1..(n + k) /\ ~(n + j <= n) /\ (n + j) - n = j
    OBVIOUS
  <2> QED BY <1>0, <2>1
<1> QED BY <1>0, <1>1, <1>2, <1>3

\* The parameters, as parse() finds them: the last of its name, or the default.
LEMMA Parsed ==
  ASSUME NEW ps, NEW k \in DOMAIN QtDefaults
  PROVE  /\ (\A i \in 1..Len(ps) : ps[i][1] # k) => QtParseParams(ps)[k] = QtDefaults[k]
         /\ \A i \in 1..Len(ps) : ps[i][1] = k /\ (\A j \in i + 1..Len(ps) : ps[j][1] # k)
                                  /\ (\A j \in 1..Len(ps) : ps[j][1] = k => j = i) => QtParseParams(ps)[k] = ps[i][2]
<1>1. CASE \A i \in 1..Len(ps) : ps[i][1] # k
  BY <1>1 DEF QtParseParams
<1>2. ASSUME NEW i \in 1..Len(ps), ps[i][1] = k, \A j \in i + 1..Len(ps) : ps[j][1] # k,
             \A j \in 1..Len(ps) : ps[j][1] = k => j = i
      PROVE  QtParseParams(ps)[k] = ps[i][2]
  <2>1. QtLast(ps, k) \in 1..Len(ps) /\ ps[QtLast(ps, k)][1] = k
    BY <1>2 DEF QtLast
  <2>2. QtLast(ps, k) = i
    BY <1>2, <2>1
  <2> QED BY <1>2, <2>2 DEF QtParseParams
<1> QED BY <1>1, <1>2

QtFields == {"odcid", "data", "udp", "cidlimit", "migration", "iscid", "rscid"}
LEMMA DefaultFields ==
  /\ DOMAIN QtDefaults = QtFields /\ QtDefaults.odcid = QtNoId /\ QtDefaults.cidlimit = 2 /\ QtDefaults.migration = 0
  /\ QtDefaults.rscid = QtNoId /\ QtDefaults.udp = 1350 /\ QtDefaults.iscid = QtNoId
  BY DEF QtDefaults, QtFields

LEMMA OwnFields ==
  ASSUME NEW c, NEW o, NEW r, NEW p, p = OwnParams(c, o, r)
  PROVE  /\ DOMAIN p = QtFields /\ p.odcid = o /\ p.rscid = r /\ p.data = c.data /\ p.udp = c.udp
         /\ p.cidlimit = 2 /\ p.migration = 0 /\ p.iscid = QtNoId /\ p = [x \in QtFields |-> p[x]]
<1>1. PICK d : d = QtDefaults
  OBVIOUS
<1>2. d = [x \in QtFields |-> d[x]] /\ DOMAIN d = QtFields /\ d.cidlimit = 2 /\ d.migration = 0 /\ d.iscid = QtNoId
  BY <1>1 DEF QtDefaults, QtFields
<1>3. p = [d EXCEPT !.data = c.data, !.udp = c.udp, !.odcid = o, !.rscid = r]
  BY <1>1 DEF OwnParams
<1>4. DOMAIN p = QtFields /\ p = [x \in QtFields |-> p[x]]
  BY <1>2, <1>3
<1>5. p.odcid = o /\ p.rscid = r /\ p.data = c.data /\ p.udp = c.udp
      /\ p.cidlimit = d.cidlimit /\ p.migration = d.migration /\ p.iscid = d.iscid
  BY <1>2, <1>3 DEF QtFields
<1> QED BY <1>2, <1>4, <1>5

\* encode() of such parameters: four to six entries.
LEMMA EncodedAs ==
  ASSUME NEW p, p.cidlimit = 2, p.migration = 0, NEW scid, NEW ps, ps = QtEncode(p, scid)
  PROVE  /\ p.odcid = QtNoId /\ p.rscid = QtNoId => ps = <<<<"udp", p.udp>>, <<"data", p.data>>, <<"cidlimit", 2>>, <<"iscid", scid>>>>
         /\ p.odcid # QtNoId /\ p.rscid = QtNoId =>
              ps = <<<<"odcid", p.odcid>>, <<"udp", p.udp>>, <<"data", p.data>>, <<"cidlimit", 2>>, <<"iscid", scid>>>>
         /\ p.odcid = QtNoId /\ p.rscid # QtNoId =>
              ps = <<<<"udp", p.udp>>, <<"data", p.data>>, <<"cidlimit", 2>>, <<"iscid", scid>>, <<"rscid", p.rscid>>>>
         /\ p.odcid # QtNoId /\ p.rscid # QtNoId =>
              ps = <<<<"odcid", p.odcid>>, <<"udp", p.udp>>, <<"data", p.data>>, <<"cidlimit", 2>>, <<"iscid", scid>>, <<"rscid", p.rscid>>>>
<1>1. PICK o, u, d, l, i, r : /\ o = <<"odcid", p.odcid>> /\ u = <<"udp", p.udp>> /\ d = <<"data", p.data>>
                              /\ l = <<"cidlimit", 2>> /\ i = <<"iscid", scid>> /\ r = <<"rscid", p.rscid>>
  OBVIOUS
<1>2. ps = (IF p.odcid # QtNoId THEN <<o>> ELSE <<>>) \o <<u, d, l, i>> \o <<>> \o (IF p.rscid # QtNoId THEN <<r>> ELSE <<>>)
  BY <1>1 DEF QtEncode
<1>3. /\ <<>> \o <<u, d, l, i>> \o <<>> \o <<>> = <<u, d, l, i>>
      /\ <<o>> \o <<u, d, l, i>> \o <<>> \o <<>> = <<o, u, d, l, i>>
      /\ <<>> \o <<u, d, l, i>> \o <<>> \o <<r>> = <<u, d, l, i, r>>
      /\ <<o>> \o <<u, d, l, i>> \o <<>> \o <<r>> = <<o, u, d, l, i, r>>
  <2>1. PICK S : S = {o, u, d, l, i, r}
    OBVIOUS
  <2>2. o \in S /\ u \in S /\ d \in S /\ l \in S /\ i \in S /\ r \in S
    BY <2>1
  <2>3. PICK m \in Seq(S) : m = <<u, d, l, i>>
    <3>1. <<u, d, l, i>> \in Seq(S)
      BY ONLY <2>2
    <3> QED BY <3>1
  <2>4. PICK f \in Seq(S), g \in Seq(S), z \in Seq(S) : f = <<o>> /\ g = <<r>> /\ z = <<>>
    <3>1. <<o>> \in Seq(S) /\ <<r>> \in Seq(S) /\ <<>> \in Seq(S)
      BY ONLY <2>2
    <3> QED BY <3>1
  <2>5. z \o m \o z \o z = m
    BY ONLY <2>4, m \in Seq(S), z \in Seq(S)
  <2>6. PICK a \in Seq(S) : a = f \o m
    <3>1. f \o m \in Seq(S)
      BY ONLY f \in Seq(S), m \in Seq(S)
    <3> QED BY <3>1
  <2>7. a = <<o, u, d, l, i>>
    <3>1. Len(m) = 4 /\ Len(f) = 1 /\ m[1] = u /\ m[2] = d /\ m[3] = l /\ m[4] = i /\ f[1] = o
      BY <2>3, <2>4
    <3>2. Len(a) = 5 /\ a[1] = f[1] /\ a[2] = m[1] /\ a[3] = m[2] /\ a[4] = m[3] /\ a[5] = m[4]
      <4>1. Len(a) = 1 + 4 /\ (\A j \in 1..1 : a[j] = f[j]) /\ (\A j \in 1..4 : a[1 + j] = m[j])
        <5>1. /\ Len(f \o m) = Len(f) + Len(m)
              /\ \A j \in 1..Len(f) : (f \o m)[j] = f[j]
              /\ \A j \in 1..Len(m) : (f \o m)[Len(f) + j] = m[j]
          BY ONLY f \in Seq(S), m \in Seq(S), Joining
        <5> QED BY ONLY <2>6, <3>1, <5>1
      <4> QED BY ONLY <4>1
    <3> QED BY ONLY <3>1, <3>2, <2>2, a \in Seq(S)
  <2>8. f \o m \o z \o z = a
    BY ONLY <2>4, <2>6, a \in Seq(S), z \in Seq(S)
  <2>9. PICK b \in Seq(S) : b = m \o g
    <3>1. m \o g \in Seq(S)
      BY ONLY m \in Seq(S), g \in Seq(S)
    <3> QED BY <3>1
  <2>10. b = <<u, d, l, i, r>>
    <3>1. Len(m) = 4 /\ Len(g) = 1 /\ m[1] = u /\ m[2] = d /\ m[3] = l /\ m[4] = i /\ g[1] = r
      BY <2>3, <2>4
    <3>2. Len(b) = 5 /\ b[1] = m[1] /\ b[2] = m[2] /\ b[3] = m[3] /\ b[4] = m[4] /\ b[5] = g[1]
      <4>1. Len(b) = 4 + 1 /\ (\A j \in 1..4 : b[j] = m[j]) /\ (\A j \in 1..1 : b[4 + j] = g[j])
        <5>1. /\ Len(m \o g) = Len(m) + Len(g)
              /\ \A j \in 1..Len(m) : (m \o g)[j] = m[j]
              /\ \A j \in 1..Len(g) : (m \o g)[Len(m) + j] = g[j]
          BY ONLY m \in Seq(S), g \in Seq(S), Joining
        <5> QED BY ONLY <2>9, <3>1, <5>1
      <4> QED BY ONLY <4>1
    <3> QED BY ONLY <3>1, <3>2, <2>2, b \in Seq(S)
  <2>11. z \o m \o z \o g = b
    <3>1. z \o m \o z = m
      BY ONLY <2>4, m \in Seq(S), z \in Seq(S)
    <3> QED BY ONLY <2>9, <3>1
  <2>12. PICK e \in Seq(S) : e = a \o g
    <3>1. a \o g \in Seq(S)
      BY ONLY a \in Seq(S), g \in Seq(S)
    <3> QED BY <3>1
  <2>13. e = <<o, u, d, l, i, r>>
    <3>1. Len(a) = 5 /\ Len(g) = 1 /\ a[1] = o /\ a[2] = u /\ a[3] = d /\ a[4] = l /\ a[5] = i /\ g[1] = r
      BY <2>7, <2>4
    <3>2. Len(e) = 6 /\ e[1] = a[1] /\ e[2] = a[2] /\ e[3] = a[3] /\ e[4] = a[4] /\ e[5] = a[5] /\ e[6] = g[1]
      <4>1. Len(e) = 5 + 1 /\ (\A j \in 1..5 : e[j] = a[j]) /\ (\A j \in 1..1 : e[5 + j] = g[j])
        <5>1. /\ Len(a \o g) = Len(a) + Len(g)
              /\ \A j \in 1..Len(a) : (a \o g)[j] = a[j]
              /\ \A j \in 1..Len(g) : (a \o g)[Len(a) + j] = g[j]
          BY ONLY a \in Seq(S), g \in Seq(S), Joining
        <5> QED BY ONLY <2>12, <3>1, <5>1
      <4> QED BY ONLY <4>1
    <3> QED BY ONLY <3>1, <3>2, <2>2, e \in Seq(S)
  <2>14. f \o m \o z \o g = e
    <3>1. f \o m \o z = a
      BY ONLY <2>4, <2>6, a \in Seq(S), z \in Seq(S)
    <3> QED BY ONLY <2>12, <3>1
  <2> QED BY ONLY <2>3, <2>4, <2>5, <2>7, <2>8, <2>10, <2>11, <2>13, <2>14
<1> QED BY ONLY <1>1, <1>2, <1>3

\* Parameters of this implementation: no migration, two connection ids.
PlainParams(p) == DOMAIN p = QtFields /\ p = [x \in QtFields |-> p[x]] /\ p.cidlimit = 2 /\ p.migration = 0

LEMMA OneOfName ==
  ASSUME NEW ps, NEW k \in QtFields, NEW i \in 1..Len(ps), ps[i][1] = k, \A j \in 1..Len(ps) : j # i => ps[j][1] # k
  PROVE  QtParseParams(ps)[k] = ps[i][2]
<1>1. k \in DOMAIN QtDefaults
  BY DefaultFields
<1>2. \A j \in i + 1..Len(ps) : j \in 1..Len(ps) /\ j # i
  OBVIOUS
<1> QED BY <1>1, <1>2, Parsed

LEMMA NoneOfName ==
  ASSUME NEW ps, NEW k \in QtFields, \A j \in 1..Len(ps) : ps[j][1] # k
  PROVE  QtParseParams(ps)[k] = QtDefaults[k]
  BY DefaultFields, Parsed

\* parse() after encode(): the parameters and the id they were sent with.
LEMMA ParsedBack ==
  ASSUME NEW p, PlainParams(p), NEW scid, NEW ps, ps = QtEncode(p, scid)
  PROVE  QtParseParams(ps) = [p EXCEPT !.iscid = scid]
<1>1. p.cidlimit = 2 /\ p.migration = 0 /\ DOMAIN p = QtFields
  BY DEF PlainParams
<1>2. QtParseParams(ps) = [x \in QtFields |-> QtParseParams(ps)[x]]
  BY DefaultFields DEF QtParseParams
<1>3. PICK q : q = [p EXCEPT !.iscid = scid]
  OBVIOUS
<1>4. /\ q = [x \in QtFields |-> q[x]] /\ q.odcid = p.odcid /\ q.udp = p.udp /\ q.data = p.data
      /\ q.cidlimit = 2 /\ q.migration = 0 /\ q.iscid = scid /\ q.rscid = p.rscid
  BY <1>1, <1>3 DEF QtFields
<1>5. QtDefaults["odcid"] = QtNoId /\ QtDefaults["migration"] = 0 /\ QtDefaults["rscid"] = QtNoId
  BY DefaultFields
<1>6. /\ "odcid" \in QtFields /\ "data" \in QtFields /\ "udp" \in QtFields /\ "cidlimit" \in QtFields
      /\ "migration" \in QtFields /\ "iscid" \in QtFields /\ "rscid" \in QtFields
  BY DEF QtFields
<1>7. SUFFICES /\ QtParseParams(ps)["odcid"] = p.odcid /\ QtParseParams(ps)["udp"] = p.udp
               /\ QtParseParams(ps)["data"] = p.data /\ QtParseParams(ps)["cidlimit"] = 2
               /\ QtParseParams(ps)["migration"] = 0 /\ QtParseParams(ps)["iscid"] = scid
               /\ QtParseParams(ps)["rscid"] = p.rscid
  <2>1. \A x \in QtFields : QtParseParams(ps)[x] = q[x]
    BY <1>4, <1>7 DEF QtFields
  <2> QED BY <1>2, <1>3, <1>4, <2>1
<1>8. CASE p.odcid = QtNoId /\ p.rscid = QtNoId
  <2>1. ps = <<<<"udp", p.udp>>, <<"data", p.data>>, <<"cidlimit", 2>>, <<"iscid", scid>>>>
    BY <1>1, <1>8, EncodedAs
  <2>2. Len(ps) = 4 /\ ps[1] = <<"udp", p.udp>> /\ ps[2] = <<"data", p.data>> /\ ps[3] = <<"cidlimit", 2>>
        /\ ps[4] = <<"iscid", scid>>
    BY <2>1
  <2>3. ps[1][1] = "udp" /\ ps[2][1] = "data" /\ ps[3][1] = "cidlimit" /\ ps[4][1] = "iscid"
        /\ ps[1][2] = p.udp /\ ps[2][2] = p.data /\ ps[3][2] = 2 /\ ps[4][2] = scid
    BY <2>2
  <2>4. \A j \in 1..Len(ps) : j = 1 \/ j = 2 \/ j = 3 \/ j = 4
    BY <2>2
  <2>5. 1 \in 1..Len(ps) /\ 2 \in 1..Len(ps) /\ 3 \in 1..Len(ps) /\ 4 \in 1..Len(ps)
    BY <2>2
  <2>6. QtParseParams(ps)["udp"] = ps[1][2] /\ QtParseParams(ps)["data"] = ps[2][2]
        /\ QtParseParams(ps)["cidlimit"] = ps[3][2] /\ QtParseParams(ps)["iscid"] = ps[4][2]
    BY ONLY <1>6, <2>3, <2>4, <2>5, OneOfName, ZenonT(60)
  <2>7. QtParseParams(ps)["odcid"] = QtDefaults["odcid"] /\ QtParseParams(ps)["migration"] = QtDefaults["migration"]
        /\ QtParseParams(ps)["rscid"] = QtDefaults["rscid"]
    BY ONLY <1>6, <2>3, <2>4, NoneOfName
  <2> QED BY ONLY <1>5, <1>8, <2>3, <2>6, <2>7
<1>9. CASE p.odcid # QtNoId /\ p.rscid = QtNoId
  <2>1. ps = <<<<"odcid", p.odcid>>, <<"udp", p.udp>>, <<"data", p.data>>, <<"cidlimit", 2>>, <<"iscid", scid>>>>
    BY <1>1, <1>9, EncodedAs
  <2>2. Len(ps) = 5 /\ ps[1] = <<"odcid", p.odcid>> /\ ps[2] = <<"udp", p.udp>> /\ ps[3] = <<"data", p.data>>
        /\ ps[4] = <<"cidlimit", 2>> /\ ps[5] = <<"iscid", scid>>
    BY <2>1
  <2>3. ps[1][1] = "odcid" /\ ps[2][1] = "udp" /\ ps[3][1] = "data" /\ ps[4][1] = "cidlimit" /\ ps[5][1] = "iscid"
        /\ ps[1][2] = p.odcid /\ ps[2][2] = p.udp /\ ps[3][2] = p.data /\ ps[4][2] = 2 /\ ps[5][2] = scid
    BY <2>2
  <2>4. \A j \in 1..Len(ps) : j = 1 \/ j = 2 \/ j = 3 \/ j = 4 \/ j = 5
    BY <2>2
  <2>5. 1 \in 1..Len(ps) /\ 2 \in 1..Len(ps) /\ 3 \in 1..Len(ps) /\ 4 \in 1..Len(ps) /\ 5 \in 1..Len(ps)
    BY <2>2
  <2>6. QtParseParams(ps)["odcid"] = ps[1][2] /\ QtParseParams(ps)["udp"] = ps[2][2]
        /\ QtParseParams(ps)["data"] = ps[3][2] /\ QtParseParams(ps)["cidlimit"] = ps[4][2]
        /\ QtParseParams(ps)["iscid"] = ps[5][2]
    BY ONLY <1>6, <2>3, <2>4, <2>5, OneOfName, SMTT(60)
  <2>7. QtParseParams(ps)["migration"] = QtDefaults["migration"] /\ QtParseParams(ps)["rscid"] = QtDefaults["rscid"]
    BY ONLY <1>6, <2>3, <2>4, NoneOfName
  <2> QED BY ONLY <1>5, <1>9, <2>3, <2>6, <2>7
<1>10. CASE p.odcid = QtNoId /\ p.rscid # QtNoId
  <2>1. ps = <<<<"udp", p.udp>>, <<"data", p.data>>, <<"cidlimit", 2>>, <<"iscid", scid>>, <<"rscid", p.rscid>>>>
    BY <1>1, <1>10, EncodedAs
  <2>2. Len(ps) = 5 /\ ps[1] = <<"udp", p.udp>> /\ ps[2] = <<"data", p.data>> /\ ps[3] = <<"cidlimit", 2>>
        /\ ps[4] = <<"iscid", scid>> /\ ps[5] = <<"rscid", p.rscid>>
    BY <2>1
  <2>3. ps[1][1] = "udp" /\ ps[2][1] = "data" /\ ps[3][1] = "cidlimit" /\ ps[4][1] = "iscid" /\ ps[5][1] = "rscid"
        /\ ps[1][2] = p.udp /\ ps[2][2] = p.data /\ ps[3][2] = 2 /\ ps[4][2] = scid /\ ps[5][2] = p.rscid
    BY <2>2
  <2>4. \A j \in 1..Len(ps) : j = 1 \/ j = 2 \/ j = 3 \/ j = 4 \/ j = 5
    BY <2>2
  <2>5. 1 \in 1..Len(ps) /\ 2 \in 1..Len(ps) /\ 3 \in 1..Len(ps) /\ 4 \in 1..Len(ps) /\ 5 \in 1..Len(ps)
    BY <2>2
  <2>6. QtParseParams(ps)["udp"] = ps[1][2] /\ QtParseParams(ps)["data"] = ps[2][2]
        /\ QtParseParams(ps)["cidlimit"] = ps[3][2] /\ QtParseParams(ps)["iscid"] = ps[4][2]
        /\ QtParseParams(ps)["rscid"] = ps[5][2]
    BY ONLY <1>6, <2>3, <2>4, <2>5, OneOfName, SMTT(60)
  <2>7. QtParseParams(ps)["migration"] = QtDefaults["migration"] /\ QtParseParams(ps)["odcid"] = QtDefaults["odcid"]
    BY ONLY <1>6, <2>3, <2>4, NoneOfName
  <2> QED BY ONLY <1>5, <1>10, <2>3, <2>6, <2>7
<1>11. CASE p.odcid # QtNoId /\ p.rscid # QtNoId
  <2>1. ps = <<<<"odcid", p.odcid>>, <<"udp", p.udp>>, <<"data", p.data>>, <<"cidlimit", 2>>, <<"iscid", scid>>, <<"rscid", p.rscid>>>>
    BY <1>1, <1>11, EncodedAs
  <2>2. Len(ps) = 6 /\ ps[1] = <<"odcid", p.odcid>> /\ ps[2] = <<"udp", p.udp>> /\ ps[3] = <<"data", p.data>>
        /\ ps[4] = <<"cidlimit", 2>> /\ ps[5] = <<"iscid", scid>> /\ ps[6] = <<"rscid", p.rscid>>
    BY <2>1
  <2>3. ps[1][1] = "odcid" /\ ps[2][1] = "udp" /\ ps[3][1] = "data" /\ ps[4][1] = "cidlimit" /\ ps[5][1] = "iscid"
        /\ ps[1][2] = p.odcid /\ ps[2][2] = p.udp /\ ps[3][2] = p.data /\ ps[4][2] = 2 /\ ps[5][2] = scid
        /\ ps[6][1] = "rscid" /\ ps[6][2] = p.rscid
    BY <2>2
  <2>4. \A j \in 1..Len(ps) : j = 1 \/ j = 2 \/ j = 3 \/ j = 4 \/ j = 5 \/ j = 6
    BY <2>2
  <2>5. 1 \in 1..Len(ps) /\ 2 \in 1..Len(ps) /\ 3 \in 1..Len(ps) /\ 4 \in 1..Len(ps) /\ 5 \in 1..Len(ps) /\ 6 \in 1..Len(ps)
    BY <2>2
  <2>6a. QtParseParams(ps)["odcid"] = ps[1][2]
    BY ONLY <1>6, <2>3, <2>4, <2>5, OneOfName, ZenonT(60)
  <2>6b. QtParseParams(ps)["udp"] = ps[2][2]
    BY ONLY <1>6, <2>3, <2>4, <2>5, OneOfName, ZenonT(60)
  <2>6c. QtParseParams(ps)["data"] = ps[3][2]
    BY ONLY <1>6, <2>3, <2>4, <2>5, OneOfName, ZenonT(60)
  <2>6d. QtParseParams(ps)["cidlimit"] = ps[4][2]
    BY ONLY <1>6, <2>3, <2>4, <2>5, OneOfName, ZenonT(60)
  <2>6e. QtParseParams(ps)["iscid"] = ps[5][2]
    BY ONLY <1>6, <2>3, <2>4, <2>5, OneOfName, ZenonT(60)
  <2>6f. QtParseParams(ps)["rscid"] = ps[6][2]
    BY ONLY <1>6, <2>3, <2>4, <2>5, OneOfName, ZenonT(60)
  <2>7. QtParseParams(ps)["migration"] = QtDefaults["migration"]
    BY ONLY <1>6, <2>3, <2>4, NoneOfName
  <2> QED BY ONLY <1>5, <1>11, <2>3, <2>6a, <2>6b, <2>6c, <2>6d, <2>6e, <2>6f, <2>7
<1> QED BY <1>8, <1>9, <1>10, <1>11

\* What encode() wrote is what parse() accepts: in range, no name twice.
LEMMA EncodedValid ==
  ASSUME NEW p, PlainParams(p), p.udp \in Nat, p.udp >= 1200, p.udp <= 65527, NEW scid, NEW ps, ps = QtEncode(p, scid)
  PROVE  ~QtParseError(ps)
<1>1. p.cidlimit = 2 /\ p.migration = 0
  BY DEF PlainParams
<1>2. /\ QtInRange("udp", p.udp) /\ QtInRange("data", p.data) /\ QtInRange("cidlimit", 2) /\ QtInRange("iscid", scid)
      /\ (p.odcid # QtNoId => QtInRange("odcid", p.odcid)) /\ (p.rscid # QtNoId => QtInRange("rscid", p.rscid))
  BY SMT DEF QtInRange
<1>3. SUFFICES /\ \A i \in 1..Len(ps) : QtInRange(ps[i][1], ps[i][2])
               /\ \A i, j \in 1..Len(ps) : i < j => ps[i][1] # ps[j][1]
  BY <1>3 DEF QtParseError
<1>4. CASE p.odcid = QtNoId /\ p.rscid = QtNoId
  <2>1. ps = <<<<"udp", p.udp>>, <<"data", p.data>>, <<"cidlimit", 2>>, <<"iscid", scid>>>>
    BY <1>1, <1>4, EncodedAs
  <2>2. Len(ps) = 4 /\ ps[1] = <<"udp", p.udp>> /\ ps[2] = <<"data", p.data>> /\ ps[3] = <<"cidlimit", 2>>
        /\ ps[4] = <<"iscid", scid>>
    BY <2>1
  <2>3. ps[1][1] = "udp" /\ ps[2][1] = "data" /\ ps[3][1] = "cidlimit" /\ ps[4][1] = "iscid"
        /\ ps[1][2] = p.udp /\ ps[2][2] = p.data /\ ps[3][2] = 2 /\ ps[4][2] = scid
    BY <2>2
  <2>4. \A j \in 1..Len(ps) : j = 1 \/ j = 2 \/ j = 3 \/ j = 4
    BY <2>2
  <2>5. \A i \in 1..Len(ps) : QtInRange(ps[i][1], ps[i][2])
    BY ONLY <1>2, <1>4, <2>3, <2>4, SMT
  <2>6. \A i, j \in 1..Len(ps) : i < j => ps[i][1] # ps[j][1]
    BY ONLY <2>3, <2>4, SMT
  <2> QED BY ONLY <2>5, <2>6
<1>5. CASE p.odcid # QtNoId /\ p.rscid = QtNoId
  <2>1. ps = <<<<"odcid", p.odcid>>, <<"udp", p.udp>>, <<"data", p.data>>, <<"cidlimit", 2>>, <<"iscid", scid>>>>
    BY <1>1, <1>5, EncodedAs
  <2>2. Len(ps) = 5 /\ ps[1] = <<"odcid", p.odcid>> /\ ps[2] = <<"udp", p.udp>> /\ ps[3] = <<"data", p.data>>
        /\ ps[4] = <<"cidlimit", 2>> /\ ps[5] = <<"iscid", scid>>
    BY <2>1
  <2>3. ps[1][1] = "odcid" /\ ps[2][1] = "udp" /\ ps[3][1] = "data" /\ ps[4][1] = "cidlimit" /\ ps[5][1] = "iscid"
        /\ ps[1][2] = p.odcid /\ ps[2][2] = p.udp /\ ps[3][2] = p.data /\ ps[4][2] = 2 /\ ps[5][2] = scid
    BY <2>2
  <2>4. \A j \in 1..Len(ps) : j = 1 \/ j = 2 \/ j = 3 \/ j = 4 \/ j = 5
    BY <2>2
  <2>5. \A i \in 1..Len(ps) : QtInRange(ps[i][1], ps[i][2])
    BY ONLY <1>2, <1>5, <2>3, <2>4, SMT
  <2>6. \A i, j \in 1..Len(ps) : i < j => ps[i][1] # ps[j][1]
    BY ONLY <2>3, <2>4, SMT
  <2> QED BY ONLY <2>5, <2>6
<1>6. CASE p.odcid = QtNoId /\ p.rscid # QtNoId
  <2>1. ps = <<<<"udp", p.udp>>, <<"data", p.data>>, <<"cidlimit", 2>>, <<"iscid", scid>>, <<"rscid", p.rscid>>>>
    BY <1>1, <1>6, EncodedAs
  <2>2. Len(ps) = 5 /\ ps[1] = <<"udp", p.udp>> /\ ps[2] = <<"data", p.data>> /\ ps[3] = <<"cidlimit", 2>>
        /\ ps[4] = <<"iscid", scid>> /\ ps[5] = <<"rscid", p.rscid>>
    BY <2>1
  <2>3. ps[1][1] = "udp" /\ ps[2][1] = "data" /\ ps[3][1] = "cidlimit" /\ ps[4][1] = "iscid" /\ ps[5][1] = "rscid"
        /\ ps[1][2] = p.udp /\ ps[2][2] = p.data /\ ps[3][2] = 2 /\ ps[4][2] = scid /\ ps[5][2] = p.rscid
    BY <2>2
  <2>4. \A j \in 1..Len(ps) : j = 1 \/ j = 2 \/ j = 3 \/ j = 4 \/ j = 5
    BY <2>2
  <2>5. \A i \in 1..Len(ps) : QtInRange(ps[i][1], ps[i][2])
    BY ONLY <1>2, <1>6, <2>3, <2>4, SMT
  <2>6. \A i, j \in 1..Len(ps) : i < j => ps[i][1] # ps[j][1]
    BY ONLY <2>3, <2>4, SMT
  <2> QED BY ONLY <2>5, <2>6
<1>7. CASE p.odcid # QtNoId /\ p.rscid # QtNoId
  <2>1. ps = <<<<"odcid", p.odcid>>, <<"udp", p.udp>>, <<"data", p.data>>, <<"cidlimit", 2>>, <<"iscid", scid>>, <<"rscid", p.rscid>>>>
    BY <1>1, <1>7, EncodedAs
  <2>2. Len(ps) = 6 /\ ps[1] = <<"odcid", p.odcid>> /\ ps[2] = <<"udp", p.udp>> /\ ps[3] = <<"data", p.data>>
        /\ ps[4] = <<"cidlimit", 2>> /\ ps[5] = <<"iscid", scid>> /\ ps[6] = <<"rscid", p.rscid>>
    BY <2>1
  <2>3. ps[1][1] = "odcid" /\ ps[2][1] = "udp" /\ ps[3][1] = "data" /\ ps[4][1] = "cidlimit" /\ ps[5][1] = "iscid"
        /\ ps[1][2] = p.odcid /\ ps[2][2] = p.udp /\ ps[3][2] = p.data /\ ps[4][2] = 2 /\ ps[5][2] = scid
        /\ ps[6][1] = "rscid" /\ ps[6][2] = p.rscid
    BY <2>2
  <2>4. \A j \in 1..Len(ps) : j = 1 \/ j = 2 \/ j = 3 \/ j = 4 \/ j = 5 \/ j = 6
    BY <2>2
  <2>5. \A i \in 1..Len(ps) : QtInRange(ps[i][1], ps[i][2])
    BY ONLY <1>2, <1>7, <2>3, <2>4, SMT
  <2>6. \A i, j \in 1..Len(ps) : i < j => ps[i][1] # ps[j][1]
    BY ONLY <2>3, <2>4, SMT
  <2> QED BY ONLY <2>5, <2>6
<1> QED BY <1>4, <1>5, <1>6, <1>7

\* The two ends' own parameters.
LEMMA OwnPlain ==
  ASSUME NEW c, NEW o, NEW r
  PROVE  PlainParams(OwnParams(c, o, r))
  BY OwnFields DEF PlainParams

LEMMA HelloParams ==
  ASSUME NEW c
  PROVE  /\ OwnHello(c).alpn = c.calpn /\ ~QtParseError(OwnHello(c).params)
         /\ QtParseParams(OwnHello(c).params).data = c.data
<1>1. PICK d : d = QtDefaults
  OBVIOUS
<1>2. d = [x \in QtFields |-> d[x]] /\ DOMAIN d = QtFields /\ d.cidlimit = 2 /\ d.migration = 0 /\ d.udp = 1350
  BY <1>1 DEF QtDefaults, QtFields
<1>3. PICK p : p = [d EXCEPT !.data = c.data]
  OBVIOUS
<1>4. DOMAIN p = QtFields /\ p = [x \in QtFields |-> p[x]] /\ p.cidlimit = 2 /\ p.migration = 0 /\ p.udp = 1350 /\ p.data = c.data
  BY <1>2, <1>3 DEF QtFields
<1>5. PlainParams(p)
  BY <1>4 DEF PlainParams
<1>6. OwnHello(c).alpn = c.calpn /\ OwnHello(c).params = QtEncode(p, "client")
  BY <1>1, <1>3 DEF OwnHello, QtHello
<1>7. ~QtParseError(QtEncode(p, "client"))
  BY <1>4, <1>5, EncodedValid
<1>8. QtParseParams(QtEncode(p, "client")) = [p EXCEPT !.iscid = "client"]
  BY <1>5, ParsedBack
<1>9. [p EXCEPT !.iscid = "client"].data = c.data
  BY <1>4
<1> QED BY <1>6, <1>7, <1>8, <1>9

-----------------------------------------------------------------------------
(* The flight and how far the client is in it                              *)

LEMMA FlightFacts ==
  ASSUME NEW c, NEW h, NEW p, NEW F, F = QtFlight(c, h, p)
  PROVE  /\ Len(F) = 6 /\ F[1] = h /\ F[2] = QtSh /\ F[3] = QtEe(p) /\ F[4] = QtCert(c)
         /\ F[5] = QtCv(c, h, p) /\ F[6] = QtFin(c, h, p)
  BY DEF QtFlight

InSet(F, S) == \A i \in 1..6 : F[i] \in S

LEMMA UpToFacts ==
  ASSUME NEW F, NEW S, InSet(F, S), NEW t \in 0..4
  PROVE  /\ UpTo(F, t) \in Seq(S) /\ Len(UpTo(F, t)) = 2 + t
         /\ \A i \in 1..(2 + t) : UpTo(F, t)[i] = F[i]
<1>1. 2 + t \in Nat /\ \A i \in 1..(2 + t) : i \in 1..6
  OBVIOUS
<1> QED BY <1>1 DEF UpTo, InSet

LEMMA UpToGrows ==
  ASSUME NEW F, NEW t \in 0..3
  PROVE  Append(UpTo(F, t), F[3 + t]) = UpTo(F, t + 1)
<1>1. PICK S : InSet(F, S)
  <2>1. InSet(F, {F[i] : i \in 1..6})
    BY DEF InSet
  <2> QED BY <2>1
<1>2. t \in 0..4 /\ t + 1 \in 0..4 /\ 3 + t \in 1..6
  OBVIOUS
<1>3. UpTo(F, t) \in Seq(S) /\ UpTo(F, t + 1) \in Seq(S)
  BY ONLY <1>1, <1>2, UpToFacts
<1>4. PICK u \in Seq(S), v \in Seq(S) : u = UpTo(F, t) /\ v = UpTo(F, t + 1)
  BY <1>3
<1>5. Len(u) = 2 + t /\ Len(v) = 2 + (t + 1) /\ (\A i \in 1..(2 + t) : u[i] = F[i]) /\ (\A i \in 1..(2 + (t + 1)) : v[i] = F[i])
  BY ONLY <1>1, <1>2, <1>4, UpToFacts
<1>6. PICK x \in S : x = F[3 + t]
  BY <1>1, <1>2 DEF InSet
<1>7. Append(u, x) \in Seq(S) /\ Len(Append(u, x)) = Len(u) + 1 /\ (\A i \in 1..Len(u) : Append(u, x)[i] = u[i]) /\ Append(u, x)[Len(u) + 1] = x
  BY ONLY u \in Seq(S), x \in S
<1>8. PICK w \in Seq(S) : w = Append(u, x)
  BY <1>7
<1>9. Len(w) = Len(v) /\ Len(w) = 3 + t /\ \A i \in 1..(3 + t) : w[i] = v[i]
  BY ONLY <1>5, <1>6, <1>7, <1>8, t \in 0..3, SMTT(60)
<1>10. w = v
  <2>1. Len(w) = Len(v) /\ \A i \in 1..Len(w) : w[i] = v[i]
    BY ONLY <1>9
  <2> QED BY ONLY <2>1, w \in Seq(S), v \in Seq(S)
<1> QED BY <1>4, <1>6, <1>8, <1>10

LEMMA UpToIs ==
  ASSUME NEW F
  PROVE  /\ UpTo(F, 0) = <<F[1], F[2]>> /\ UpTo(F, 2) = <<F[1], F[2], F[3], F[4]>>
         /\ UpTo(F, 3) = <<F[1], F[2], F[3], F[4], F[5]>> /\ UpTo(F, 4) = <<F[1], F[2], F[3], F[4], F[5], F[6]>>
<1>1. PICK S : InSet(F, S)
  <2>1. InSet(F, {F[i] : i \in 1..6})
    BY DEF InSet
  <2> QED BY <2>1
<1>2. F[1] \in S /\ F[2] \in S /\ F[3] \in S /\ F[4] \in S /\ F[5] \in S /\ F[6] \in S
  BY <1>1 DEF InSet
<1>3. /\ UpTo(F, 0) \in Seq(S) /\ Len(UpTo(F, 0)) = 2 + 0 /\ \A i \in 1..(2 + 0) : UpTo(F, 0)[i] = F[i]
  BY ONLY <1>1, UpToFacts, 0 \in 0..4
<1>4. /\ UpTo(F, 2) \in Seq(S) /\ Len(UpTo(F, 2)) = 2 + 2 /\ \A i \in 1..(2 + 2) : UpTo(F, 2)[i] = F[i]
  BY ONLY <1>1, UpToFacts, 2 \in 0..4
<1>5. /\ UpTo(F, 3) \in Seq(S) /\ Len(UpTo(F, 3)) = 2 + 3 /\ \A i \in 1..(2 + 3) : UpTo(F, 3)[i] = F[i]
  BY ONLY <1>1, UpToFacts, 3 \in 0..4
<1>6. /\ UpTo(F, 4) \in Seq(S) /\ Len(UpTo(F, 4)) = 2 + 4 /\ \A i \in 1..(2 + 4) : UpTo(F, 4)[i] = F[i]
  BY ONLY <1>1, UpToFacts, 4 \in 0..4
<1>7. UpTo(F, 0) = <<F[1], F[2]>>
  <2>1. PICK u \in Seq(S) : u = UpTo(F, 0)
    BY <1>3
  <2>2. Len(u) = 2 /\ u[1] = F[1] /\ u[2] = F[2]
    BY <1>3, <2>1
  <2> QED BY ONLY <1>2, <2>1, <2>2, u \in Seq(S)
<1>8. UpTo(F, 2) = <<F[1], F[2], F[3], F[4]>>
  <2>1. PICK u \in Seq(S) : u = UpTo(F, 2)
    BY <1>4
  <2>2. Len(u) = 4 /\ u[1] = F[1] /\ u[2] = F[2] /\ u[3] = F[3] /\ u[4] = F[4]
    BY <1>4, <2>1
  <2> QED BY ONLY <1>2, <2>1, <2>2, u \in Seq(S)
<1>9. UpTo(F, 3) = <<F[1], F[2], F[3], F[4], F[5]>>
  <2>1. PICK u \in Seq(S) : u = UpTo(F, 3)
    BY <1>5
  <2>2. Len(u) = 5 /\ u[1] = F[1] /\ u[2] = F[2] /\ u[3] = F[3] /\ u[4] = F[4] /\ u[5] = F[5]
    BY <1>5, <2>1
  <2> QED BY ONLY <1>2, <2>1, <2>2, u \in Seq(S)
<1>10. UpTo(F, 4) = <<F[1], F[2], F[3], F[4], F[5], F[6]>>
  <2>1. PICK u \in Seq(S) : u = UpTo(F, 4)
    BY <1>6
  <2>2. Len(u) = 6 /\ u[1] = F[1] /\ u[2] = F[2] /\ u[3] = F[3] /\ u[4] = F[4] /\ u[5] = F[5] /\ u[6] = F[6]
    BY <1>6, <2>1
  <2> QED BY ONLY <1>2, <2>1, <2>2, u \in Seq(S)
<1> QED BY <1>7, <1>8, <1>9, <1>10

\* The whole flight has been taken.
LEMMA UpToAll ==
  ASSUME NEW c, NEW h, NEW p, NEW F, F = QtFlight(c, h, p)
  PROVE  UpTo(F, 4) = F
<1>1. UpTo(F, 4) = <<F[1], F[2], F[3], F[4], F[5], F[6]>>
  BY UpToIs
<1>2. F[1] = h /\ F[2] = QtSh /\ F[3] = QtEe(p) /\ F[4] = QtCert(c) /\ F[5] = QtCv(c, h, p) /\ F[6] = QtFin(c, h, p)
  BY FlightFacts
<1> QED BY <1>1, <1>2 DEF QtFlight

\* What each message of the flight holds.
LEMMA FlightMessages ==
  ASSUME NEW c, NEW h, NEW p, NEW F, F = QtFlight(c, h, p)
  PROVE  /\ F[3].type = "EE" /\ F[3].alpn = "h3" /\ F[3].params = QtEncode(p, "server") /\ F[4].type = "CERT"
         /\ F[5].type = "CV" /\ F[5].by = c.cert /\ F[5].signed = UpTo(F, 2)
         /\ F[6].type = "FIN" /\ F[6].over = QtKey("server", UpTo(F, 3))
<1>1. F[1] = h /\ F[2] = QtSh /\ F[3] = QtEe(p) /\ F[4] = QtCert(c) /\ F[5] = QtCv(c, h, p) /\ F[6] = QtFin(c, h, p)
  BY FlightFacts
<1>2. F[3].type = "EE" /\ F[3].alpn = "h3" /\ F[3].params = QtEncode(p, "server")
  BY <1>1 DEF QtEe, QtEncryptedExtensions
<1>3. F[4].type = "CERT"
  BY <1>1 DEF QtCert, CertificateMessage
<1>4. F[5].type = "CV" /\ F[5].by = c.cert /\ F[5].signed = <<h, QtSh, QtEe(p), QtCert(c)>>
  BY <1>1 DEF QtCv
<1>5. F[6].type = "FIN" /\ F[6].over = QtKey("server", <<h, QtSh, QtEe(p), QtCert(c), QtCv(c, h, p)>>)
  BY <1>1 DEF QtFin, QtFinished
<1>6. UpTo(F, 2) = <<h, QtSh, QtEe(p), QtCert(c)>> /\ UpTo(F, 3) = <<h, QtSh, QtEe(p), QtCert(c), QtCv(c, h, p)>>
  BY <1>1, UpToIs
<1> QED BY <1>2, <1>3, <1>4, <1>5, <1>6

\* The flight as it leaves the server, in two parts a message.
LEMMA WholeHand ==
  ASSUME NEW c, NEW h, NEW p, NEW F, F = QtFlight(c, h, p), NEW hand,
         hand = QtCut(QtEe(p)) \o QtCut(QtCert(c)) \o QtCut(QtCv(c, h, p)) \o QtCut(QtFin(c, h, p))
  PROVE  HandOf(F, hand) /\ Len(hand) = 8
<1>1. PICK S : S = {FlightPart(F, j) : j \in 1..8}
  OBVIOUS
<1>2. PICK e1, e2, c1, c2, v1, v2, f1, f2 :
        /\ e1 = FlightPart(F, 1) /\ e2 = FlightPart(F, 2) /\ c1 = FlightPart(F, 3) /\ c2 = FlightPart(F, 4)
        /\ v1 = FlightPart(F, 5) /\ v2 = FlightPart(F, 6) /\ f1 = FlightPart(F, 7) /\ f2 = FlightPart(F, 8)
  OBVIOUS
<1>3. e1 \in S /\ e2 \in S /\ c1 \in S /\ c2 \in S /\ v1 \in S /\ v2 \in S /\ f1 \in S /\ f2 \in S
  BY <1>1, <1>2
<1>4. F[3] = QtEe(p) /\ F[4] = QtCert(c) /\ F[5] = QtCv(c, h, p) /\ F[6] = QtFin(c, h, p)
  BY FlightFacts
<1>5. /\ e1 = <<F[3], "head">> /\ e2 = <<F[3], "rest">> /\ c1 = <<F[4], "head">> /\ c2 = <<F[4], "rest">>
      /\ v1 = <<F[5], "head">> /\ v2 = <<F[5], "rest">> /\ f1 = <<F[6], "head">> /\ f2 = <<F[6], "rest">>
  BY <1>2 DEF FlightPart
<1>6. hand = <<e1, e2>> \o <<c1, c2>> \o <<v1, v2>> \o <<f1, f2>>
  BY <1>4, <1>5 DEF QtCut
<1>7. PICK a \in Seq(S), b \in Seq(S), x \in Seq(S), y \in Seq(S) : a = <<e1, e2>> /\ b = <<c1, c2>> /\ x = <<v1, v2>> /\ y = <<f1, f2>>
  <2>1. <<e1, e2>> \in Seq(S) /\ <<c1, c2>> \in Seq(S) /\ <<v1, v2>> \in Seq(S) /\ <<f1, f2>> \in Seq(S)
    BY ONLY <1>3
  <2> QED BY <2>1
<1>8. Len(a) = 2 /\ Len(b) = 2 /\ Len(x) = 2 /\ Len(y) = 2 /\ a[1] = e1 /\ a[2] = e2 /\ b[1] = c1 /\ b[2] = c2
      /\ x[1] = v1 /\ x[2] = v2 /\ y[1] = f1 /\ y[2] = f2
  BY <1>7
<1>9. PICK d \in Seq(S) : d = a \o b
  <2>1. a \o b \in Seq(S)
    BY ONLY a \in Seq(S), b \in Seq(S)
  <2> QED BY <2>1
<1>10. Len(d) = 4 /\ d[1] = e1 /\ d[2] = e2 /\ d[3] = c1 /\ d[4] = c2
  <2>1. Len(d) = Len(a) + Len(b) /\ (\A j \in 1..Len(a) : d[j] = a[j]) /\ (\A j \in 1..Len(b) : d[Len(a) + j] = b[j])
    BY ONLY <1>9, a \in Seq(S), b \in Seq(S), Joining
  <2>2. d[1] = a[1] /\ d[2] = a[2] /\ d[2 + 1] = b[1] /\ d[2 + 2] = b[2] /\ Len(d) = 4
    BY ONLY <1>8, <2>1
  <2> QED BY ONLY <1>8, <2>2
<1>11. PICK g \in Seq(S) : g = d \o x
  <2>1. d \o x \in Seq(S)
    BY ONLY d \in Seq(S), x \in Seq(S)
  <2> QED BY <2>1
<1>12. Len(g) = 6 /\ g[1] = e1 /\ g[2] = e2 /\ g[3] = c1 /\ g[4] = c2 /\ g[5] = v1 /\ g[6] = v2
  <2>1. Len(g) = Len(d) + Len(x) /\ (\A j \in 1..Len(d) : g[j] = d[j]) /\ (\A j \in 1..Len(x) : g[Len(d) + j] = x[j])
    BY ONLY <1>11, d \in Seq(S), x \in Seq(S), Joining
  <2>2. g[1] = d[1] /\ g[2] = d[2] /\ g[3] = d[3] /\ g[4] = d[4] /\ g[4 + 1] = x[1] /\ g[4 + 2] = x[2] /\ Len(g) = 6
    BY ONLY <1>8, <1>10, <2>1
  <2> QED BY ONLY <1>8, <1>10, <2>2
<1>13. hand \in Seq(S) /\ hand = g \o y
  BY ONLY <1>6, <1>7, <1>9, <1>11, g \in Seq(S), y \in Seq(S)
<1>14. Len(hand) = 8 /\ hand[1] = e1 /\ hand[2] = e2 /\ hand[3] = c1 /\ hand[4] = c2 /\ hand[5] = v1 /\ hand[6] = v2
       /\ hand[7] = f1 /\ hand[8] = f2
  <2>1. Len(hand) = Len(g) + Len(y) /\ (\A j \in 1..Len(g) : hand[j] = g[j]) /\ (\A j \in 1..Len(y) : hand[Len(g) + j] = y[j])
    BY ONLY <1>13, g \in Seq(S), y \in Seq(S), Joining
  <2>2. hand[1] = g[1] /\ hand[2] = g[2] /\ hand[3] = g[3] /\ hand[4] = g[4] /\ hand[5] = g[5] /\ hand[6] = g[6]
        /\ hand[6 + 1] = y[1] /\ hand[6 + 2] = y[2] /\ Len(hand) = 8
    BY ONLY <1>8, <1>12, <2>1
  <2> QED BY ONLY <1>8, <1>12, <2>2
<1>15. ASSUME NEW j \in 1..8 PROVE hand[j] = FlightPart(F, j)
  <2>1. j = 1 \/ j = 2 \/ j = 3 \/ j = 4 \/ j = 5 \/ j = 6 \/ j = 7 \/ j = 8
    OBVIOUS
  <2> QED BY ONLY <1>2, <1>14, <2>1
<1>16. ASSUME NEW j \in 1..Len(hand) PROVE hand[j] = FlightPart(F, 8 - Len(hand) + j)
  <2>1. j \in 1..8 /\ 8 - Len(hand) + j = j
    BY <1>14
  <2> QED BY <1>15, <2>1
<1>17. Len(hand) <= 8
  BY <1>14
<1>18. HandOf(F, hand)
  BY ONLY <1>1, <1>13, <1>16, <1>17 DEF HandOf
<1> QED BY <1>14, <1>18

\* One part fewer in flight.
LEMMA HandShrinks ==
  ASSUME NEW F, NEW hand, HandOf(F, hand), hand # <<>>
  PROVE  /\ HandOf(F, Tail(hand)) /\ Len(Tail(hand)) = Len(hand) - 1 /\ Len(hand) \in 1..8
         /\ Head(hand) = FlightPart(F, 9 - Len(hand)) /\ (Tail(hand) = <<>> <=> Len(hand) = 1)
<1>1. PICK S : S = {FlightPart(F, j) : j \in 1..8}
  OBVIOUS
<1>2. hand \in Seq(S) /\ Len(hand) <= 8 /\ \A j \in 1..Len(hand) : hand[j] = FlightPart(F, 8 - Len(hand) + j)
  BY <1>1 DEF HandOf
<1>3. PICK n \in 1..8 : n = Len(hand)
  <2>1. Len(hand) \in Nat
    BY ONLY <1>2
  <2>2. Len(hand) # 0
    BY ONLY <1>2, hand # <<>>
  <2>3. Len(hand) <= 8
    BY ONLY <1>2
  <2>4. \A x \in Nat : x <= 8 /\ x # 0 => x \in 1..8
    OBVIOUS
  <2>5. Len(hand) \in 1..8
    BY ONLY <2>1, <2>2, <2>3, <2>4
  <2> QED BY <2>5
<1>4. PICK r \in Seq(S) : r = Tail(hand)
  <2>1. Tail(hand) \in Seq(S)
    BY ONLY <1>2, hand # <<>>
  <2> QED BY <2>1
<1>5. Len(r) = n - 1 /\ (\A j \in 1..(n - 1) : r[j] = hand[j + 1]) /\ Head(hand) = hand[1] /\ (r = <<>> <=> n = 1)
  BY <1>2, <1>3, <1>4
<1>6. Head(hand) = FlightPart(F, 9 - n)
  <2>1. 1 \in 1..n /\ 8 - n + 1 = 9 - n
    OBVIOUS
  <2> QED BY <1>2, <1>3, <1>5, <2>1
<1>7. ASSUME NEW j \in 1..(n - 1) PROVE r[j] = FlightPart(F, 8 - (n - 1) + j)
  <2>1. j + 1 \in 1..n /\ 8 - n + (j + 1) = 8 - (n - 1) + j
    OBVIOUS
  <2> QED BY <1>2, <1>3, <1>5, <2>1
<1>8. HandOf(F, r)
  <2>1. Len(r) <= 8 /\ \A j \in 1..Len(r) : r[j] = FlightPart(F, 8 - Len(r) + j)
    BY <1>5, <1>7
  <2> QED BY <1>1, <1>4, <2>1 DEF HandOf
<1> QED BY <1>3, <1>4, <1>5, <1>6, <1>8

-----------------------------------------------------------------------------
(* One lemma for each step                                                 *)

LEMMA InitAgrees == QtInit => QtInv
<1> SUFFICES ASSUME QtInit PROVE QtInv
  OBVIOUS
<1>1. ConfShape(qtconf)
  BY QtAssumption DEF QtInit, ConfShape
<1>2. ClientShape(qtconf, qtc) /\ ServerShape(qts) /\ qtfaults \in Nat
  BY DEF QtInit, ClientShape, ServerShape
<1>3. qts.pc = "idle" /\ qthand = <<>> /\ qtfin = <<>> /\ qtnet = {} /\ qtc.pc = "start" /\ qtc.keys = FALSE /\ qtc.saw = {}
      /\ qtc.retry = QtNoId /\ qtc.dcid = "d0" /\ qtc.token = QtNoToken
  BY DEF QtInit
<1>4. ServerMade(qtconf, qts, qthand) /\ ClientAt(qtconf, qtc, qts, qthand) /\ FinAt(qtc, qts, qtfin)
  BY <1>3 DEF ServerMade, ClientAt, FinAt, Served
<1>5. Honest(qtconf, qtc, qts, qtnet)
  BY <1>3 DEF Honest, HonestClient, Served
<1> QED BY <1>1, <1>2, <1>4, <1>5 DEF QtInv

\* start()
LEMMA StartAgrees == QtInv /\ QtStart => QtInv'
<1> SUFFICES ASSUME QtInv, QtStart PROVE QtInv'
  OBVIOUS
<1>1. ClientShape(qtconf, qtc) /\ qtc.pc = "start" /\ ServerMade(qtconf, qts, qthand) /\ ClientAt(qtconf, qtc, qts, qthand)
      /\ FinAt(qtc, qts, qtfin) /\ UNCHANGED <<qtconf, qts, qthand, qtfin, qtfaults>>
  BY DEF QtInv, QtStart
<1>2. PICK h : /\ h = IF qtc.hello = QtNoMsg THEN OwnHello(qtconf) ELSE qtc.hello
               /\ qtc' = [qtc EXCEPT !.pc = "sent", !.hello = h]
               /\ qtnet' = qtnet \cup {[type |-> "initial", dcid |-> qtc.dcid, token |-> qtc.token, hello |-> h]}
  BY DEF QtStart, OwnHello
<1>3. h = OwnHello(qtconf)
  BY <1>1, <1>2 DEF ClientShape
<1>4. /\ qtc'.pc = "sent" /\ qtc'.hello = OwnHello(qtconf) /\ qtc'.keys = qtc.keys /\ qtc'.saw = qtc.saw /\ qtc'.odcid = qtc.odcid
      /\ qtc'.retry = qtc.retry /\ qtc'.dcid = qtc.dcid /\ qtc'.token = qtc.token /\ DOMAIN qtc' = DOMAIN qtc
  BY <1>1, <1>2, <1>3 DEF ClientShape
<1>5. ClientShape(qtconf, qtc')
  BY <1>1, <1>4 DEF ClientShape
<1>6. ClientAt(qtconf, qtc', qts, qthand)
  BY <1>1, <1>4 DEF ClientAt
<1>7. FinAt(qtc', qts, qtfin)
  BY <1>1, <1>4 DEF FinAt
<1>8. ASSUME Honest(qtconf, qtc, qts, qtnet) PROVE Honest(qtconf, qtc', qts, qtnet')
  <2>1. PICK n : n = [type |-> "initial", dcid |-> qtc.dcid, token |-> qtc.token, hello |-> h]
    OBVIOUS
  <2>2. n.type = "initial" /\ n.dcid = qtc.dcid /\ n.token = qtc.token /\ n.hello = OwnHello(qtconf)
    BY <1>3, <2>1
  <2>3. HonestClient(qtconf, qtc) /\ HonestClient(qtconf, qtc')
    BY <1>4, <1>8 DEF Honest, HonestClient
  <2>4. HonestMsg(qtconf, qtc', qts, n)
    BY <1>4, <2>2, <2>3 DEF HonestClient, HonestMsg
  <2>5. \A m \in qtnet : HonestMsg(qtconf, qtc', qts, m)
    BY <1>4, <1>8 DEF Honest, HonestMsg
  <2>6. \A m \in qtnet' : HonestMsg(qtconf, qtc', qts, m)
    BY <1>2, <2>1, <2>4, <2>5
  <2>7. ~qtc'.keys
    BY <1>1, <1>4 DEF ClientAt
  <2> QED BY <1>4, <1>8, <2>3, <2>6, <2>7 DEF Honest
<1> QED BY <1>1, <1>5, <1>6, <1>7, <1>8 DEF QtInv

\* handle_server_datagram() answers a hello that names no token of its own with a Retry.
LEMMA RetryAgrees == QtInv /\ SendRetry => QtInv'
<1> SUFFICES ASSUME QtInv, SendRetry PROVE QtInv'
  OBVIOUS
<1>1. UNCHANGED <<qtconf, qtc, qts, qthand, qtfin, qtfaults>>
  BY DEF SendRetry
<1>2. PICK m \in qtnet : /\ m.type = "initial" /\ qtconf.retry /\ m.token.r # m.dcid
                         /\ qtnet' = (qtnet \ {m}) \cup {[type |-> "retry", of |-> m.dcid, scid |-> "r1", token |-> [o |-> m.dcid, r |-> "r1"]]}
  BY DEF SendRetry, NeedsRetry
<1>3. ASSUME Honest(qtconf, qtc, qts, qtnet) PROVE Honest(qtconf, qtc, qts, qtnet')
  <2>1. HonestMsg(qtconf, qtc, qts, m)
    BY <1>2, <1>3 DEF Honest
  <2>2. RetryToken.r = "r1"
    BY DEF RetryToken
  <2>3. m.dcid = "d0"
    BY <1>2, <2>1, <2>2 DEF HonestMsg
  <2>4. PICK n : n = [type |-> "retry", of |-> m.dcid, scid |-> "r1", token |-> [o |-> m.dcid, r |-> "r1"]]
    OBVIOUS
  <2>5. n.type = "retry" /\ n.scid = "r1" /\ n.token = RetryToken
    BY <2>3, <2>4 DEF RetryToken
  <2>6. HonestMsg(qtconf, qtc, qts, n)
    BY <1>2, <2>5 DEF HonestMsg
  <2>7. \A x \in qtnet' : HonestMsg(qtconf, qtc, qts, x)
    BY <1>2, <1>3, <2>4, <2>6 DEF Honest
  <2> QED BY <1>3, <2>7 DEF Honest
<1> QED BY <1>1, <1>3 DEF QtInv

\* The client follows one Retry, before any ServerHello.
LEMMA FollowRetryAgrees == QtInv /\ OnRetryPacket => QtInv'
<1> SUFFICES ASSUME QtInv, OnRetryPacket PROVE QtInv'
  OBVIOUS
<1>1. UNCHANGED <<qtconf, qts, qthand, qtfin, qtfaults>>
  BY DEF OnRetryPacket
<1>2. ClientShape(qtconf, qtc) /\ ClientAt(qtconf, qtc, qts, qthand) /\ FinAt(qtc, qts, qtfin)
  BY DEF QtInv
<1>3. PICK m \in qtnet :
        /\ m.type = "retry" /\ qtc.pc # "failed" /\ qtnet' = qtnet \ {m}
        /\ IF m.of # qtc.odcid \/ qtc.keys \/ qtc.retry # QtNoId THEN UNCHANGED qtc
           ELSE qtc' = [qtc EXCEPT !.pc = "start", !.dcid = m.scid, !.retry = m.scid, !.token = m.token]
  BY DEF OnRetryPacket
<1>4. CASE UNCHANGED qtc
  <2>1. Honest(qtconf, qtc, qts, qtnet) => Honest(qtconf, qtc, qts, qtnet')
    BY <1>3 DEF Honest
  <2> QED BY <1>1, <1>4, <2>1 DEF QtInv
<1>5. CASE ~qtc.keys /\ qtc.retry = QtNoId /\ qtc' = [qtc EXCEPT !.pc = "start", !.dcid = m.scid, !.retry = m.scid, !.token = m.token]
  <2>1. /\ qtc'.pc = "start" /\ qtc'.dcid = m.scid /\ qtc'.retry = m.scid /\ qtc'.token = m.token /\ qtc'.keys = qtc.keys
        /\ qtc'.saw = qtc.saw /\ qtc'.hello = qtc.hello /\ qtc'.odcid = qtc.odcid /\ DOMAIN qtc' = DOMAIN qtc
    BY <1>2, <1>5 DEF ClientShape
  <2>2. ClientShape(qtconf, qtc')
    BY <1>2, <2>1 DEF ClientShape
  <2>3. qtc.pc \in {"start", "sent"}
    BY <1>2, <1>5 DEF ClientAt
  <2>4. ClientAt(qtconf, qtc', qts, qthand)
    BY <1>2, <1>5, <2>1 DEF ClientAt
  <2>5. FinAt(qtc', qts, qtfin)
    BY <1>2, <2>1, <2>3 DEF FinAt
  <2>6. ASSUME Honest(qtconf, qtc, qts, qtnet) PROVE Honest(qtconf, qtc', qts, qtnet')
    <3>1. qtconf.retry /\ m.scid = "r1" /\ m.token = RetryToken
      BY <1>3, <2>6 DEF Honest, HonestMsg
    <3>2. HonestClient(qtconf, qtc')
      BY <2>1, <3>1 DEF HonestClient
    <3>3. \A x \in qtnet' : HonestMsg(qtconf, qtc', qts, x)
      BY <1>3, <2>1, <2>6, <3>1 DEF Honest, HonestMsg
    <3> QED BY <1>5, <2>1, <2>6, <3>1, <3>2, <3>3 DEF Honest
  <2> QED BY <1>1, <2>2, <2>4, <2>5, <2>6 DEF QtInv
<1> QED BY <1>3, <1>4, <1>5

\* on_initial()
LEMMA InitialAgrees == QtInv /\ OnInitial => QtInv'
<1> SUFFICES ASSUME QtInv, OnInitial PROVE QtInv'
  OBVIOUS
<1>1. UNCHANGED <<qtconf, qts, qthand, qtfin, qtfaults>>
  BY DEF OnInitial
<1>2. ClientShape(qtconf, qtc) /\ ClientAt(qtconf, qtc, qts, qthand) /\ FinAt(qtc, qts, qtfin)
  BY DEF QtInv
<1>3. PICK m \in qtnet :
        /\ m.type = "reply" /\ qtc.pc = "sent" /\ qtnet' = qtnet \ {m}
        /\ qtc' = [qtc EXCEPT !.pc = "hello", !.tr = <<qtc.hello, m.hello>>, !.keys = TRUE, !.expected = m.scid]
  BY DEF OnInitial
<1>4. /\ qtc'.pc = "hello" /\ qtc'.tr = <<qtc.hello, m.hello>> /\ qtc'.keys = TRUE /\ qtc'.expected = m.scid
      /\ qtc'.saw = qtc.saw /\ qtc'.hello = qtc.hello /\ qtc'.odcid = qtc.odcid /\ DOMAIN qtc' = DOMAIN qtc
      /\ qtc'.retry = qtc.retry /\ qtc'.dcid = qtc.dcid /\ qtc'.token = qtc.token
  BY <1>2, <1>3 DEF ClientShape
<1>5. ClientShape(qtconf, qtc')
  BY <1>2, <1>4 DEF ClientShape
<1>6. qtc.hello = OwnHello(qtconf) /\ qtc.saw = {} /\ (Served(qts) => Len(qthand) = 8)
  BY <1>2, <1>3 DEF ClientShape, ClientAt
<1>7. qtc'.tr = <<OwnHello(qtconf), qtc'.tr[2]>> /\ qtc'.tr[2] = m.hello
  BY <1>4, <1>6
<1>8. ClientAt(qtconf, qtc', qts, qthand)
  BY <1>4, <1>6, <1>7 DEF ClientAt
<1>9. FinAt(qtc', qts, qtfin)
  BY <1>2, <1>3, <1>4 DEF FinAt
<1>10. ASSUME Honest(qtconf, qtc, qts, qtnet) PROVE Honest(qtconf, qtc', qts, qtnet')
  <2>1. HonestMsg(qtconf, qtc, qts, m)
    BY <1>3, <1>10 DEF Honest
  <2>2. m.scid = "server" /\ m.hello = QtSh /\ Served(qts)
    BY <1>3, <2>1 DEF HonestMsg
  <2>3. HonestClient(qtconf, qtc')
    BY <1>4, <1>10 DEF Honest, HonestClient
  <2>4. \A x \in qtnet' : HonestMsg(qtconf, qtc', qts, x)
    BY <1>3, <1>4, <1>10 DEF Honest, HonestMsg
  <2> QED BY <1>4, <1>7, <1>10, <2>2, <2>3, <2>4 DEF Honest
<1> QED BY <1>1, <1>5, <1>8, <1>9, <1>10 DEF QtInv

\* on_client_finished()
LEMMA FinishedAgrees == QtInv /\ OnClientFinished => QtInv'
<1> SUFFICES ASSUME QtInv, OnClientFinished PROVE QtInv'
  OBVIOUS
<1>1. UNCHANGED <<qtconf, qtc, qtnet, qthand, qtfaults>> /\ qts.pc = "ready" /\ qtfin # <<>> /\ qtfin' = <<>>
  BY DEF OnClientFinished
<1>2. ServerShape(qts) /\ ServerMade(qtconf, qts, qthand) /\ ClientAt(qtconf, qtc, qts, qthand) /\ FinAt(qtc, qts, qtfin)
  BY DEF QtInv
<1>3. qtfin = <<QtFinished("client", qtc.tr)>> /\ qtc.pc = "done"
  BY <1>1, <1>2 DEF FinAt
<1>4. PICK F : F = Made(qtconf, qts)
  OBVIOUS
<1>5. Served(qts) /\ qts.tr = F /\ qts.params = OwnParams(qtconf, qts.odcid, qts.retry) /\ qts.peer = QtParseParams(qts.tr[1].params)
      /\ HandOf(F, qthand)
  BY <1>1, <1>2, <1>4 DEF ServerMade, Served
<1>6. Followed(qtconf, qtc, qts, 4) /\ qthand = <<>>
  BY <1>2, <1>3 DEF ClientAt
<1>7. qtc.tr = F
  <2>1. qtc.tr = UpTo(F, 4)
    BY <1>4, <1>6 DEF Followed
  <2> QED BY <1>4, <2>1, UpToAll DEF Made
<1>8. Head(qtfin).over = QtKey("client", qts.tr) /\ Head(qtfin) = QtFinished("client", F)
  BY <1>3, <1>5, <1>7 DEF QtFinished
<1>9. qts' = [qts EXCEPT !.pc = "done", !.tr = Append(qts.tr, Head(qtfin))]
  BY <1>8 DEF OnClientFinished
<1>10. /\ qts'.pc = "done" /\ qts'.tr = Append(F, QtFinished("client", F)) /\ qts'.odcid = qts.odcid /\ qts'.retry = qts.retry
       /\ qts'.params = qts.params /\ qts'.peer = qts.peer /\ DOMAIN qts' = DOMAIN qts
  BY <1>2, <1>5, <1>8, <1>9 DEF ServerShape
<1>11. qts'.tr[1] = qts.tr[1]
  <2>1. Len(F) = 6 /\ F[1] = qts.tr[1]
    BY <1>4, FlightFacts DEF Made
  <2>2. \E S : F \in Seq(S) /\ QtFinished("client", F) \in S
    <3>1. PICK a, b, d, e, f, g : F = <<a, b, d, e, f, g>>
      BY <1>4 DEF Made, QtFlight
    <3>2. F \in Seq({a, b, d, e, f, g, QtFinished("client", F)})
      BY <3>1
    <3> QED BY <3>2
  <2> QED BY <1>10, <2>1, <2>2
<1>12. Made(qtconf, qts') = F
  BY <1>4, <1>10, <1>11 DEF Made
<1>13. ServerShape(qts') /\ Served(qts')
  BY <1>2, <1>10 DEF ServerShape, Served
<1>14. ServerMade(qtconf, qts', qthand)
  BY <1>5, <1>10, <1>11, <1>12, <1>13 DEF ServerMade
<1>15. ClientAt(qtconf, qtc, qts', qthand)
  <2>1. Followed(qtconf, qtc, qts', 4)
    BY <1>4, <1>6, <1>10, <1>11, <1>12 DEF Followed
  <2> QED BY <1>2, <1>3, <1>6, <1>13, <2>1 DEF ClientAt
<1>16. FinAt(qtc, qts', qtfin')
  BY <1>1, <1>3, <1>10 DEF FinAt
<1>17. ASSUME Honest(qtconf, qtc, qts, qtnet) PROVE Honest(qtconf, qtc, qts', qtnet)
  <2>1. \A m \in qtnet : HonestMsg(qtconf, qtc, qts', m)
    BY <1>13, <1>17 DEF Honest, HonestMsg
  <2> QED BY <1>5, <1>10, <1>11, <1>13, <1>17, <2>1 DEF Honest
<1> QED BY <1>1, <1>13, <1>14, <1>15, <1>16, <1>17 DEF QtInv

\* The network: what it does to an Initial packet ends the honest run and nothing else.
LEMMA InterfereAgrees == QtInv /\ Interfere => QtInv'
<1> SUFFICES ASSUME QtInv, Interfere PROVE QtInv'
  OBVIOUS
<1>1. UNCHANGED <<qtconf, qtc, qts, qthand, qtfin>> /\ qtfaults' = qtfaults + 1
  BY DEF Interfere
<1>2. qtfaults' \in Nat /\ qtfaults' # 0
  BY <1>1 DEF QtInv
<1> QED BY <1>1, <1>2 DEF QtInv

\* accept() and on_client_hello()
LEMMA AcceptAgrees == QtInv /\ QtAccept => QtInv'
<1> SUFFICES ASSUME QtInv, QtAccept PROVE QtInv'
  OBVIOUS
<1>1. UNCHANGED <<qtconf, qtc, qtfin, qtfaults>> /\ qts.pc = "idle"
  BY DEF QtAccept
<1>2. /\ ConfShape(qtconf) /\ ClientShape(qtconf, qtc) /\ ServerShape(qts) /\ ServerMade(qtconf, qts, qthand)
      /\ ClientAt(qtconf, qtc, qts, qthand) /\ FinAt(qtc, qts, qtfin)
  BY DEF QtInv
<1>3. ~Served(qts) /\ qthand = <<>> /\ qtfin = <<>> /\ qtc.pc # "done"
  <2>1. ~Served(qts)
    BY <1>1 DEF Served
  <2> QED BY <1>1, <1>2, <2>1 DEF ServerMade, FinAt, ClientAt
<1>4. PICK m \in qtnet :
        /\ m.type = "initial" /\ ~(qtconf.retry /\ m.token.r # m.dcid)
        /\ IF HelloRefused(m.hello)
           THEN qts' = [qts EXCEPT !.pc = "failed"] /\ qtnet' = qtnet \ {m} /\ UNCHANGED qthand
           ELSE \E p \in {[QtDefaults EXCEPT !.data = qtconf.data, !.udp = qtconf.udp,
                                           !.odcid = IF m.token # QtNoToken THEN m.token.o ELSE m.dcid,
                                           !.rscid = IF m.token # QtNoToken THEN m.dcid ELSE QtNoId]} :
                \E sh \in {[type |-> "SH", share |-> "ss"]} :
                \E ee \in {QtEncryptedExtensions(QtEncode(p, "server"))} :
                \E cert \in {CertificateMessage(qtconf.cert)} :
                \E cv \in {[type |-> "CV", signed |-> <<m.hello, sh, ee, cert>>, by |-> qtconf.cert]} :
                \E fin \in {QtFinished("server", <<m.hello, sh, ee, cert, cv>>)} :
                  /\ qts' = [qts EXCEPT !.pc = "ready", !.odcid = p.odcid, !.retry = p.rscid, !.params = p,
                                        !.tr = <<m.hello, sh, ee, cert, cv, fin>>, !.peer = QtParseParams(m.hello.params)]
                  /\ qtnet' = (qtnet \ {m}) \cup {[type |-> "reply", scid |-> "server", hello |-> sh]}
                  /\ qthand' = QtCut(ee) \o QtCut(cert) \o QtCut(cv) \o QtCut(fin)
  BY DEF QtAccept, NeedsRetry
<1>5. ASSUME qtfaults = 0 /\ SetUp(qtconf)
      PROVE  /\ Honest(qtconf, qtc, qts, qtnet) /\ HonestMsg(qtconf, qtc, qts, m) /\ m.hello = OwnHello(qtconf)
             /\ ~HelloRefused(m.hello)
             /\ \/ m.dcid = "d0" /\ m.token = QtNoToken
                \/ m.dcid = "r1" /\ m.token = RetryToken /\ qtc.retry = "r1"
  <2>1. Honest(qtconf, qtc, qts, qtnet)
    BY <1>5 DEF QtInv
  <2>2. HonestMsg(qtconf, qtc, qts, m)
    BY <1>4, <2>1 DEF Honest
  <2>3. /\ m.hello = OwnHello(qtconf)
        /\ \/ m.dcid = "d0" /\ m.token = QtNoToken
           \/ m.dcid = "r1" /\ m.token = RetryToken /\ qtc.retry = "r1"
    BY <1>4, <2>2 DEF HonestMsg
  <2>4. "h3" \in qtconf.calpn /\ "h3" \in qtconf.salpn
    BY <1>5 DEF SetUp
  <2>5. ~HelloRefused(OwnHello(qtconf))
    BY <2>4, HelloParams DEF HelloRefused
  <2> QED BY <2>1, <2>2, <2>3, <2>5
<1>6. CASE HelloRefused(m.hello)
  <2>1. qts' = [qts EXCEPT !.pc = "failed"] /\ UNCHANGED qthand
    BY <1>4, <1>6
  <2>2. qts'.pc = "failed" /\ DOMAIN qts' = DOMAIN qts
    BY <1>2, <2>1 DEF ServerShape
  <2>3. ServerShape(qts') /\ ~Served(qts')
    BY <1>2, <2>2 DEF ServerShape, Served
  <2>4. ServerMade(qtconf, qts', qthand)
    BY <1>3, <2>3 DEF ServerMade
  <2>5. ClientAt(qtconf, qtc, qts', qthand)
    BY <1>2, <1>3, <2>3 DEF ClientAt
  <2>6. FinAt(qtc, qts', qtfin)
    BY <1>3, <2>2 DEF FinAt
  <2>7. ~(qtfaults = 0 /\ SetUp(qtconf))
    BY <1>5, <1>6
  <2> QED BY <1>1, <1>2, <2>1, <2>3, <2>4, <2>5, <2>6, <2>7 DEF QtInv
<1>7. CASE ~HelloRefused(m.hello)
  <2>1. PICK o : o = IF m.token # QtNoToken THEN m.token.o ELSE m.dcid
    OBVIOUS
  <2>2. PICK r : r = IF m.token # QtNoToken THEN m.dcid ELSE QtNoId
    OBVIOUS
  <2>3. PICK p : p = OwnParams(qtconf, o, r)
    OBVIOUS
  <2>4. /\ qts' = [qts EXCEPT !.pc = "ready", !.odcid = p.odcid, !.retry = p.rscid, !.params = p,
                              !.tr = QtFlight(qtconf, m.hello, p), !.peer = QtParseParams(m.hello.params)]
        /\ qtnet' = (qtnet \ {m}) \cup {[type |-> "reply", scid |-> "server", hello |-> QtSh]}
        /\ qthand' = QtCut(QtEe(p)) \o QtCut(QtCert(qtconf)) \o QtCut(QtCv(qtconf, m.hello, p)) \o QtCut(QtFin(qtconf, m.hello, p))
    <3>1. PICK d \in {[QtDefaults EXCEPT !.data = qtconf.data, !.udp = qtconf.udp,
                                         !.odcid = IF m.token # QtNoToken THEN m.token.o ELSE m.dcid,
                                         !.rscid = IF m.token # QtNoToken THEN m.dcid ELSE QtNoId]} :
          \E sh \in {[type |-> "SH", share |-> "ss"]} : \E ee \in {QtEncryptedExtensions(QtEncode(d, "server"))} :
          \E cert \in {CertificateMessage(qtconf.cert)} :
          \E cv \in {[type |-> "CV", signed |-> <<m.hello, sh, ee, cert>>, by |-> qtconf.cert]} :
          \E fin \in {QtFinished("server", <<m.hello, sh, ee, cert, cv>>)} :
            /\ qts' = [qts EXCEPT !.pc = "ready", !.odcid = d.odcid, !.retry = d.rscid, !.params = d,
                                  !.tr = <<m.hello, sh, ee, cert, cv, fin>>, !.peer = QtParseParams(m.hello.params)]
            /\ qtnet' = (qtnet \ {m}) \cup {[type |-> "reply", scid |-> "server", hello |-> sh]}
            /\ qthand' = QtCut(ee) \o QtCut(cert) \o QtCut(cv) \o QtCut(fin)
      BY ONLY <1>4, <1>7, Zenon
    <3>2. d = p
      BY <2>1, <2>2, <2>3 DEF OwnParams
    <3>3. PICK sh \in {[type |-> "SH", share |-> "ss"]}, ee \in {QtEncryptedExtensions(QtEncode(d, "server"))},
               cert \in {CertificateMessage(qtconf.cert)} :
          \E cv \in {[type |-> "CV", signed |-> <<m.hello, sh, ee, cert>>, by |-> qtconf.cert]} :
          \E fin \in {QtFinished("server", <<m.hello, sh, ee, cert, cv>>)} :
            /\ qts' = [qts EXCEPT !.pc = "ready", !.odcid = d.odcid, !.retry = d.rscid, !.params = d,
                                  !.tr = <<m.hello, sh, ee, cert, cv, fin>>, !.peer = QtParseParams(m.hello.params)]
            /\ qtnet' = (qtnet \ {m}) \cup {[type |-> "reply", scid |-> "server", hello |-> sh]}
            /\ qthand' = QtCut(ee) \o QtCut(cert) \o QtCut(cv) \o QtCut(fin)
      BY ONLY <3>1, Zenon
    <3>4. sh = QtSh /\ ee = QtEe(p) /\ cert = QtCert(qtconf)
      BY <3>2 DEF QtSh, QtEe, QtCert
    <3>5. PICK cv \in {[type |-> "CV", signed |-> <<m.hello, sh, ee, cert>>, by |-> qtconf.cert]} :
          \E fin \in {QtFinished("server", <<m.hello, sh, ee, cert, cv>>)} :
            /\ qts' = [qts EXCEPT !.pc = "ready", !.odcid = d.odcid, !.retry = d.rscid, !.params = d,
                                  !.tr = <<m.hello, sh, ee, cert, cv, fin>>, !.peer = QtParseParams(m.hello.params)]
            /\ qtnet' = (qtnet \ {m}) \cup {[type |-> "reply", scid |-> "server", hello |-> sh]}
            /\ qthand' = QtCut(ee) \o QtCut(cert) \o QtCut(cv) \o QtCut(fin)
      BY ONLY <3>3, Zenon
    <3>6. PICK fin \in {QtFinished("server", <<m.hello, sh, ee, cert, cv>>)} :
            /\ qts' = [qts EXCEPT !.pc = "ready", !.odcid = d.odcid, !.retry = d.rscid, !.params = d,
                                  !.tr = <<m.hello, sh, ee, cert, cv, fin>>, !.peer = QtParseParams(m.hello.params)]
            /\ qtnet' = (qtnet \ {m}) \cup {[type |-> "reply", scid |-> "server", hello |-> sh]}
            /\ qthand' = QtCut(ee) \o QtCut(cert) \o QtCut(cv) \o QtCut(fin)
      BY ONLY <3>5, Zenon
    <3>7. cv = QtCv(qtconf, m.hello, p)
      BY <3>4 DEF QtCv
    <3>8. fin = QtFin(qtconf, m.hello, p)
      BY <3>4, <3>7 DEF QtFin
    <3> QED BY ONLY <3>2, <3>4, <3>6, <3>7, <3>8 DEF QtFlight
  <2>5. p.odcid = o /\ p.rscid = r
    BY <2>3, OwnFields
  <2>6. PICK F : F = QtFlight(qtconf, m.hello, p)
    OBVIOUS
  <2>7. /\ qts'.pc = "ready" /\ qts'.odcid = o /\ qts'.retry = r /\ qts'.params = p /\ qts'.tr = F
        /\ qts'.peer = QtParseParams(m.hello.params) /\ DOMAIN qts' = DOMAIN qts
    BY <1>2, <2>4, <2>5, <2>6 DEF ServerShape
  <2>8. F[1] = m.hello
    BY <2>6, FlightFacts
  <2>9. Made(qtconf, qts') = F /\ Served(qts') /\ ServerShape(qts')
    BY <1>2, <2>6, <2>7, <2>8 DEF Made, Served, ServerShape
  <2>10. HandOf(F, qthand') /\ Len(qthand') = 8
    BY <2>4, <2>6, WholeHand
  <2>11. ServerMade(qtconf, qts', qthand')
    BY <2>3, <2>7, <2>8, <2>9, <2>10 DEF ServerMade
  <2>12. ClientAt(qtconf, qtc, qts', qthand')
    BY <1>2, <1>3, <2>10 DEF ClientAt
  <2>13. FinAt(qtc, qts', qtfin)
    BY <1>3, <2>7 DEF FinAt
  <2>14. ASSUME qtfaults = 0 /\ SetUp(qtconf) PROVE Honest(qtconf, qtc, qts', qtnet')
    <3>1. /\ Honest(qtconf, qtc, qts, qtnet) /\ m.hello = OwnHello(qtconf)
          /\ \/ m.dcid = "d0" /\ m.token = QtNoToken
             \/ m.dcid = "r1" /\ m.token = RetryToken /\ qtc.retry = "r1"
      BY <1>5, <2>14
    <3>2. HonestClient(qtconf, qtc) /\ qtc.pc # "failed" /\ ~qtc.keys
      BY <1>3, <3>1 DEF Honest
    <3>3. qtconf.retry \in BOOLEAN /\ QtNoToken.r = "no id" /\ RetryToken.r = "r1" /\ RetryToken.o = "d0" /\ RetryToken # QtNoToken
      BY <1>2 DEF ConfShape, QtNoToken, QtNoId, RetryToken
    <3>4. \A x \in qtnet' : HonestMsg(qtconf, qtc, qts', x)
      <4>1. PICK n : n = [type |-> "reply", scid |-> "server", hello |-> QtSh]
        OBVIOUS
      <4>2. n.type = "reply" /\ n.scid = "server" /\ n.hello = QtSh
        BY <4>1
      <4>3. HonestMsg(qtconf, qtc, qts', n)
        BY <2>9, <4>2 DEF HonestMsg
      <4>4. \A x \in qtnet : HonestMsg(qtconf, qtc, qts', x)
        BY <2>9, <3>1 DEF Honest, HonestMsg
      <4> QED BY <2>4, <4>1, <4>3, <4>4
    <3>5. CASE m.dcid = "d0" /\ m.token = QtNoToken
      <4>1. ~qtconf.retry
        BY <1>4, <3>3, <3>5
      <4>2. o = "d0" /\ r = QtNoId
        BY <2>1, <2>2, <3>5
      <4> QED BY <4>1, <4>2, <2>7, <2>8, <2>9, <3>1, <3>2, <3>4 DEF Honest
    <3>6. CASE m.dcid = "r1" /\ m.token = RetryToken /\ qtc.retry = "r1"
      <4>1. qtconf.retry
        BY <3>2, <3>6 DEF HonestClient, QtNoId
      <4>2. o = "d0" /\ r = "r1"
        BY <2>1, <2>2, <3>3, <3>6
      <4> QED BY <4>1, <4>2, <2>7, <2>8, <2>9, <3>1, <3>2, <3>6, <3>4 DEF Honest
    <3> QED BY <3>1, <3>5, <3>6
  <2> QED BY <1>1, <1>2, <2>9, <2>11, <2>12, <2>13, <2>14 DEF QtInv
<1> QED BY <1>6, <1>7

\* A Handshake packet that opens: the client is where the server's flight is.
LEMMA PacketOpens ==
  ASSUME QtInv, OnHandshake, NEW F, F = Made(qtconf, qts), NEW n \in 1..8, n = Len(qthand)
  PROVE  /\ Served(qts) /\ qts.pc = "ready" /\ qts.tr = F /\ HandOf(F, qthand) /\ qthand # <<>> /\ qtc.pc = "hello"
         /\ qtfin = <<>> /\ Followed(qtconf, qtc, qts, (8 - n) \div 2)
<1>1. /\ ServerMade(qtconf, qts, qthand) /\ ClientAt(qtconf, qtc, qts, qthand) /\ FinAt(qtc, qts, qtfin) /\ ServerShape(qts)
      /\ qtc.pc = "hello" /\ qthand # <<>> /\ SameHandshakeKeys
  BY DEF QtInv, OnHandshake
<1>2. Served(qts)
  BY <1>1 DEF ServerMade
<1>3. qts.pc = "ready" /\ qtfin = <<>>
  BY <1>1, <1>2 DEF FinAt, Served
<1>4. qts.tr = F /\ HandOf(F, qthand)
  BY <1>1, <1>2, <1>3 DEF ServerMade
<1>5. CASE n = 8
  <2>1. qtc.tr = <<OwnHello(qtconf), qtc.tr[2]>> /\ qtc.saw = {}
    BY <1>1, <1>2, <1>5 DEF ClientAt
  <2>2. qts.tr[1] = qtc.tr[1] /\ qts.tr[2] = qtc.tr[2]
    BY <1>1 DEF SameHandshakeKeys
  <2>3. qtc.tr[1] = OwnHello(qtconf)
    BY <2>1
  <2>4. qtc.tr = UpTo(F, 0)
    BY <1>4, <2>1, <2>2, <2>3, UpToIs, ZenonT(60)
  <2>5. (8 - n) \div 2 = 0
    BY <1>5
  <2>6. Followed(qtconf, qtc, qts, 0)
    BY <2>1, <2>2, <2>3, <2>4 DEF Followed, SawUpTo
  <2> QED BY <1>1, <1>2, <1>3, <1>4, <2>5, <2>6
<1>6. CASE n # 8
  <2>1. Followed(qtconf, qtc, qts, (8 - Len(qthand)) \div 2)
    BY <1>1, <1>2, <1>6 DEF ClientAt
  <2> QED BY <1>1, <1>2, <1>3, <1>4, <2>1
<1> QED BY <1>5, <1>6

\* Half of the eight parts: which message the part at hand belongs to.
LEMMA PartCount ==
  ASSUME NEW n \in 1..8
  PROVE  /\ (9 - n) % 2 = 1 => n # 1 /\ (8 - (n - 1)) \div 2 = (8 - n) \div 2
         /\ (9 - n) % 2 # 1 => /\ (8 - n) \div 2 \in 0..3 /\ 2 + ((9 - n) + 1) \div 2 = 3 + (8 - n) \div 2
                               /\ (8 - (n - 1)) \div 2 = (8 - n) \div 2 + 1 /\ (n = 1 <=> (8 - n) \div 2 = 3)
<1>1. n = 1 \/ n = 2 \/ n = 3 \/ n = 4 \/ n = 5 \/ n = 6 \/ n = 7 \/ n = 8
  OBVIOUS
<1> QED BY <1>1

\* What the client has once it has taken a message, as a record.
Taken(k, m) ==
  [k EXCEPT !.tr = Append(@, m), !.saw = @ \cup {m.type}, !.buf = <<>>,
            !.peer = IF m.type = "EE" THEN QtParseParams(m.params) ELSE @,
            !.pc = IF m.type = "FIN" THEN "done" ELSE @]

\* In the honest run no message is refused.
LEMMA NotRefused ==
  ASSUME QtInv, qtfaults = 0, SetUp(qtconf), Served(qts), qtc.pc = "hello", NEW F, F = Made(qtconf, qts), NEW t \in 0..3,
         Followed(qtconf, qtc, qts, t)
  PROVE  ~QtRefused(F[3 + t])
<1>1. Honest(qtconf, qtc, qts, qtnet) /\ ConfShape(qtconf) /\ ClientShape(qtconf, qtc)
  BY DEF QtInv
<1>2. qtc.tr = UpTo(F, t) /\ qtc.saw = SawUpTo(t)
  BY DEF Followed
<1>3. /\ F[3].type = "EE" /\ F[3].alpn = "h3" /\ F[3].params = QtEncode(qts.params, "server") /\ F[4].type = "CERT"
      /\ F[5].type = "CV" /\ F[5].by = qtconf.cert /\ F[5].signed = UpTo(F, 2)
      /\ F[6].type = "FIN" /\ F[6].over = QtKey("server", UpTo(F, 3))
  BY FlightMessages DEF Made
<1>4. CASE t = 0
  <2>1. qts.params = OwnParams(qtconf, qts.odcid, qts.retry)
    BY DEF QtInv, ServerMade
  <2>2. PICK p : p = qts.params
    OBVIOUS
  <2>3. PlainParams(p) /\ DOMAIN p = QtFields /\ p.udp = qtconf.udp /\ p.odcid = qts.odcid /\ p.rscid = qts.retry
    BY <2>1, <2>2, OwnPlain, OwnFields
  <2>4. p.udp \in Nat /\ p.udp >= 1200 /\ p.udp <= 65527
    BY <1>1, <2>3 DEF SetUp, ConfShape
  <2>5. ~QtParseError(F[3].params)
    BY <1>3, <2>2, <2>3, <2>4, EncodedValid
  <2>6. QtParseParams(F[3].params) = [p EXCEPT !.iscid = "server"]
    BY <1>3, <2>2, <2>3, ParsedBack
  <2>7. PICK q : q = [p EXCEPT !.iscid = "server"]
    OBVIOUS
  <2>8. q.iscid = "server" /\ q.odcid = qts.odcid /\ q.rscid = qts.retry
    BY <2>3, <2>7 DEF QtFields
  <2>9. qtc.keys /\ qtc.odcid = "d0"
    BY <1>1 DEF QtInv, ClientAt, ClientShape
  <2>10. qtc.expected = "server" /\ qts.odcid = "d0" /\ qts.retry = (IF qtconf.retry THEN "r1" ELSE QtNoId)
         /\ (qtconf.retry => qtc.retry = "r1") /\ HonestClient(qtconf, qtc)
    BY <1>1, <2>9 DEF Honest
  <2>11. qts.retry = qtc.retry
    BY <2>10 DEF HonestClient
  <2>12. IdsConfirmed(QtParseParams(F[3].params))
    BY <2>6, <2>7, <2>8, <2>9, <2>10, <2>11 DEF IdsConfirmed
  <2>13. "EE" \notin qtc.saw
    BY <1>2, <1>4 DEF SawUpTo
  <2>14. ~QtRefused(F[3])
    BY <1>3, <2>5, <2>12, <2>13 DEF QtRefused
  <2> QED BY <1>4, <2>14
<1>5. CASE t = 1
  <2>1. qtc.saw = {"EE"}
    BY <1>2, <1>5 DEF SawUpTo
  <2>2. ~QtRefused(F[4])
    BY <1>3, <2>1 DEF QtRefused
  <2> QED BY <1>5, <2>2
<1>6. CASE t = 2
  <2>1. qtc.saw = {"EE", "CERT"} /\ qtc.tr = UpTo(F, 2)
    BY <1>2, <1>6 DEF SawUpTo
  <2>2. qtconf.verify => F[5].by = "good"
    BY <1>3 DEF SetUp
  <2>3. ~QtRefused(F[5])
    BY <1>3, <2>1, <2>2 DEF QtRefused
  <2> QED BY <1>6, <2>3
<1>7. CASE t = 3
  <2>1. qtc.saw = {"EE", "CERT", "CV"} /\ qtc.tr = UpTo(F, 3)
    BY <1>2, <1>7 DEF SawUpTo
  <2>2. ~QtRefused(F[6])
    BY <1>3, <2>1 DEF QtRefused
  <2> QED BY <1>7, <2>2
<1> QED BY <1>4, <1>5, <1>6, <1>7

\* A message that is not refused takes the client one further.
LEMMA OneFurther ==
  ASSUME QtInv, Served(qts), qtc.pc = "hello", NEW F, F = Made(qtconf, qts), NEW t \in 0..3, Followed(qtconf, qtc, qts, t),
         ~QtRefused(F[3 + t]), NEW k, k = Taken(qtc, F[3 + t])
  PROVE  /\ Followed(qtconf, k, qts, t + 1) /\ ClientShape(qtconf, k) /\ k.keys = qtc.keys /\ k.retry = qtc.retry /\ k.dcid = qtc.dcid
         /\ k.token = qtc.token /\ k.expected = qtc.expected /\ k.odcid = qtc.odcid
         /\ k.pc = (IF t = 3 THEN "done" ELSE "hello") /\ k.tr = Append(qtc.tr, F[3 + t])
         /\ (F[3 + t].type = "FIN" <=> t = 3)
<1>1. ClientShape(qtconf, qtc)
  BY DEF QtInv
<1>2. /\ qtc.tr = UpTo(F, t) /\ qtc.saw = SawUpTo(t) /\ qts.tr[1] = OwnHello(qtconf)
      /\ (t >= 1 => qtc.peer = QtParseParams(QtEncode(qts.params, "server")) /\ Confirmed(qtc, qtc.peer))
      /\ (t >= 3 => (qtconf.verify => qtconf.cert = "good"))
  BY DEF Followed
<1>3. /\ F[3].type = "EE" /\ F[3].alpn = "h3" /\ F[3].params = QtEncode(qts.params, "server") /\ F[4].type = "CERT"
      /\ F[5].type = "CV" /\ F[5].by = qtconf.cert /\ F[5].signed = UpTo(F, 2)
      /\ F[6].type = "FIN" /\ F[6].over = QtKey("server", UpTo(F, 3))
  BY FlightMessages DEF Made
<1>4. PICK m : m = F[3 + t]
  OBVIOUS
<1>5. m.type = (IF t = 0 THEN "EE" ELSE IF t = 1 THEN "CERT" ELSE IF t = 2 THEN "CV" ELSE "FIN")
  <2>1. t = 0 \/ t = 1 \/ t = 2 \/ t = 3
    OBVIOUS
  <2>2. (t = 0 => m = F[3]) /\ (t = 1 => m = F[4]) /\ (t = 2 => m = F[5]) /\ (t = 3 => m = F[6])
    BY <1>4
  <2> QED BY ONLY <1>3, <2>1, <2>2
<1>6. /\ k.tr = Append(qtc.tr, m) /\ k.saw = qtc.saw \cup {m.type}
      /\ k.peer = (IF m.type = "EE" THEN QtParseParams(m.params) ELSE qtc.peer)
      /\ k.pc = (IF m.type = "FIN" THEN "done" ELSE qtc.pc) /\ DOMAIN k = DOMAIN qtc /\ k.hello = qtc.hello
      /\ k.keys = qtc.keys /\ k.retry = qtc.retry /\ k.dcid = qtc.dcid
      /\ k.token = qtc.token /\ k.expected = qtc.expected /\ k.odcid = qtc.odcid
  BY <1>1, <1>4 DEF ClientShape, Taken
<1>7. k.pc = (IF t = 3 THEN "done" ELSE "hello") /\ (m.type = "FIN" <=> t = 3)
  BY <1>5, <1>6
<1>8. ClientShape(qtconf, k)
  BY <1>1, <1>6, <1>7 DEF ClientShape
<1>9. k.tr = UpTo(F, t + 1)
  <2>1. Append(UpTo(F, t), F[3 + t]) = UpTo(F, t + 1)
    BY ONLY t \in 0..3, UpToGrows
  <2> QED BY ONLY <1>2, <1>4, <1>6, <2>1
<1>10. k.saw = SawUpTo(t + 1)
  <2>1. t = 0 \/ t = 1 \/ t = 2 \/ t = 3
    OBVIOUS
  <2> QED BY <1>2, <1>5, <1>6, <2>1 DEF SawUpTo
<1>11. k.peer = QtParseParams(QtEncode(qts.params, "server")) /\ Confirmed(k, k.peer)
  <2>1. CASE t = 0
    <3>1. m = F[3] /\ m.type = "EE"
      BY <1>4, <1>5, <2>1
    <3>2. k.peer = QtParseParams(F[3].params) /\ IdsConfirmed(QtParseParams(F[3].params))
      BY <1>4, <1>6, <3>1 DEF QtRefused
    <3> QED BY <1>3, <1>6, <3>2 DEF Confirmed, IdsConfirmed
  <2>2. CASE t # 0
    <3>1. k.peer = qtc.peer /\ t >= 1
      BY <1>5, <1>6, <2>2
    <3> QED BY <1>2, <1>6, <3>1 DEF Confirmed
  <2> QED BY <2>1, <2>2
<1>12. t + 1 >= 3 => (qtconf.verify => qtconf.cert = "good")
  <2>1. CASE t = 2
    <3>1. m = F[5] /\ m.type = "CV"
      BY <1>4, <1>5, <2>1
    <3>2. ~(qtconf.verify /\ F[5].by # "good")
      BY <1>4, <3>1 DEF QtRefused
    <3> QED BY <1>3, <3>2
  <2>2. CASE t # 2
    BY <1>2, <2>2
  <2> QED BY <2>1, <2>2
<1>13. Followed(qtconf, k, qts, t + 1)
  BY <1>2, <1>9, <1>10, <1>11, <1>12 DEF Followed
<1> QED BY <1>4, <1>6, <1>7, <1>8, <1>13

\* on_handshake()
LEMMA OnHandshakeAgrees == QtInv /\ OnHandshake => QtInv'
<1> SUFFICES ASSUME QtInv, OnHandshake PROVE QtInv'
  OBVIOUS
<1>1. UNCHANGED <<qtconf, qts, qtnet, qtfaults>> /\ qthand' = Tail(qthand) /\ qtc.pc = "hello" /\ qthand # <<>>
  BY DEF OnHandshake
<1>2. /\ ServerMade(qtconf, qts, qthand) /\ ClientAt(qtconf, qtc, qts, qthand) /\ ClientShape(qtconf, qtc) /\ qtc.keys
      /\ ConfShape(qtconf) /\ ServerShape(qts) /\ qtfaults \in Nat
  BY <1>1 DEF QtInv, ClientAt
<1>3. PICK F : F = Made(qtconf, qts)
  OBVIOUS
<1>4. Served(qts) /\ HandOf(F, qthand)
  BY <1>1, <1>2, <1>3 DEF ServerMade
<1>5. PICK n \in 1..8 : n = Len(qthand)
  BY <1>1, <1>4, HandShrinks
<1>6. /\ HandOf(F, qthand') /\ Len(qthand') = n - 1 /\ Head(qthand) = FlightPart(F, 9 - n) /\ (qthand' = <<>> <=> n = 1)
  BY <1>1, <1>4, <1>5, HandShrinks
<1>7. qts.pc = "ready" /\ qts.tr = F /\ qtfin = <<>> /\ Followed(qtconf, qtc, qts, (8 - n) \div 2)
  BY <1>3, <1>5, PacketOpens
<1>8. ServerMade(qtconf, qts, qthand')
  BY <1>2, <1>3, <1>4, <1>6 DEF ServerMade
<1>9. PICK part : part = Head(qthand)
  OBVIOUS
<1>10. IF NextComplete(part) = <<>> THEN qtc' = [qtc EXCEPT !.buf = <<part>>] /\ UNCHANGED qtfin
       ELSE TakeMessage(NextComplete(part)[1])
  BY <1>9 DEF OnHandshake
<1>11. CASE (9 - n) % 2 = 1
  <2>1. part[2] = "head"
    BY <1>6, <1>9, <1>11 DEF FlightPart
  <2>2. NextComplete(part) = <<>>
    BY <2>1 DEF NextComplete
  <2>3. qtc' = [qtc EXCEPT !.buf = <<part>>] /\ UNCHANGED qtfin
    BY <1>10, <2>2
  <2>4. /\ qtc'.pc = qtc.pc /\ qtc'.hello = qtc.hello /\ qtc'.dcid = qtc.dcid /\ qtc'.odcid = qtc.odcid /\ qtc'.retry = qtc.retry
        /\ qtc'.token = qtc.token /\ qtc'.expected = qtc.expected /\ qtc'.tr = qtc.tr /\ qtc'.keys = qtc.keys /\ qtc'.saw = qtc.saw
        /\ qtc'.peer = qtc.peer /\ DOMAIN qtc' = DOMAIN qtc
    BY <1>2, <2>3 DEF ClientShape
  <2>5. ClientShape(qtconf, qtc')
    BY <1>2, <2>4 DEF ClientShape
  <2>6. n # 1 /\ (8 - (n - 1)) \div 2 = (8 - n) \div 2
    BY <1>11, PartCount
  <2>7. Followed(qtconf, qtc', qts, (8 - Len(qthand')) \div 2)
    BY <1>6, <1>7, <2>4, <2>6 DEF Followed, Confirmed
  <2>8. ClientAt(qtconf, qtc', qts, qthand')
    BY <1>1, <1>2, <1>4, <1>6, <2>4, <2>6, <2>7 DEF ClientAt
  <2>9. FinAt(qtc', qts, qtfin')
    BY <1>7, <2>3 DEF FinAt
  <2>10. Honest(qtconf, qtc, qts, qtnet) => Honest(qtconf, qtc', qts, qtnet)
    BY <2>4 DEF Honest, HonestMsg, HonestClient
  <2> QED BY <1>1, <1>2, <1>8, <2>5, <2>8, <2>9, <2>10 DEF QtInv
<1>12. CASE (9 - n) % 2 # 1
  <2>1. PICK t \in 0..3 : t = (8 - n) \div 2
    BY <1>12, PartCount
  <2>2. 2 + ((9 - n) + 1) \div 2 = 3 + t /\ (8 - (n - 1)) \div 2 = t + 1 /\ (n = 1 <=> t = 3)
    BY <1>12, <2>1, PartCount
  <2>3. PICK m : m = F[3 + t]
    OBVIOUS
  <2>4. part[1] = m /\ part[2] = "rest"
    BY <1>6, <1>9, <1>12, <2>2, <2>3 DEF FlightPart
  <2>5. NextComplete(part) = <<m>> /\ NextComplete(part) # <<>> /\ NextComplete(part)[1] = m
    BY <2>4 DEF NextComplete
  <2>6. TakeMessage(m)
    BY <1>10, <2>5
  <2>7. Followed(qtconf, qtc, qts, t)
    BY <1>7, <2>1
  <2>8. CASE QtRefused(m)
    <3>1. qtc' = [qtc EXCEPT !.pc = "failed"] /\ UNCHANGED qtfin
      BY <2>6, <2>8 DEF TakeMessage, ClientFails
    <3>2. qtc'.pc = "failed" /\ qtc'.keys = qtc.keys /\ qtc'.hello = qtc.hello /\ qtc'.odcid = qtc.odcid /\ DOMAIN qtc' = DOMAIN qtc
      BY <1>2, <3>1 DEF ClientShape
    <3>3. ClientShape(qtconf, qtc')
      BY <1>2, <3>2 DEF ClientShape
    <3>4. ClientAt(qtconf, qtc', qts, qthand')
      BY <1>2, <3>2 DEF ClientAt
    <3>5. FinAt(qtc', qts, qtfin')
      BY <1>7, <3>1 DEF FinAt
    <3>6. ~(qtfaults = 0 /\ SetUp(qtconf))
      BY <1>1, <1>3, <1>4, <2>3, <2>7, <2>8, NotRefused
    <3> QED BY <1>1, <1>2, <1>8, <3>3, <3>4, <3>5, <3>6 DEF QtInv
  <2>9. CASE ~QtRefused(m)
    <3>1. qtc' = Taken(qtc, m)
      BY <2>6, <2>9 DEF TakeMessage, Taken
    <3>2. qtfin' = IF m.type = "FIN" THEN <<QtFinished("client", Append(qtc.tr, m))>> ELSE qtfin
      BY <2>6, <2>9 DEF TakeMessage
    <3>3. /\ Followed(qtconf, qtc', qts, t + 1) /\ ClientShape(qtconf, qtc') /\ qtc'.keys = qtc.keys /\ qtc'.retry = qtc.retry
          /\ qtc'.dcid = qtc.dcid /\ qtc'.token = qtc.token /\ qtc'.expected = qtc.expected
          /\ qtc'.pc = (IF t = 3 THEN "done" ELSE "hello") /\ qtc'.tr = Append(qtc.tr, m) /\ (m.type = "FIN" <=> t = 3)
      BY <1>1, <1>3, <1>4, <2>3, <2>7, <2>9, <3>1, OneFurther
    <3>4. ClientAt(qtconf, qtc', qts, qthand')
      <4>1. CASE t = 3
        <5>1. qthand' = <<>> /\ qtc'.pc = "done" /\ Followed(qtconf, qtc', qts, 4)
          BY <1>6, <2>2, <3>3, <4>1
        <5> QED BY <1>2, <1>4, <3>3, <5>1 DEF ClientAt
      <4>2. CASE t # 3
        <5>1. qthand' # <<>> /\ qtc'.pc = "hello"
          BY ONLY <1>6, <2>2, <3>3, <4>2
        <5>2. n - 1 # 8 /\ Len(qthand') = n - 1
          BY ONLY <1>6, n \in 1..8
        <5>3. Followed(qtconf, qtc', qts, (8 - Len(qthand')) \div 2)
          BY ONLY <2>2, <3>3, <5>2
        <5> QED BY <1>2, <1>4, <3>3, <5>1, <5>2, <5>3 DEF ClientAt
      <4> QED BY <4>1, <4>2
    <3>5. FinAt(qtc', qts, qtfin')
      BY <1>7, <3>2, <3>3 DEF FinAt
    <3>6. qtc'.tr[2] = QtSh
      <4>1. qtc'.tr = UpTo(F, t + 1) /\ t + 1 \in 0..4 /\ 2 \in 1..(2 + (t + 1))
        BY <1>3, <3>3 DEF Followed
      <4>2. F[2] = QtSh
        BY <1>3, FlightFacts DEF Made
      <4> QED BY ONLY <4>1, <4>2 DEF UpTo
    <3>7. Honest(qtconf, qtc, qts, qtnet) => Honest(qtconf, qtc', qts, qtnet)
      BY <1>2, <3>3, <3>6 DEF Honest, HonestMsg, HonestClient
    <3> QED BY <1>1, <1>2, <1>8, <3>3, <3>4, <3>5, <3>7 DEF QtInv
  <2> QED BY <2>8, <2>9
<1> QED BY <1>11, <1>12

LEMMA AgreedNext == QtInv /\ [QtNext]_qtvars => QtInv'
<1>1. ASSUME QtInv, UNCHANGED qtvars PROVE QtInv'
  BY <1>1 DEF QtInv, qtvars
<1> QED BY <1>1, StartAgrees, RetryAgrees, FollowRetryAgrees, AcceptAgrees, InitialAgrees, OnHandshakeAgrees, FinishedAgrees,
           InterfereAgrees DEF QtNext

LEMMA AgreedInv == QtInv => QuicAgrees
<1> SUFFICES ASSUME QtInv PROVE QuicAgrees
  OBVIOUS
<1>1. /\ ServerMade(qtconf, qts, qthand) /\ ClientAt(qtconf, qtc, qts, qthand) /\ FinAt(qtc, qts, qtfin) /\ ServerShape(qts)
  BY DEF QtInv
<1>2. PICK F : F = Made(qtconf, qts)
  OBVIOUS
<1>3. ASSUME qtc.pc = "done"
      PROVE  /\ qts.pc \in {"ready", "done"} /\ IsPrefix(qtc.tr, qts.tr) /\ qtc.peer = [qts.params EXCEPT !.iscid = "server"]
             /\ qtc.odcid = qts.odcid /\ qtc.retry = qts.retry /\ (qtconf.verify => qtconf.cert = "good")
             /\ qts.tr[1] = OwnHello(qtconf)
  <2>1. Served(qts) /\ Followed(qtconf, qtc, qts, 4)
    BY <1>1, <1>3 DEF ClientAt
  <2>2. /\ qtc.tr = UpTo(F, 4) /\ qts.tr[1] = OwnHello(qtconf) /\ qtc.peer = QtParseParams(QtEncode(qts.params, "server"))
        /\ Confirmed(qtc, qtc.peer) /\ (qtconf.verify => qtconf.cert = "good")
    BY <1>2, <2>1 DEF Followed
  <2>3. qtc.tr = F
    BY <1>2, <2>2, UpToAll DEF Made
  <2>4. qts.params = OwnParams(qtconf, qts.odcid, qts.retry)
    BY <1>1, <2>1 DEF ServerMade
  <2>5. PICK p : p = qts.params
    OBVIOUS
  <2>6. PlainParams(p) /\ DOMAIN p = QtFields /\ p.odcid = qts.odcid /\ p.rscid = qts.retry
    BY <2>4, <2>5, OwnPlain, OwnFields
  <2>7. qtc.peer = [p EXCEPT !.iscid = "server"]
    BY <2>2, <2>5, <2>6, ParsedBack
  <2>8. qtc.peer.odcid = qts.odcid /\ qtc.peer.rscid = qts.retry
    BY <2>6, <2>7 DEF QtFields
  <2>9. qtc.odcid = qts.odcid /\ qtc.retry = qts.retry
    BY <2>2, <2>8 DEF Confirmed
  <2>10. qts.tr = F \/ qts.tr = Append(F, QtFinished("client", F))
    BY <1>1, <1>2, <2>1 DEF ServerMade
  <2>11. PICK S : F \in Seq(S) /\ QtFinished("client", F) \in S /\ Len(F) = 6
    <3>1. PICK a, b, d, e, f, g : F = <<a, b, d, e, f, g>>
      BY <1>2 DEF Made, QtFlight
    <3>2. F \in Seq({a, b, d, e, f, g, QtFinished("client", F)}) /\ Len(F) = 6
      BY <3>1
    <3> QED BY <3>2
  <2>12. IsPrefix(F, qts.tr)
    <3>1. PICK x \in S : x = QtFinished("client", F)
      BY <2>11
    <3>2. PICK g \in Seq(S) : g = F
      BY <2>11
    <3>3. PICK w \in Seq(S) : w = qts.tr
      <4>1. g \in Seq(S) /\ Append(g, x) \in Seq(S)
        BY ONLY g \in Seq(S), x \in S
      <4>2. qts.tr = g \/ qts.tr = Append(g, x)
        BY <2>10, <3>1, <3>2
      <4> QED BY ONLY <4>1, <4>2
    <3>4. Len(g) = 6 /\ Len(w) >= 6 /\ Len(w) \in Nat /\ \A i \in 1..6 : w[i] = g[i]
      <4>1. CASE w = g
        <5>1. Len(g) = 6
          BY <2>11, <3>2
        <5> QED BY ONLY <4>1, <5>1
      <4>2. CASE w = Append(g, x)
        BY <2>11, <3>1, <3>2, <4>2
      <4> QED BY <2>10, <3>1, <3>2, <3>3, <4>1, <4>2
    <3>5. SubSeq(w, 1, 6) = g
      <4>1. SubSeq(w, 1, 6) \in Seq(S) /\ Len(SubSeq(w, 1, 6)) = 6 /\ \A i \in 1..6 : SubSeq(w, 1, 6)[i] = w[i]
        BY ONLY <3>4, w \in Seq(S)
      <4>2. PICK y \in Seq(S) : y = SubSeq(w, 1, 6)
        BY <4>1
      <4>3. Len(y) = Len(g) /\ \A i \in 1..Len(y) : y[i] = g[i]
        BY <3>4, <4>1, <4>2
      <4>4. y = g
        BY ONLY <4>3, y \in Seq(S), g \in Seq(S)
      <4> QED BY <4>2, <4>4
    <3> QED BY <3>2, <3>3, <3>4, <3>5 DEF IsPrefix
  <2> QED BY <2>1, <2>2, <2>3, <2>5, <2>7, <2>9, <2>12 DEF Served
<1>4. ASSUME qts.pc = "done" PROVE qtc.pc = "done" /\ qts.peer.data = qtconf.data
  <2>1. qtc.pc = "done"
    BY <1>1, <1>4 DEF FinAt
  <2>2. qts.peer = QtParseParams(qts.tr[1].params)
    BY <1>1, <1>4 DEF ServerMade, Served
  <2>3. qts.tr[1] = OwnHello(qtconf)
    BY <1>3, <2>1
  <2> QED BY <2>1, <2>2, <2>3, HelloParams
<1>5. ASSUME qtfaults = 0, SetUp(qtconf) PROVE qtc.pc # "failed" /\ qts.pc # "failed"
  BY <1>5 DEF QtInv, Honest
<1> QED BY <1>3, <1>4, <1>5 DEF QuicAgrees, SetUp

(***************************************************************************)
(* The handshake of QuicClient and QuicServer, whatever the network does   *)
(* to the Initial packets: a client that is done has the server's          *)
(* transcript, parameters, ids and Retry, a server that is done has a      *)
(* client that is done, and an undisturbed handshake of two ends set up    *)
(* for each other never fails.                                             *)
(***************************************************************************)
THEOREM HandshakeStaysAgreed == QtSpec => []QuicAgrees
<1>1. QtSpec => []QtInv
  BY InitAgrees, AgreedNext, PTL DEF QtSpec
<1> QED BY <1>1, AgreedInv, PTL

-----------------------------------------------------------------------------
(***************************************************************************)
(* HandshakesKept for every pair of configurations, any number of          *)
(* connections and any of them tampered with.  The invariant says where    *)
(* the two ends stand: what is on the way, and what each has derived.      *)
(* Nothing is assumed of a hello that was changed: what the client accepts *)
(* opens under the server's key, and equal keys are made of equal hellos.  *)
(***************************************************************************)
Deserved == tlAltered \/ ~Meet(tlCfg.c, tlCfg.s)

CfgTrue == tlCfg.c \in TlClients /\ tlCfg.s \in TlServers \union TlRestarts /\ tlCfg = [c |-> tlCfg.c, s |-> tlCfg.s]

StoreTrue ==
    \/ tlStore = TlsNone
    \/ tlStore.t = "session" /\ tlStore.psk = tlStore.ticket.psk /\ tlStore.suite = tlStore.ticket.suite

\* What the client says of itself.
HelloTrue(ch) ==
    /\ ch = [t |-> "CH", n |-> tlConn, alpn |-> ch.alpn, psk |-> ch.psk, vers |-> ch.vers, share |-> ch.share, sid |-> ch.sid]
    /\ 13 \in ch.vers <=> Allow13(tlCfg.c)
    /\ 12 \in ch.vers => Allow12(tlCfg.c)
    /\ Allow12(tlCfg.c) /\ tlStore = TlsNone => 12 \in ch.vers
    /\ ch.psk # TlsNone => Session # TlsNone /\ ch.psk.ticket = Session.ticket

Asks ==
    /\ tlC.pc = "hello" /\ tlC = [pc |-> "hello", ch |-> tlC.ch, prefix |-> tlC.prefix, sess |-> Session]
    /\ HelloTrue(tlC.ch)

AtRest == tlC.pc = "idle" /\ tlS.pc = "idle" /\ tlUp = <<>> /\ tlDown = <<>>

HelloSent ==
    /\ Asks /\ tlS.pc = "idle" /\ tlDown = <<>>
    /\ tlC.prefix = <<>> /\ Len(tlUp) = 1 /\ tlUp = <<tlUp[1]>>
    /\ ~tlAltered => tlUp[1] = tlC.ch

RetryAsked ==
    /\ tlS.pc = "retry" /\ tlS.hrr.t = "HRR" /\ tlS.suite = Choose13(tlCfg.s.kt) /\ Allow13(tlCfg.s)
    /\ ~tlAltered => Allow13(tlCfg.c)

RetrySent ==
    /\ Asks /\ RetryAsked /\ tlUp = <<>> /\ tlDown = <<tlS.hrr>>
    /\ tlC.prefix = <<>> /\ (~tlAltered => tlS.ch = tlC.ch)

HelloAgain ==
    /\ Asks /\ RetryAsked /\ tlDown = <<>> /\ Len(tlUp) = 1 /\ tlUp = <<tlUp[1]>>
    /\ ~tlAltered => tlUp[1] = tlC.ch /\ tlC.ch.share /\ tlC.prefix = <<MessageHash(tlS.ch), tlS.hrr>>

\* The server has answered: the secrets are those of the hello it read.
Answered13 ==
    /\ tlS.pc = "flight" /\ tlS.ver = 13 /\ Allow13(tlCfg.s)
    /\ \E s, ch, suite, prefix : /\ s = tlCfg.s /\ ch = tlS.ch /\ suite = tlS.suite /\ prefix = tlS.prefix
                                 /\ tlS.ans = Answer13(s, ch, suite, prefix)
    /\ ~tlAltered => tlS.suite = Choose13(tlCfg.s.kt)

FlightSent13 ==
    /\ Asks /\ Answered13 /\ tlUp = <<>>
    /\ Len(tlDown) = 2 /\ tlDown = <<tlDown[1], Enc(<<tlS.ans.hs, "s">>, tlS.ans.msgs)>>
    /\ tlDown[1] = ServerHello13(tlDown[1].suite, tlS.ans.psk # TlsNone, tlS.ch.sid)
    /\ ~tlAltered => /\ tlDown[1] = tlS.ans.sh /\ tlS.ch = tlC.ch /\ tlS.prefix = tlC.prefix
                     /\ Allow13(tlCfg.c)

\* The server cannot sign what it has said in its hello.
HelloOnly ==
    /\ Asks /\ tlS.pc = "failed" /\ tlUp = <<>> /\ Deserved
    /\ Len(tlDown) = 1 /\ tlDown[1].t = "SH"
    /\ tlDown = <<ServerHello13(tlDown[1].suite, tlDown[1].resumed, tlDown[1].sid)>>

Answered12 ==
    /\ tlS.pc = "flight" /\ tlS.ver = 12 /\ Allow12(tlCfg.s) /\ tlCfg.s.auth = "none" /\ ~Speaks13(tlCfg.s, tlS.ch)
    /\ tlS.flight = <<ServerHello12(tlS.suite, tlS.flight[1].alpn, Sentinel(tlS.ch)), Certificate12(tlCfg.s.cert),
                      ServerKeyExchange(tlCfg.s.cert), [t |-> "SHD"]>>

FlightSent12 ==
    /\ Asks /\ Answered12 /\ tlUp = <<>>
    /\ Len(tlDown) = 4
    /\ tlDown = <<tlDown[1], Certificate12(tlCfg.s.cert), ServerKeyExchange(tlCfg.s.cert), [t |-> "SHD"]>>
    /\ tlDown[1] = ServerHello12(tlS.suite, tlDown[1].alpn, Sentinel(tlS.ch))
    /\ ~tlAltered => tlDown = tlS.flight /\ tlS.ch = tlC.ch /\ Offers12(tlS.ch)

Alert(code) == [t |-> "alert", code |-> code]

Refused ==
    /\ Asks /\ tlS.pc = "failed" /\ tlUp = <<>> /\ Deserved
    /\ tlDown = <<>> \/ tlDown = <<Alert(40)>> \/ tlDown = <<Alert(70)>>

GaveUp == tlC.pc = "failed" /\ tlS.pc \in {"flight", "failed"} /\ tlUp = <<>> /\ tlDown = <<>> /\ Deserved

\* The client has accepted: it holds what the server derived.
Accepted13 ==
    /\ tlC.pc = "done" /\ tlC.res.ver = 13 /\ Answered13 /\ Allow13(tlCfg.c) /\ tlDown = <<>>
    /\ LET a == tlS.ans
           cert == IF a.msgs.cr = TlsNone THEN TlsNone ELSE Cert(tlCfg.c.ident)
           cv == IF a.msgs.cr # TlsNone /\ tlCfg.c.ident # "none" THEN CertVerify(tlCfg.c.ident, <<a.th, cert>>) ELSE TlsNone
           fin == Fin(a.hs, "c", <<a.th, cert, cv>>)
       IN  /\ tlUp = <<Enc(<<a.hs, "c">>, [cert |-> cert, cv |-> cv, fin |-> fin])>>
           /\ tlC.res = [ver |-> 13, suite |-> tlS.suite, resumed |-> a.psk # TlsNone, alpn |-> a.msgs.ee.alpn,
                         write |-> AppSecret(a.hs, a.th, "c"), read |-> AppSecret(a.hs, a.th, "s"),
                         peer |-> tlC.res.peer, master |-> Master(a.hs, <<a.th, cert, cv, fin>>)]

Agree ==
    /\ tlC.res.ver = tlS.res.ver /\ tlC.res.suite = tlS.res.suite
    /\ tlC.res.alpn = tlS.res.alpn /\ tlC.res.resumed = tlS.res.resumed
    /\ tlC.res.write = tlS.res.read /\ tlC.res.read = tlS.res.write

Served13 ==
    /\ tlC.pc = "done" /\ tlS.pc = "done" /\ tlUp = <<>> /\ Agree /\ tlC.res.ver = 13
    /\ tlCfg.s.auth = "required" => tlS.res.peer = "ok" /\ tlCfg.c.ident = "ok"
    /\ \/ tlDown = <<>>
       \/ /\ Len(tlDown) = 1 /\ tlDown = <<Enc(tlC.res.read, tlDown[1].msgs)>>
          /\ tlDown[1].msgs.ticket.psk = Psk(tlC.res.master) /\ tlDown[1].msgs.ticket.suite = tlC.res.suite

Rejected13 ==
    /\ tlC.pc = "done" /\ tlS.pc = "failed" /\ tlUp = <<>> /\ tlDown = <<Alert(42)>> /\ tlC.res.ver = 13 /\ Deserved

\* The same of TLS 1.2, where the client waits for the server's Finished.
Waits12 ==
    /\ tlC.pc = "wait12" /\ tlC.th = <<<<<<tlC.th[1][1][1], tlC.th[1][1][2]>>, ClientKeyExchange>>, tlC.th[2]>>
    /\ tlC.th[2] = Fin(Keys12(tlC.res.suite, "m"), "c", tlC.th[1])
    /\ tlC.res = Result12(tlC.th[1][1][2][1].suite, tlC.th[1][1][2][1].alpn,
                          Keys12(tlC.res.suite, "c"), Keys12(tlC.res.suite, "s"), tlC.res.peer)
    /\ ~(Allow13(tlCfg.c) /\ Allow13(tlCfg.s))

Accepted12 ==
    /\ Waits12 /\ Answered12 /\ tlDown = <<>>
    /\ tlUp = <<ClientKeyExchange, [t |-> "CCS"], Enc(Keys12(tlC.res.suite, "c"), tlC.th[2])>>
    /\ ~tlAltered => tlC.th[1][1] = <<tlS.ch, tlS.flight>>

Served12 ==
    /\ Waits12 /\ tlS.pc = "done" /\ tlUp = <<>> /\ Agree /\ tlCfg.s.auth = "none"
    /\ tlDown = <<[t |-> "CCS"], Enc(Keys12(tlC.res.suite, "s"), Fin(Keys12(tlC.res.suite, "m"), "s", tlC.th))>>

Rejected12 == Waits12 /\ tlS.pc = "failed" /\ tlUp = <<>> /\ Deserved /\ (tlDown = <<>> \/ tlDown = <<Alert(40)>>)

Done12 ==
    /\ tlC.pc = "done" /\ tlS.pc = "done" /\ tlUp = <<>> /\ tlDown = <<>> /\ Agree /\ tlCfg.s.auth = "none"
    /\ ~(Allow13(tlCfg.c) /\ Allow13(tlCfg.s))

Stands ==
    \/ AtRest \/ HelloSent \/ RetrySent \/ HelloAgain \/ FlightSent13 \/ HelloOnly \/ FlightSent12 \/ Refused \/ GaveUp
    \/ Accepted13 \/ Served13 \/ Rejected13 \/ Accepted12 \/ Served12 \/ Rejected12 \/ Done12

TlInv == CfgTrue /\ StoreTrue /\ Stands

LEMMA Distinct ==
    ASSUME NEW c, NEW th, NEW x
    PROVE  /\ Cert(c) # TlsNone /\ CertVerify(c, th) # TlsNone /\ CertificateRequest # TlsNone
           /\ Psk(x) # TlsNone
  BY DEF Cert, CertVerify, CertificateRequest, Psk, TlsNone

\* Between two connections nothing else moves.
Steady == UNCHANGED <<tlCfg, tlConn, tlNow, tlStore>>

LEMMA Steadily ==
    ASSUME Steady
    PROVE  /\ Session' = Session /\ CfgTrue' = CfgTrue /\ StoreTrue' = StoreTrue
           /\ \A ch : HelloTrue(ch)' <=> HelloTrue(ch)
           /\ tlAltered' = tlAltered => (Deserved' <=> Deserved)
<1>1. tlCfg' = tlCfg /\ tlStore' = tlStore /\ tlConn' = tlConn
  BY DEF Steady
<1>2. Session' = Session
  BY <1>1 DEF Session
<1>3. \A c, s : Meet(c, s)' <=> Meet(c, s)
  BY <1>1 DEF Meet
<1> QED BY <1>1, <1>2, <1>3 DEF CfgTrue, StoreTrue, HelloTrue, Deserved

LEMMA SameAnswer ==
    ASSUME Steady, NEW s, NEW ch, NEW suite, NEW prefix
    PROVE  Answer13(s, ch, suite, prefix)' = Answer13(s, ch, suite, prefix)
<1>1. tlConn' = tlConn /\ tlNow' = tlNow
  BY DEF Steady
<1>2. Resumes(s, ch, suite, prefix)' = Resumes(s, ch, suite, prefix)
  BY <1>1 DEF Resumes, TicketOpens
<1>3. \A psk, th : HsSecret(suite, psk, th)' = HsSecret(suite, psk, th)
  BY <1>1 DEF HsSecret
<1> QED BY <1>2, <1>3 DEF Answer13

\* A set of numbers that is not empty has a least one.
LEMMA LeastOf ==
  ASSUME NEW T \in SUBSET Nat, T # {}
  PROVE  \E x \in T : \A y \in T : x <= y
<1>1. PICK R : R = OpToRel(<, Nat)
  OBVIOUS
<1>2. IsWellFoundedOn(R, Nat)
  BY <1>1, NatLessThanWellFounded
<1>3. PICK x \in T : \A y \in T : ~(<<y, x>> \in R)
  BY <1>2, WFMin
<1>4. ASSUME NEW y \in T PROVE x <= y
  <2>1. <<y, x>> \notin R
    BY <1>3
  <2>2. x \in Nat /\ y \in Nat
    OBVIOUS
  <2>3. ~(y < x)
    BY <1>1, <2>1, <2>2 DEF OpToRel
  <2> QED BY <2>2, <2>3
<1> QED BY <1>4

LEMMA SuiteFits ==
    ASSUME NEW kt \in IdentityKinds
    PROVE  kt # "p521" => CanSign(kt, Choose13(kt))
<1>1. PICK T \in SUBSET Nat : T = {i \in DOMAIN Suites13 : Hash13(Suites13[i]) \in HashPref(kt)}
  <2>1. DOMAIN Suites13 = 1..3
    BY DEF Suites13
  <2>2. {i \in DOMAIN Suites13 : Hash13(Suites13[i]) \in HashPref(kt)} \subseteq Nat
    BY <2>1
  <2> QED BY <2>2
<1>2. Hash13("aes256") = 384 /\ Hash13("chacha") = 256
  BY DEF Hash13
<1>3. Suites13[1] = "chacha" /\ Suites13[3] = "aes256" /\ 1 \in DOMAIN Suites13 /\ 3 \in DOMAIN Suites13
  BY DEF Suites13
<1>4. HashPref(kt) = IF kt = "p256" THEN {256} ELSE IF kt = "p384" THEN {384} ELSE {256, 384}
  BY DEF HashPref, IdentityKinds
<1>5. T # {}
  BY <1>1, <1>2, <1>3, <1>4
<1>6. \E i \in T : \A j \in T : i <= j
  BY <1>5, LeastOf
<1>7. PICK i \in T : i = CHOOSE x \in T : \A y \in T : x <= y
  BY <1>6
<1>8. Choose13(kt) = Suites13[i] /\ Hash13(Suites13[i]) \in HashPref(kt)
  BY <1>1, <1>7 DEF Choose13, Min
<1> QED BY <1>4, <1>8 DEF CanSign, IdentityKinds

\* Where the two ends stand, told by where they are in their code.
LEMMA WhereIs ==
    ASSUME Stands
    PROVE  /\ tlC.pc = "idle" => AtRest
           /\ tlS.pc = "idle" /\ tlUp # <<>> => HelloSent
           /\ tlS.pc = "retry" => RetrySent \/ HelloAgain
           /\ tlC.pc = "hello" /\ tlDown # <<>> => RetrySent \/ FlightSent13 \/ HelloOnly \/ FlightSent12 \/ Refused
           /\ tlC.pc = "wait12" => Accepted12 \/ Served12 \/ Rejected12
           /\ tlS.pc = "flight" /\ tlUp # <<>> => Accepted13 \/ Accepted12
           /\ tlC.pc = "done" /\ tlDown # <<>> => Served13 \/ Rejected13
           /\ tlC.pc = "hello" /\ tlS.pc = "failed" => HelloOnly \/ Refused
           /\ tlC.pc = "failed" => GaveUp
           /\ tlC.pc = "done" => Accepted13 \/ Served13 \/ Rejected13 \/ Done12
           /\ tlS.pc = "done" => Served13 \/ Served12 \/ Done12
           /\ tlS.pc = "failed" => HelloOnly \/ Refused \/ GaveUp \/ Rejected13 \/ Rejected12
<1>1. AtRest => tlC.pc = "idle" /\ tlS.pc = "idle" /\ tlUp = <<>> /\ tlDown = <<>>
  BY DEF AtRest
<1>2. HelloSent => tlC.pc = "hello" /\ tlS.pc = "idle" /\ tlDown = <<>>
  BY DEF HelloSent, Asks
<1>3. RetrySent => tlC.pc = "hello" /\ tlS.pc = "retry" /\ tlUp = <<>>
  BY DEF RetrySent, Asks, RetryAsked
<1>4. HelloAgain => tlC.pc = "hello" /\ tlS.pc = "retry" /\ tlDown = <<>>
  BY DEF HelloAgain, Asks, RetryAsked
<1>5. FlightSent13 \/ FlightSent12 => tlC.pc = "hello" /\ tlS.pc = "flight" /\ tlUp = <<>>
  BY DEF FlightSent13, FlightSent12, Asks, Answered13, Answered12
<1>6. HelloOnly \/ Refused => tlC.pc = "hello" /\ tlS.pc = "failed" /\ tlUp = <<>>
  BY DEF HelloOnly, Refused, Asks
<1>7. GaveUp => tlC.pc = "failed" /\ tlS.pc \in {"flight", "failed"} /\ tlUp = <<>> /\ tlDown = <<>>
  BY DEF GaveUp
<1>8. Accepted13 => tlC.pc = "done" /\ tlS.pc = "flight" /\ tlDown = <<>>
  BY DEF Accepted13, Answered13
<1>9. Served13 => tlC.pc = "done" /\ tlS.pc = "done" /\ tlUp = <<>>
  BY DEF Served13
<1>10. Rejected13 => tlC.pc = "done" /\ tlS.pc = "failed" /\ tlUp = <<>>
  BY DEF Rejected13
<1>11. Accepted12 => tlC.pc = "wait12" /\ tlS.pc = "flight" /\ tlDown = <<>>
  BY DEF Accepted12, Waits12, Answered12
<1>12. Served12 => tlC.pc = "wait12" /\ tlS.pc = "done" /\ tlUp = <<>>
  BY DEF Served12, Waits12
<1>13. Rejected12 => tlC.pc = "wait12" /\ tlS.pc = "failed" /\ tlUp = <<>>
  BY DEF Rejected12, Waits12
<1>14. Done12 => tlC.pc = "done" /\ tlS.pc = "done" /\ tlUp = <<>> /\ tlDown = <<>>
  BY DEF Done12
<1>15. /\ tlC.pc \in {"idle", "hello", "wait12", "done", "failed"}
  BY <1>1, <1>2, <1>3, <1>4, <1>5, <1>6, <1>7, <1>8, <1>9, <1>10, <1>11, <1>12, <1>13, <1>14 DEF Stands
<1> HIDE DEF AtRest, HelloSent, RetrySent, HelloAgain, FlightSent13, HelloOnly, FlightSent12, Refused, GaveUp,
             Accepted13, Served13, Rejected13, Accepted12, Served12, Rejected12, Done12
<1> QED BY <1>1, <1>2, <1>3, <1>4, <1>5, <1>6, <1>7, <1>8, <1>9, <1>10, <1>11, <1>12, <1>13, <1>14 DEF Stands

\* TlsConnector::connect: the hello says what the client is.
LEMMA HelloIs ==
    ASSUME CfgTrue, NEW ch, ch = IF Session = TlsNone THEN Hello(tlCfg.c) ELSE HelloPsk(tlCfg.c, Session)
    PROVE  HelloTrue(ch)
<1>1. CASE Session = TlsNone
  <2>1. ch = Hello(tlCfg.c)
    BY <1>1
  <2>2. /\ ch.psk = TlsNone
        /\ ch.vers = (IF Allow13(tlCfg.c) THEN {13} ELSE {}) \cup (IF Allow12(tlCfg.c) THEN {12} ELSE {})
    BY <2>1 DEF Hello
  <2>3. (13 \in ch.vers <=> Allow13(tlCfg.c)) /\ (12 \in ch.vers <=> Allow12(tlCfg.c))
    BY <2>2
  <2>4. ch = [t |-> "CH", n |-> tlConn, alpn |-> ch.alpn, psk |-> ch.psk, vers |-> ch.vers, share |-> ch.share, sid |-> ch.sid]
    BY <2>1 DEF Hello
  <2> QED BY <2>2, <2>3, <2>4 DEF HelloTrue
<1>2. CASE Session # TlsNone
  <2>1. Allow13(tlCfg.c) /\ Session = tlStore /\ tlStore # TlsNone
    BY <1>2 DEF Session
  <2>2. PICK b : ch = [t |-> "CH", n |-> tlConn, alpn |-> tlCfg.c.alpn, psk |-> [t |-> "psk", ticket |-> Session.ticket, binder |-> b],
                      vers |-> {13}, share |-> TRUE, sid |-> 0]
    BY <1>2, ZenonT(60) DEF HelloPsk, Hello
  <2>3. ch.vers = {13} /\ ch.psk.ticket = Session.ticket
    BY <2>2
  <2>4. ch = [t |-> "CH", n |-> tlConn, alpn |-> ch.alpn, psk |-> ch.psk, vers |-> ch.vers, share |-> ch.share, sid |-> ch.sid]
    BY <2>2
  <2> QED BY <1>2, <2>1, <2>3, <2>4 DEF HelloTrue
<1> QED BY <1>1, <1>2

LEMMA ConnectsStep == ASSUME TlInv, TlsConnect PROVE TlInv'
<1>1. AtRest /\ CfgTrue /\ StoreTrue
  BY WhereIs DEF TlInv, TlsConnect
<1>2. Steady /\ tlAltered' = tlAltered
  BY DEF TlsConnect, Steady
<1>3. PICK ch : ch = IF Session = TlsNone THEN Hello(tlCfg.c) ELSE HelloPsk(tlCfg.c, Session)
  OBVIOUS
<1>4. tlUp' = <<ch>> /\ tlC' = [pc |-> "hello", ch |-> ch, prefix |-> <<>>, sess |-> Session] /\ tlS' = tlS /\ tlDown' = tlDown
  BY <1>3 DEF TlsConnect
<1>5. tlC'.pc = "hello" /\ tlC'.ch = ch /\ tlC'.prefix = <<>> /\ tlC'.sess = Session
  BY <1>4
<1>6. Session' = Session /\ CfgTrue' /\ StoreTrue' /\ HelloTrue(ch)'
  BY <1>1, <1>2, <1>3, HelloIs, Steadily
<1>7. Asks'
  BY <1>4, <1>5, <1>6 DEF Asks
<1>8. Len(tlUp') = 1 /\ tlUp' = <<tlUp'[1]>> /\ tlUp'[1] = ch
  BY <1>4
<1>9. HelloSent'
  BY <1>1, <1>4, <1>5, <1>7, <1>8 DEF HelloSent, AtRest
<1> QED BY <1>6, <1>9 DEF TlInv, Stands

LEMMA RetriesStep == ASSUME TlInv, Retry PROVE TlInv'
<1>1. RetrySent /\ CfgTrue /\ StoreTrue
  <2>1. RetrySent \/ FlightSent13 \/ HelloOnly \/ FlightSent12 \/ Refused
    BY WhereIs DEF TlInv, Retry
  <2>2. FlightSent13 => tlDown[1].t = "SH"
    BY DEF FlightSent13, ServerHello13
  <2>3. HelloOnly => tlDown[1].t = "SH"
    BY DEF HelloOnly
  <2>4. FlightSent12 => tlDown[1].t = "SH"
    BY DEF FlightSent12, ServerHello12
  <2>5. Refused => tlDown = <<>> \/ tlDown[1].t = "alert"
    BY DEF Refused, Alert
  <2> QED BY <2>1, <2>2, <2>3, <2>4, <2>5 DEF TlInv, Retry
<1>2. Steady /\ tlAltered' = tlAltered /\ tlS' = tlS /\ tlDown' = <<>>
  BY DEF Retry, Steady
<1>3. PICK ch2 : ch2 = [tlC.ch EXCEPT !.share = TRUE]
  OBVIOUS
<1>4. /\ tlUp' = <<ch2>>
      /\ tlC' = [tlC EXCEPT !.ch = ch2, !.prefix = <<MessageHash(tlC.ch), tlDown[1]>>]
  BY <1>3 DEF Retry
<1>5. PICK h, p : tlC = [pc |-> "hello", ch |-> h, prefix |-> p, sess |-> Session]
  BY <1>1 DEF RetrySent, Asks
<1>6. tlC.ch = h /\ HelloTrue(h) /\ tlDown[1] = tlS.hrr
  BY <1>1, <1>5 DEF RetrySent, Asks
<1>7. PICK q : q = <<MessageHash(h), tlS.hrr>>
  OBVIOUS
<1>8. tlC' = [pc |-> "hello", ch |-> ch2, prefix |-> q, sess |-> Session]
  BY <1>4, <1>5, <1>6, <1>7
<1>9. PICK hn, ha, hp, hv, hh, hi : h = [t |-> "CH", n |-> hn, alpn |-> ha, psk |-> hp, vers |-> hv, share |-> hh, sid |-> hi] /\ hn = tlConn
  BY <1>6 DEF HelloTrue
<1>10. ch2 = [t |-> "CH", n |-> hn, alpn |-> ha, psk |-> hp, vers |-> hv, share |-> TRUE, sid |-> hi]
  <2>1. ch2 = [h EXCEPT !.share = TRUE]
    BY <1>3, <1>6
  <2> QED BY ONLY <1>9, <2>1
<1>11. ch2.psk = h.psk /\ ch2.vers = h.vers /\ ch2.share /\ ch2 = [t |-> "CH", n |-> tlConn, alpn |-> ch2.alpn, psk |-> ch2.psk, vers |-> ch2.vers, share |-> ch2.share, sid |-> ch2.sid]
  BY <1>9, <1>10
<1>12. HelloTrue(ch2)
  BY <1>6, <1>11 DEF HelloTrue
<1>13. Session' = Session /\ CfgTrue' /\ StoreTrue' /\ HelloTrue(ch2)'
  BY <1>1, <1>2, <1>12, Steadily
<1>14. tlC'.pc = "hello" /\ tlC'.ch = ch2 /\ tlC'.prefix = q
  BY <1>8
<1>15. Asks'
  BY <1>8, <1>13, <1>14 DEF Asks
<1>16. RetryAsked'
  BY <1>1, <1>2 DEF RetrySent, RetryAsked, Steady
<1>17. Len(tlUp') = 1 /\ tlUp' = <<tlUp'[1]>> /\ tlUp'[1] = ch2
  BY <1>4
<1>18. ~tlAltered => q = <<MessageHash(tlS.ch), tlS.hrr>>
  BY <1>1, <1>6, <1>7 DEF RetrySent
<1>19. HelloAgain'
  BY <1>2, <1>11, <1>14, <1>15, <1>16, <1>17, <1>18 DEF HelloAgain, MessageHash
<1> QED BY <1>13, <1>19 DEF TlInv, Stands

\* What goes wrong without tampering, the two configurations explain.
LEMMA NotMet ==
    ASSUME CfgTrue
    PROVE  /\ Allow13(tlCfg.c) /\ Allow13(tlCfg.s) /\ (tlCfg.s.kt = "p521" \/ tlCfg.s.cert # "ok") => Deserved
           /\ ~(Allow13(tlCfg.c) /\ Allow13(tlCfg.s)) /\ (\/ ~Allow12(tlCfg.c) \/ ~Allow12(tlCfg.s) \/ tlCfg.s.auth # "none"
                                                          \/ tlCfg.s.kt = "p521" \/ tlCfg.s.cert # "ok" \/ tlStore # TlsNone) => Deserved
  BY DEF Deserved, Meet

LEMMA AsksStays ==
    ASSUME Asks, Steady, tlC' = tlC
    PROVE  Asks'
  BY Steadily DEF Asks

\* run_from_client_hello: a flight under the secrets of the hello it read, or no key to sign it with.
LEMMA FlightMade ==
    ASSUME CfgTrue, Asks, Steady, tlAltered' = tlAltered, tlC' = tlC, tlUp' = <<>>, Allow13(tlCfg.s),
           NEW ch, NEW suite, NEW prefix, Flight13(tlCfg.s, ch, suite, prefix),
           ~tlAltered => suite = Choose13(tlCfg.s.kt) /\ ch = tlC.ch /\ prefix = tlC.prefix /\ Allow13(tlCfg.c)
    PROVE  FlightSent13' \/ HelloOnly'
<1>1. PICK a : a = Answer13(tlCfg.s, ch, suite, prefix)
  OBVIOUS
<1>2. a.sh = ServerHello13(suite, a.psk # TlsNone, ch.sid)
  BY <1>1 DEF Answer13
<1>3. Asks' /\ tlCfg' = tlCfg
  BY AsksStays DEF Steady
<1>4. CASE a.psk = TlsNone /\ ~CanSign(tlCfg.s.kt, suite)
  <2>1. tlS' = Failed("sign") /\ tlDown' = <<a.sh>>
    BY <1>1, <1>4 DEF Flight13
  <2>2. tlS'.pc = "failed"
    BY <2>1 DEF Failed
  <2>3. a.sh.suite = suite /\ a.sh.sid = ch.sid /\ a.sh.t = "SH" /\ a.sh = ServerHello13(a.sh.suite, a.sh.resumed, a.sh.sid)
    BY <1>2 DEF ServerHello13
  <2>4. tlDown'[1] = a.sh /\ Len(tlDown') = 1
    BY <2>1
  <2>5. Deserved
    <3>1. SUFFICES ASSUME ~tlAltered PROVE Deserved
      BY DEF Deserved
    <3>2. tlCfg.s.kt \in IdentityKinds
      BY TlAssumption DEF CfgTrue
    <3>3. tlCfg.s.kt = "p521"
      BY <1>4, <3>1, <3>2, SuiteFits
    <3> QED BY <3>1, <3>3, NotMet
  <2>6. Deserved'
    BY <2>5, Steadily
  <2>7. HelloOnly'
    BY <1>3, <2>1, <2>2, <2>3, <2>4, <2>6 DEF HelloOnly
  <2> QED BY <2>7
<1>5. CASE ~(a.psk = TlsNone /\ ~CanSign(tlCfg.s.kt, suite))
  <2>1. /\ tlS' = [pc |-> "flight", ver |-> 13, ch |-> ch, suite |-> suite, prefix |-> prefix, ans |-> a]
        /\ tlDown' = <<a.sh, Enc(<<a.hs, "s">>, a.msgs)>>
    BY <1>1, <1>5 DEF Flight13
  <2>2. tlS'.pc = "flight" /\ tlS'.ver = 13 /\ tlS'.ch = ch /\ tlS'.suite = suite /\ tlS'.prefix = prefix /\ tlS'.ans = a
    BY <2>1
  <2>4. Answered13'
    <3>1. PICK s : s = tlCfg.s /\ s = tlCfg'.s
      BY <1>3
    <3>2. a = Answer13(s, ch, suite, prefix)'
      BY <1>1, <3>1, SameAnswer
    <3>3. Allow13(tlCfg'.s) /\ (~tlAltered' => suite = Choose13(tlCfg'.s.kt))
      BY <1>3
    <3> QED BY ONLY <2>2, <3>1, <3>2, <3>3 DEF Answered13
  <2>5. tlDown'[1] = a.sh /\ tlDown'[2] = Enc(<<a.hs, "s">>, a.msgs) /\ Len(tlDown') = 2
    BY <2>1
  <2>6. a.sh = ServerHello13(a.sh.suite, a.psk # TlsNone, ch.sid)
    BY <1>2 DEF ServerHello13
  <2>7. FlightSent13'
    BY <1>3, <2>1, <2>2, <2>4, <2>5, <2>6 DEF FlightSent13, Enc
  <2> QED BY <2>7
<1> QED BY <1>4, <1>5

\* server_handshake of TLS 1.2: a suite is found unless the ends cannot meet.
LEMMA SuiteFound ==
    ASSUME CfgTrue, NEW ch, Offers12(ch), tlCfg.s.kt # "p521"
    PROVE  {i \in DOMAIN Suites12 : Fits12(Suites12[i], tlCfg.s.kt) /\ Offers12(ch)} # {}
<1>1. tlCfg.s.kt \in IdentityKinds
  BY TlAssumption DEF CfgTrue
<1>2. /\ 1 \in DOMAIN Suites12 /\ 4 \in DOMAIN Suites12 /\ 5 \in DOMAIN Suites12
      /\ Suites12[1] = <<"rsa", 256>> /\ Suites12[4] = <<"ecdsa", 256>> /\ Suites12[5] = <<"ecdsa", 384>>
  BY DEF Suites12
<1>3. Fits12(Suites12[1], "rsa") /\ Fits12(Suites12[4], "p256") /\ Fits12(Suites12[5], "p384") /\ Fits12(Suites12[4], "ed")
  BY <1>2 DEF Fits12
<1> QED BY <1>1, <1>2, <1>3 DEF IdentityKinds

LEMMA Flight12Made ==
    ASSUME CfgTrue, Asks, Steady, tlAltered' = tlAltered, tlC' = tlC, tlUp' = <<>>, Allow12(tlCfg.s), tlCfg.s.auth = "none",
           NEW ch, ~Speaks13(tlCfg.s, ch), ~tlAltered => ch = tlC.ch, Accept12(tlCfg.s, ch)
    PROVE  FlightSent12' \/ Refused'
<1>1. Asks' /\ tlCfg' = tlCfg /\ tlConn' = tlConn
  BY AsksStays DEF Steady
<1>2. PICK usable : usable = {i \in DOMAIN Suites12 : Fits12(Suites12[i], tlCfg.s.kt) /\ Offers12(ch)}
  OBVIOUS
<1>3. CASE usable = {}
  <2>1. tlS' = Failed("no suite") /\ tlDown' = <<Alert(40)>>
    BY <1>2, <1>3 DEF Accept12, Alert
  <2>2. Deserved
    <3>1. SUFFICES ASSUME ~tlAltered PROVE Deserved
      BY DEF Deserved
    <3>2. HelloTrue(ch)
      BY <3>1 DEF Asks
    <3>3. ~(Allow13(tlCfg.c) /\ Allow13(tlCfg.s))
      BY <3>2 DEF HelloTrue, Speaks13, Offers13
    <3>4. CASE tlCfg.s.kt = "p521"
      BY <3>3, <3>4, NotMet
    <3>5. CASE tlCfg.s.kt # "p521"
      <4>1. ~Offers12(ch)
        BY <1>2, <1>3, <3>5, SuiteFound
      <4>2. ~Allow12(tlCfg.c) \/ tlStore # TlsNone
        BY <3>2, <4>1 DEF HelloTrue, Offers12
      <4> QED BY <3>3, <4>2, NotMet
    <3> QED BY <3>4, <3>5
  <2>3. Deserved' /\ tlS'.pc = "failed"
    BY <2>1, <2>2, Steadily DEF Failed
  <2> QED BY <1>1, <2>1, <2>3 DEF Refused, Alert
<1>4. CASE usable # {}
  <2>1. PICK suite, alpn : suite = Suites12[Min(usable)] /\ alpn = Alpn(tlCfg.s.alpn, ch.alpn)
    OBVIOUS
  <2>2. PICK f : f = <<ServerHello12(suite, alpn, Sentinel(ch)), Certificate12(tlCfg.s.cert), ServerKeyExchange(tlCfg.s.cert), [t |-> "SHD"]>>
    OBVIOUS
  <2>3. tlS' = [pc |-> "flight", ver |-> 12, ch |-> ch, suite |-> suite, flight |-> f] /\ tlDown' = f
    BY <1>2, <1>4, <2>1, <2>2 DEF Accept12
  <2>4. tlS'.pc = "flight" /\ tlS'.ver = 12 /\ tlS'.ch = ch /\ tlS'.suite = suite /\ tlS'.flight = f
    BY <2>3
  <2>5. f[1] = ServerHello12(suite, alpn, Sentinel(ch)) /\ f[1].alpn = alpn /\ Len(f) = 4
    BY <2>2 DEF ServerHello12
  <2>6. ServerKeyExchange(tlCfg.s.cert)' = ServerKeyExchange(tlCfg.s.cert)
    BY <1>1 DEF ServerKeyExchange
  <2>7. f = <<f[1], Certificate12(tlCfg.s.cert), ServerKeyExchange(tlCfg.s.cert), [t |-> "SHD"]>>
    BY <2>2, <2>5
  <2>8. f = <<ServerHello12(suite, f[1].alpn, Sentinel(ch)), Certificate12(tlCfg.s.cert), ServerKeyExchange(tlCfg.s.cert), [t |-> "SHD"]>>
    BY <2>2, <2>5
  <2>9. Answered12'
    BY <1>1, <2>4, <2>6, <2>8 DEF Answered12, ServerKeyExchange
  <2>10. Offers12(ch)
    BY <1>2, <1>4
  <2>11. FlightSent12'
    BY <1>1, <2>3, <2>4, <2>5, <2>6, <2>7, <2>9, <2>10 DEF FlightSent12, ServerKeyExchange
  <2> QED BY <2>11
<1> QED BY <1>3, <1>4

LEMMA AcceptsStep == ASSUME TlInv, Accept PROVE TlInv'
<1>1. HelloSent /\ CfgTrue /\ StoreTrue
  BY WhereIs DEF TlInv, Accept
<1>2. Steady /\ tlAltered' = tlAltered /\ tlC' = tlC /\ tlUp' = <<>>
  BY DEF Accept, Steady
<1>3. CfgTrue' /\ StoreTrue' /\ Asks' /\ tlCfg' = tlCfg
  BY <1>1, <1>2, Steadily, AsksStays DEF HelloSent, Steady
<1>4. PICK ch : ch = tlUp[1]
  OBVIOUS
<1>5. ~tlAltered => ch = tlC.ch /\ HelloTrue(ch)
  BY <1>1, <1>4 DEF HelloSent, Asks
<1>6. CASE Speaks13(tlCfg.s, ch)
  <2>1. Allow13(tlCfg.s) /\ Offers13(ch) /\ Accept13(tlCfg.s, ch)
    BY <1>4, <1>6 DEF Accept, Speaks13
  <2>2. ~tlAltered => Allow13(tlCfg.c)
    BY <1>5, <2>1 DEF HelloTrue, Offers13
  <2>3. CASE ch.share
    <3>1. Flight13(tlCfg.s, ch, Choose13(tlCfg.s.kt), <<>>)
      BY <2>1, <2>3 DEF Accept13
    <3>2. tlC.prefix = <<>> /\ Asks
      BY <1>1 DEF HelloSent
    <3>3. FlightSent13' \/ HelloOnly'
      BY <1>1, <1>2, <1>5, <2>1, <2>2, <3>1, <3>2, FlightMade
    <3> QED BY <1>3, <3>3 DEF TlInv, Stands
  <2>4. CASE ~ch.share
    <3>1. PICK suite, hrr : suite = Choose13(tlCfg.s.kt) /\ hrr = HelloRetry(suite, ch.sid)
      OBVIOUS
    <3>2. tlS' = [pc |-> "retry", suite |-> suite, ch |-> ch, hrr |-> hrr] /\ tlDown' = <<hrr>>
      BY <2>1, <2>4, <3>1 DEF Accept13
    <3>3. tlS'.pc = "retry" /\ tlS'.suite = suite /\ tlS'.ch = ch /\ tlS'.hrr = hrr /\ hrr.t = "HRR"
      BY <3>1, <3>2 DEF HelloRetry
    <3>4. RetryAsked'
      BY <1>2, <1>3, <2>1, <2>2, <3>1, <3>3 DEF RetryAsked
    <3>5. RetrySent'
      BY <1>1, <1>2, <1>3, <1>5, <3>2, <3>3, <3>4 DEF RetrySent, HelloSent
    <3> QED BY <1>3, <3>5 DEF TlInv, Stands
  <2> QED BY <2>3, <2>4
<1>7. CASE ~Speaks13(tlCfg.s, ch)
  <2>1. ~tlAltered => ~(Allow13(tlCfg.c) /\ Allow13(tlCfg.s))
    BY <1>5, <1>7 DEF HelloTrue, Speaks13, Offers13
  <2>2. CASE Allow12(tlCfg.s) /\ tlCfg.s.auth # "none"
    <3>1. tlS' = Failed("auth needs 1.3") /\ tlDown' = <<>>
      BY <1>4, <1>7, <2>2 DEF Accept
    <3>2. Deserved
      BY <1>1, <2>1, <2>2, NotMet DEF Deserved
    <3>3. Deserved' /\ tlS'.pc = "failed"
      BY <1>2, <3>1, <3>2, Steadily DEF Failed
    <3>4. Refused'
      BY <1>2, <1>3, <3>1, <3>3 DEF Refused
    <3> QED BY <1>3, <3>4 DEF TlInv, Stands
  <2>3. CASE Allow12(tlCfg.s) /\ tlCfg.s.auth = "none"
    <3>1. Accept12(tlCfg.s, ch)
      BY <1>4, <1>7, <2>3 DEF Accept
    <3>2. Asks
      BY <1>1 DEF HelloSent
    <3>3. FlightSent12' \/ Refused'
      BY <1>1, <1>2, <1>5, <1>7, <2>3, <3>1, <3>2, Flight12Made
    <3> QED BY <1>3, <3>3 DEF TlInv, Stands
  <2>4. CASE ~Allow12(tlCfg.s)
    <3>1. tlS' = Failed("version") /\ tlDown' = <<Alert(70)>>
      BY <1>4, <1>7, <2>4 DEF Accept, Alert
    <3>2. Deserved
      BY <1>1, <2>1, <2>4, NotMet DEF Deserved
    <3>3. Deserved' /\ tlS'.pc = "failed"
      BY <1>2, <3>1, <3>2, Steadily DEF Failed
    <3>4. Refused'
      BY <1>2, <1>3, <3>1, <3>3 DEF Refused, Alert
    <3> QED BY <1>3, <3>4 DEF TlInv, Stands
  <2> QED BY <2>2, <2>3, <2>4
<1> QED BY <1>6, <1>7

LEMMA AcceptsAgainStep == ASSUME TlInv, AcceptRetry PROVE TlInv'
<1>1. HelloAgain /\ CfgTrue /\ StoreTrue
  <2>1. RetrySent \/ HelloAgain
    BY WhereIs DEF TlInv, AcceptRetry
  <2>2. RetrySent => tlUp = <<>>
    BY DEF RetrySent
  <2> QED BY <2>1, <2>2 DEF TlInv, AcceptRetry
<1>2. Steady /\ tlAltered' = tlAltered /\ tlC' = tlC /\ tlUp' = <<>>
  BY DEF AcceptRetry, Steady
<1>3. Asks /\ Allow13(tlCfg.s) /\ (~tlAltered => Allow13(tlCfg.c)) /\ tlS.suite = Choose13(tlCfg.s.kt)
  BY <1>1 DEF HelloAgain, RetryAsked
<1>4. ~tlAltered => tlUp[1] = tlC.ch /\ tlC.ch.share /\ tlC.prefix = <<MessageHash(tlS.ch), tlS.hrr>>
  BY <1>1 DEF HelloAgain
<1>5. CfgTrue' /\ StoreTrue' /\ Asks'
  BY <1>1, <1>2, <1>3, Steadily, AsksStays
<1>6. CASE tlUp[1].share
  <2>1. PICK ch, suite, prefix : ch = tlUp[1] /\ suite = tlS.suite /\ prefix = <<MessageHash(tlS.ch), tlS.hrr>>
    OBVIOUS
  <2>2. Flight13(tlCfg.s, ch, suite, prefix)
    BY <1>6, <2>1 DEF AcceptRetry
  <2>3. FlightSent13' \/ HelloOnly'
    BY <1>1, <1>2, <1>3, <1>4, <2>1, <2>2, FlightMade
  <2> QED BY <1>5, <2>3 DEF TlInv, Stands
<1>7. CASE ~tlUp[1].share
  <2>1. tlS' = Failed("no share") /\ tlDown' = <<>>
    BY <1>7 DEF AcceptRetry
  <2>2. Deserved
    BY <1>4, <1>7 DEF Deserved
  <2>3. Deserved' /\ tlS'.pc = "failed"
    BY <1>2, <2>1, <2>2, Steadily DEF Failed
  <2>4. Refused'
    BY <1>2, <1>5, <2>1, <2>3 DEF Refused
  <2> QED BY <1>5, <2>4 DEF TlInv, Stands
<1> QED BY <1>6, <1>7

\* Equal handshake secrets are made of equal suites, PSKs, prefixes and hellos.
LEMMA SecretIs ==
    ASSUME NEW s1, NEW p1, NEW x1, NEW y1, NEW z1, NEW s2, NEW p2, NEW x2, NEW y2, NEW z2,
           HsSecret(s1, p1, <<x1, y1, z1>>) = HsSecret(s2, p2, <<x2, y2, z2>>)
    PROVE  s1 = s2 /\ p1 = p2 /\ x1 = x2 /\ y1 = y2 /\ z1 = z2
  BY DEF HsSecret

\* What the client derives from a ServerHello and the messages behind it.
LEMMA DerivedIs ==
    ASSUME NEW sh, NEW m, NEW d, d = Derived13(sh, m)
    PROVE  /\ d.hs = HsSecret(sh.suite, IF sh.resumed THEN tlC.sess.psk ELSE TlsNone, <<tlC.prefix, tlC.ch, sh>>)
           /\ d.th2 = <<<<tlC.prefix, tlC.ch, sh>>, m.ee, m.cr, m.cert>>
           /\ d.th = <<d.th2, m.cv, m.fin>>
           /\ d.msgs = [cert |-> d.msgs.cert, cv |-> d.msgs.cv, fin |-> d.msgs.fin]
           /\ d.msgs.cert = IF m.cr = TlsNone THEN TlsNone ELSE Cert(tlCfg.c.ident)
           /\ d.msgs.cv = IF m.cr # TlsNone /\ tlCfg.c.ident # "none" THEN CertVerify(tlCfg.c.ident, <<d.th, d.msgs.cert>>) ELSE TlsNone
           /\ d.msgs.fin = Fin(d.hs, "c", <<d.th, d.msgs.cert, d.msgs.cv>>)
           /\ d.master = Master(d.hs, <<d.th, d.msgs.cert, d.msgs.cv, d.msgs.fin>>)
  BY DEF Derived13

\* Without tampering the client derives the server's secret.
LEMMA Untampered13 ==
    ASSUME CfgTrue, StoreTrue, FlightSent13, ~tlAltered, NEW a, a = tlS.ans, NEW sh, sh = tlDown[1], NEW d, d = Derived13(sh, a.msgs)
    PROVE  /\ d.hs = a.hs /\ sh.sid = tlC.ch.sid
           /\ (sh.resumed <=> a.psk # TlsNone) /\ sh.suite = Choose13(tlCfg.s.kt)
           /\ sh.resumed => tlC.sess # TlsNone /\ tlC.sess.suite = sh.suite
<1>1. /\ sh = a.sh /\ tlS.ch = tlC.ch /\ tlS.prefix = tlC.prefix /\ tlS.suite = Choose13(tlCfg.s.kt)
      /\ a = Answer13(tlCfg.s, tlS.ch, tlS.suite, tlS.prefix)
  BY DEF FlightSent13, Answered13
<1>2. PICK ch, suite, prefix : ch = tlS.ch /\ suite = tlS.suite /\ prefix = tlS.prefix
  OBVIOUS
<1>3. /\ a.psk = Resumes(tlCfg.s, ch, suite, prefix)
      /\ a.sh = ServerHello13(suite, a.psk # TlsNone, ch.sid)
      /\ a.hs = HsSecret(suite, a.psk, <<prefix, ch, a.sh>>)
  <2>1. a = Answer13(tlCfg.s, ch, suite, prefix)
    BY <1>1, <1>2
  <2>2. a.psk = Resumes(tlCfg.s, ch, suite, prefix)
    BY ONLY <2>1 DEF Answer13
  <2>3. a.sh = ServerHello13(suite, a.psk # TlsNone, ch.sid)
    BY ONLY <2>1 DEF Answer13
  <2>4. a.hs = HsSecret(suite, a.psk, <<prefix, ch, a.sh>>)
    BY ONLY <2>1 DEF Answer13
  <2> QED BY <2>2, <2>3, <2>4
<1>4. sh.sid = ch.sid /\ (sh.resumed <=> a.psk # TlsNone) /\ sh.suite = suite
  <2>1. PICK r \in BOOLEAN : r = (a.psk # TlsNone)
    OBVIOUS
  <2>2. sh = ServerHello13(suite, r, ch.sid)
    BY <1>1, <1>3, <2>1
  <2>3. sh.sid = ch.sid /\ sh.resumed = r /\ sh.suite = suite
    BY <2>2 DEF ServerHello13
  <2> QED BY <2>1, <2>3
<1>5. tlC.sess = Session /\ HelloTrue(ch)
  BY <1>1, <1>2 DEF FlightSent13, Asks
<1>6. ASSUME a.psk # TlsNone PROVE tlC.sess # TlsNone /\ tlC.sess.suite = suite /\ tlC.sess.psk = a.psk
  <2>1. ch.psk # TlsNone /\ ch.psk.ticket.suite = suite /\ a.psk = ch.psk.ticket.psk
    BY <1>3, <1>6 DEF Resumes, OffersPsk
  <2>2. Session # TlsNone /\ ch.psk.ticket = Session.ticket
    BY <1>5, <2>1 DEF HelloTrue
  <2>3. Session = tlStore
    BY <2>2 DEF Session
  <2> QED BY <1>5, <2>1, <2>2, <2>3 DEF StoreTrue
<1>7. d.hs = HsSecret(sh.suite, IF sh.resumed THEN tlC.sess.psk ELSE TlsNone, <<tlC.prefix, tlC.ch, sh>>)
  BY DEF Derived13
<1>8. (IF sh.resumed THEN tlC.sess.psk ELSE TlsNone) = a.psk
  BY <1>4, <1>6
<1>9. d.hs = HsSecret(suite, a.psk, <<prefix, ch, a.sh>>)
  BY <1>1, <1>2, <1>4, <1>7, <1>8
<1> QED BY <1>1, <1>2, <1>3, <1>4, <1>6, <1>9

\* A problem the client finds without tampering is a configuration's.
LEMMA ProblemDeserved ==
    ASSUME CfgTrue, StoreTrue, FlightSent13, NEW a, a = tlS.ans, NEW sh, sh = tlDown[1], NEW enc, enc = Enc(<<a.hs, "s">>, a.msgs),
           NEW d, d = Derived13(sh, a.msgs), Problem13(sh, enc, d) # ""
    PROVE  Deserved
<1>1. SUFFICES ASSUME ~tlAltered PROVE Deserved
  BY DEF Deserved
<1>2. /\ d.hs = a.hs /\ sh.sid = tlC.ch.sid
      /\ (sh.resumed <=> a.psk # TlsNone) /\ sh.suite = Choose13(tlCfg.s.kt)
      /\ sh.resumed => tlC.sess # TlsNone /\ tlC.sess.suite = sh.suite
  BY <1>1, Untampered13
<1>3. PICK m : m = a.msgs
  OBVIOUS
<1>4. enc.key = <<d.hs, "s">> /\ enc.msgs = m
  BY <1>2, <1>3 DEF Enc
<1>5. /\ sh = a.sh /\ tlS.ch = tlC.ch /\ tlS.prefix = tlC.prefix /\ Allow13(tlCfg.c) /\ Allow13(tlCfg.s)
      /\ a = Answer13(tlCfg.s, tlS.ch, tlS.suite, tlS.prefix)
  BY <1>1 DEF FlightSent13, Answered13
<1>6. PICK th2 : th2 = <<<<tlS.prefix, tlS.ch, a.sh>>, m.ee, m.cr, m.cert>>
  OBVIOUS
<1>7. /\ m.cr = IF a.psk = TlsNone /\ tlCfg.s.auth # "none" THEN CertificateRequest ELSE TlsNone
      /\ m.cert = IF a.psk = TlsNone THEN Cert(tlCfg.s.cert) ELSE TlsNone
      /\ m.cv = IF a.psk = TlsNone THEN CertVerify(tlCfg.s.cert, th2) ELSE TlsNone
      /\ m.fin = Fin(a.hs, "s", <<th2, m.cv>>)
  <2>1. a.msgs.cr = IF a.psk = TlsNone /\ tlCfg.s.auth # "none" THEN CertificateRequest ELSE TlsNone
    BY ONLY <1>5 DEF Answer13
  <2>2. a.msgs.cert = IF a.psk = TlsNone THEN Cert(tlCfg.s.cert) ELSE TlsNone
    BY ONLY <1>5 DEF Answer13
  <2>3. a.msgs.cv = IF a.psk = TlsNone THEN CertVerify(tlCfg.s.cert, <<<<tlS.prefix, tlS.ch, a.sh>>, a.msgs.ee, a.msgs.cr, a.msgs.cert>>) ELSE TlsNone
    BY ONLY <1>5 DEF Answer13
  <2>4. a.msgs.fin = Fin(a.hs, "s", <<<<<<tlS.prefix, tlS.ch, a.sh>>, a.msgs.ee, a.msgs.cr, a.msgs.cert>>, a.msgs.cv>>)
    BY ONLY <1>5 DEF Answer13
  <2> QED BY ONLY <1>3, <1>6, <2>1, <2>2, <2>3, <2>4
<1>8. d.th2 = th2
  <2>1. d.th2 = <<<<tlC.prefix, tlC.ch, sh>>, a.msgs.ee, a.msgs.cr, a.msgs.cert>>
    BY DEF Derived13
  <2> QED BY ONLY <1>3, <1>5, <1>6, <2>1
<1>9. CASE tlCfg.s.cert # "ok"
  BY <1>5, <1>9, NotMet
<1>10. CASE tlCfg.s.cert = "ok"
  <2>1. sh.resumed => m.cert = TlsNone /\ m.cv = TlsNone /\ m.cr = TlsNone
    BY <1>2, <1>7
  <2>2. ~sh.resumed => m.cert.chain = "ok" /\ Verifies(m.cv, m.cert.chain, d.th2)
    <3>1. ASSUME ~sh.resumed PROVE m.cert = Cert("ok") /\ m.cv = CertVerify("ok", th2)
      BY <1>2, <1>7, <1>10, <3>1
    <3>2. Cert("ok").chain = "ok" /\ CertVerify("ok", th2).sig = <<"ok", th2>>
      BY DEF Cert, CertVerify
    <3> QED BY <1>8, <3>1, <3>2 DEF Verifies
  <2>3. m.fin.mac = Fin(d.hs, "s", <<d.th2, m.cv>>).mac
    BY <1>2, <1>7, <1>8
  <2>4. /\ m.cr # TlsNone /\ tlCfg.c.ident # "none"
        /\ ~CanSign(tlCfg.c.kt, sh.suite) \/ Scheme(tlCfg.c.kt) \notin m.cr.schemes
    BY <1>2, <1>4, <2>1, <2>2, <2>3 DEF Problem13
  <2>5. tlCfg.s.auth # "none" /\ m.cr.schemes = CertVerifySchemes
    <3>1. tlCfg.s.auth # "none" /\ m.cr = CertificateRequest
      BY <1>7, <2>4
    <3>2. CertificateRequest.schemes = CertVerifySchemes
      BY DEF CertificateRequest
    <3> QED BY <3>1, <3>2
  <2>6. ~Meet(tlCfg.c, tlCfg.s)
    BY <1>2, <1>5, <2>4, <2>5 DEF Meet
  <2> QED BY <2>6 DEF Deserved
<1> QED BY <1>9, <1>10

\* What opens under the server's key was derived from what the server said.
LEMMA NoProblem ==
    ASSUME FlightSent13, NEW a, a = tlS.ans, NEW sh, sh = tlDown[1], NEW d, d = Derived13(sh, a.msgs), d.hs = a.hs
    PROVE  sh.suite = tlS.suite /\ (sh.resumed <=> a.psk # TlsNone) /\ d.th = a.th
<1>1. a = Answer13(tlCfg.s, tlS.ch, tlS.suite, tlS.prefix) /\ sh = ServerHello13(sh.suite, a.psk # TlsNone, tlS.ch.sid)
  BY DEF FlightSent13, Answered13
<1>2. a.hs = HsSecret(tlS.suite, a.psk, <<tlS.prefix, tlS.ch, a.sh>>)
  BY <1>1 DEF Answer13
<1>3. d.hs = HsSecret(sh.suite, IF sh.resumed THEN tlC.sess.psk ELSE TlsNone, <<tlC.prefix, tlC.ch, sh>>)
  BY DEF Derived13
<1>4. sh.suite = tlS.suite /\ tlC.prefix = tlS.prefix /\ tlC.ch = tlS.ch /\ sh = a.sh
  BY <1>2, <1>3, SecretIs
<1>5. sh.resumed <=> a.psk # TlsNone
  <2>1. PICK r \in BOOLEAN : r = (a.psk # TlsNone)
    OBVIOUS
  <2>2. PICK x, y : sh = ServerHello13(x, r, y)
    BY <1>1, <2>1
  <2>3. sh.resumed = r
    BY <2>2 DEF ServerHello13
  <2> QED BY <2>1, <2>3
<1>6. a.th = <<<<<<tlS.prefix, tlS.ch, a.sh>>, a.msgs.ee, a.msgs.cr, a.msgs.cert>>, a.msgs.cv, a.msgs.fin>>
  <2>1. PICK s, ch, suite, prefix : s = tlCfg.s /\ ch = tlS.ch /\ suite = tlS.suite /\ prefix = tlS.prefix
    OBVIOUS
  <2>2. a = Answer13(s, ch, suite, prefix)
    BY <1>1, <2>1
  <2>3. a.th = <<<<<<prefix, ch, a.sh>>, a.msgs.ee, a.msgs.cr, a.msgs.cert>>, a.msgs.cv, a.msgs.fin>>
    BY ONLY <2>2 DEF Answer13
  <2> QED BY <2>1, <2>3
<1>7. d.th = <<<<<<tlC.prefix, tlC.ch, sh>>, a.msgs.ee, a.msgs.cr, a.msgs.cert>>, a.msgs.cv, a.msgs.fin>>
  BY DEF Derived13
<1> QED BY <1>4, <1>5, <1>6, <1>7

LEMMA GivesUp ==
    ASSUME Steady, tlAltered' = tlAltered, tlS' = tlS, tlUp = <<>>, UNCHANGED tlUp, tlDown' = <<>>, Deserved,
           tlS.pc \in {"flight", "failed"}, NEW why, tlC' = Failed(why)
    PROVE  GaveUp'
<1>1. tlC'.pc = "failed"
  BY DEF Failed
<1>2. Deserved'
  BY Steadily
<1> QED BY <1>1, <1>2 DEF GaveUp

\* The server's part of the state, while it stays.
LEMMA AnsweredStays ==
    ASSUME Answered13, Steady, tlS' = tlS, ~tlAltered' => ~tlAltered
    PROVE  Answered13'
<1>1. PICK s, ch, suite, prefix, a : s = tlCfg.s /\ ch = tlS.ch /\ suite = tlS.suite /\ prefix = tlS.prefix /\ a = tlS.ans
  OBVIOUS
<1>2. a = Answer13(s, ch, suite, prefix)
  BY <1>1 DEF Answered13
<1>3. tlCfg' = tlCfg /\ tlConn' = tlConn /\ tlNow' = tlNow
  BY DEF Steady
<1>4. a = Answer13(s, ch, suite, prefix)'
  BY <1>2, SameAnswer
<1>5. /\ tlS'.pc = "flight" /\ tlS'.ver = 13 /\ Allow13(tlCfg'.s) /\ tlS'.ch = ch /\ tlS'.suite = suite /\ tlS'.prefix = prefix /\ tlS'.ans = a
      /\ ~tlAltered' => suite = Choose13(tlCfg'.s.kt)
      /\ tlCfg'.s = s
  BY <1>1, <1>3 DEF Answered13
<1> QED BY ONLY <1>4, <1>5 DEF Answered13

LEMMA Reads13 ==
    ASSUME ReadServerHello, NEW sh, NEW enc, sh = tlDown[1], enc = tlDown[2],
           sh.t = "SH", sh.ver = 13, Allow13(tlCfg.c), Len(tlDown) = 2
    PROVE  Client13(sh, enc)
<1>1. IF sh.t = "alert" THEN tlC' = Failed("alert") /\ UNCHANGED tlUp
      ELSE IF sh.ver = 13
      THEN IF ~Allow13(tlCfg.c) THEN tlC' = Failed("version") /\ UNCHANGED tlUp
           ELSE IF Len(tlDown) = 1 THEN tlC' = Failed("eof") /\ UNCHANGED tlUp
           ELSE Client13(sh, enc)
      ELSE IF ~Allow12(tlCfg.c) THEN tlC' = Failed("version") /\ UNCHANGED tlUp
           ELSE Client12(sh, tlDown)
  BY DEF ReadServerHello
<1>2. sh.t # "alert" /\ Len(tlDown) # 1
  OBVIOUS
<1> QED BY <1>1, <1>2

LEMMA ReadsHello13 == ASSUME TlInv, ReadServerHello, FlightSent13 PROVE TlInv'
<1>1. CfgTrue /\ StoreTrue
  BY DEF TlInv
<1>2. Steady /\ tlAltered' = tlAltered /\ tlS' = tlS /\ tlDown' = <<>>
  BY DEF ReadServerHello, Steady
<1>3. CfgTrue' /\ StoreTrue' /\ tlCfg' = tlCfg
  BY <1>1, <1>2, Steadily DEF Steady
<1>4. PICK a, sh : a = tlS.ans /\ sh = tlDown[1]
  OBVIOUS
<1>5. PICK enc : enc = Enc(<<a.hs, "s">>, a.msgs)
  OBVIOUS
<1>6. tlDown[2] = enc /\ Len(tlDown) = 2 /\ tlUp = <<>> /\ tlS.pc = "flight" /\ Answered13
  BY <1>4, <1>5 DEF FlightSent13, Answered13
<1>7. sh.t = "SH" /\ sh.ver = 13
  BY <1>4 DEF FlightSent13, ServerHello13
<1>8. enc.msgs = a.msgs /\ enc.key = <<a.hs, "s">>
  BY <1>5 DEF Enc
<1>9. PICK d : d = Derived13(sh, a.msgs)
  OBVIOUS
<1>10. CASE ~Allow13(tlCfg.c)
  <2>1. tlC' = Failed("version") /\ UNCHANGED tlUp
    BY <1>4, <1>7, <1>10 DEF ReadServerHello
  <2>2. Deserved
    BY <1>10 DEF Deserved, FlightSent13
  <2>3. GaveUp'
    BY <1>2, <1>6, <2>1, <2>2, GivesUp
  <2> QED BY <1>3, <2>3 DEF TlInv, Stands
<1>11. CASE Allow13(tlCfg.c) /\ Problem13(sh, enc, d) # ""
  <2>1. Client13(sh, enc)
    BY <1>4, <1>6, <1>7, <1>11, Reads13
  <2>2. tlC' = Failed(Problem13(sh, enc, d)) /\ UNCHANGED tlUp
    BY <1>8, <1>9, <1>11, <2>1 DEF Client13
  <2>3. Deserved
    BY <1>1, <1>4, <1>5, <1>9, <1>11, ProblemDeserved
  <2>4. GaveUp'
    BY <1>2, <1>6, <2>2, <2>3, GivesUp
  <2> QED BY <1>3, <2>4 DEF TlInv, Stands
<1>12. CASE Allow13(tlCfg.c) /\ Problem13(sh, enc, d) = ""
  <2>1. Client13(sh, enc)
    BY <1>4, <1>6, <1>7, <1>12, Reads13
  <2>2. d.hs = a.hs
    <3>1. enc.key = <<d.hs, "s">>
      BY <1>12 DEF Problem13
    <3> QED BY <1>8, <3>1
  <2>3. sh.suite = tlS.suite /\ (sh.resumed <=> a.psk # TlsNone) /\ d.th = a.th
    BY <1>4, <1>9, <2>2, NoProblem
  <2>4. PICK r \in BOOLEAN : r = (a.psk # TlsNone)
    OBVIOUS
  <2>5. PICK cert, cv, fin :
          /\ cert = IF a.msgs.cr = TlsNone THEN TlsNone ELSE Cert(tlCfg.c.ident)
          /\ cv = IF a.msgs.cr # TlsNone /\ tlCfg.c.ident # "none" THEN CertVerify(tlCfg.c.ident, <<a.th, cert>>) ELSE TlsNone
          /\ fin = Fin(a.hs, "c", <<a.th, cert, cv>>)
    OBVIOUS
  <2>6. d.msgs = [cert |-> cert, cv |-> cv, fin |-> fin] /\ d.master = Master(a.hs, <<a.th, cert, cv, fin>>)
    <3>1. d.msgs.cert = cert
      BY ONLY <1>9, <2>5 DEF Derived13
    <3>2. d.msgs.cv = IF a.msgs.cr # TlsNone /\ tlCfg.c.ident # "none" THEN CertVerify(tlCfg.c.ident, <<d.th, d.msgs.cert>>) ELSE TlsNone
      BY ONLY <1>9 DEF Derived13
    <3>3. d.msgs.cv = cv
      BY ONLY <2>3, <2>5, <3>1, <3>2
    <3>4. d.msgs.fin = Fin(d.hs, "c", <<d.th, d.msgs.cert, d.msgs.cv>>)
      BY ONLY <1>9 DEF Derived13
    <3>5. d.msgs.fin = fin
      BY ONLY <2>2, <2>3, <2>5, <3>1, <3>3, <3>4
    <3>6. d.msgs = [cert |-> d.msgs.cert, cv |-> d.msgs.cv, fin |-> d.msgs.fin]
      BY ONLY <1>9 DEF Derived13
    <3>7. d.master = Master(d.hs, <<d.th, d.msgs.cert, d.msgs.cv, d.msgs.fin>>)
      BY ONLY <1>9 DEF Derived13
    <3> QED BY ONLY <2>2, <2>3, <3>1, <3>3, <3>5, <3>6, <3>7
  <2>7. PICK peer : peer = IF sh.resumed THEN "none" ELSE a.msgs.cert.chain
    OBVIOUS
  <2>8. PICK res : res = [ver |-> 13, suite |-> tlS.suite, resumed |-> r, alpn |-> a.msgs.ee.alpn,
                          write |-> AppSecret(a.hs, a.th, "c"), read |-> AppSecret(a.hs, a.th, "s"),
                          peer |-> peer, master |-> Master(a.hs, <<a.th, cert, cv, fin>>)]
    OBVIOUS
  <2>9. sh.resumed = r
    <3>1. PICK x, y : sh = ServerHello13(x, r, y)
      BY <1>4, <2>4 DEF FlightSent13
    <3> QED BY <3>1 DEF ServerHello13
  <2>10. /\ tlUp' = <<Enc(<<d.hs, "c">>, d.msgs)>>
         /\ tlC' = [pc |-> "done", why |-> "",
                    res |-> [ver |-> 13, suite |-> sh.suite, resumed |-> sh.resumed, alpn |-> a.msgs.ee.alpn,
                             write |-> AppSecret(d.hs, d.th, "c"), read |-> AppSecret(d.hs, d.th, "s"),
                             peer |-> IF sh.resumed THEN "none" ELSE a.msgs.cert.chain, master |-> d.master]]
    BY ONLY <1>8, <1>9, <1>12, <2>1 DEF Client13
  <2>11. tlC' = [pc |-> "done", why |-> "", res |-> res] /\ tlUp' = <<Enc(<<a.hs, "c">>, [cert |-> cert, cv |-> cv, fin |-> fin])>>
    BY ONLY <2>2, <2>3, <2>6, <2>7, <2>8, <2>9, <2>10
  <2>12. tlC'.pc = "done" /\ tlC'.res = res /\ res.peer = peer /\ res.ver = 13
    BY <2>8, <2>11
  <2>13. Answered13'
    BY <1>2, <1>6, AnsweredStays
  <2>14. Accepted13'
    BY <1>2, <1>3, <1>4, <1>12, <2>4, <2>5, <2>8, <2>11, <2>12, <2>13, ZenonT(60) DEF Accepted13
  <2> QED BY <1>3, <2>14 DEF TlInv, Stands
<1> QED BY <1>10, <1>11, <1>12

\* A hello the server could not sign: the client meets the end of the stream.
LEMMA ReadsHelloOnly == ASSUME TlInv, ReadServerHello, HelloOnly PROVE TlInv'
<1>1. CfgTrue /\ StoreTrue
  BY DEF TlInv
<1>2. Steady /\ tlAltered' = tlAltered /\ tlS' = tlS /\ tlDown' = <<>>
  BY DEF ReadServerHello, Steady
<1>3. CfgTrue' /\ StoreTrue'
  BY <1>1, <1>2, Steadily
<1>4. tlDown[1].t = "SH" /\ tlDown[1].ver = 13 /\ Len(tlDown) = 1
  BY DEF HelloOnly, ServerHello13
<1>5. (tlC' = Failed("version") \/ tlC' = Failed("eof")) /\ UNCHANGED tlUp
  BY <1>4 DEF ReadServerHello
<1>6. tlUp = <<>> /\ Deserved /\ tlS.pc = "failed"
  BY DEF HelloOnly
<1>7. GaveUp'
  BY <1>2, <1>5, <1>6, GivesUp
<1> QED BY <1>3, <1>7 DEF TlInv, Stands

\* The server turned the hello down.
LEMMA ReadsAlert == ASSUME TlInv, ReadServerHello, Refused PROVE TlInv'
<1>1. CfgTrue /\ StoreTrue
  BY DEF TlInv
<1>2. Steady /\ tlAltered' = tlAltered /\ tlS' = tlS /\ tlDown' = <<>>
  BY DEF ReadServerHello, Steady
<1>3. CfgTrue' /\ StoreTrue'
  BY <1>1, <1>2, Steadily
<1>4. tlDown[1].t = "alert"
  BY DEF Refused, Alert, ReadServerHello
<1>5. tlC' = Failed("alert") /\ UNCHANGED tlUp
  BY <1>4 DEF ReadServerHello
<1>6. tlUp = <<>> /\ Deserved /\ tlS.pc = "failed"
  BY DEF Refused
<1>7. GaveUp'
  BY <1>2, <1>5, <1>6, GivesUp
<1> QED BY <1>3, <1>7 DEF TlInv, Stands

LEMMA Answered12Stays ==
    ASSUME Answered12, Steady, tlS' = tlS
    PROVE  Answered12'
  BY DEF Answered12, Steady, ServerKeyExchange

LEMMA Reads12 ==
    ASSUME ReadServerHello, NEW sh, sh = tlDown[1], sh.t = "SH", sh.ver = 12
    PROVE  IF ~Allow12(tlCfg.c) THEN tlC' = Failed("version") /\ UNCHANGED tlUp ELSE Client12(sh, tlDown)
<1>1. IF sh.t = "alert" THEN tlC' = Failed("alert") /\ UNCHANGED tlUp
      ELSE IF sh.ver = 13
      THEN IF ~Allow13(tlCfg.c) THEN tlC' = Failed("version") /\ UNCHANGED tlUp
           ELSE IF Len(tlDown) = 1 THEN tlC' = Failed("eof") /\ UNCHANGED tlUp
           ELSE Client13(sh, tlDown[2])
      ELSE IF ~Allow12(tlCfg.c) THEN tlC' = Failed("version") /\ UNCHANGED tlUp
           ELSE Client12(sh, tlDown)
  BY DEF ReadServerHello
<1>2. sh.t # "alert" /\ sh.ver # 13
  OBVIOUS
<1> QED BY <1>1, <1>2

\* tls12::client_handshake: the flight is refused for a reason, or answered over all that was read.
LEMMA ReadsHello12 == ASSUME TlInv, ReadServerHello, FlightSent12 PROVE TlInv'
<1>1. CfgTrue /\ StoreTrue
  BY DEF TlInv
<1>2. Steady /\ tlAltered' = tlAltered /\ tlS' = tlS /\ tlDown' = <<>>
  BY DEF ReadServerHello, Steady
<1>3. CfgTrue' /\ StoreTrue' /\ tlCfg' = tlCfg /\ tlConn' = tlConn
  BY <1>1, <1>2, Steadily DEF Steady
<1>4. PICK sh, down, ch, cert, ske : sh = tlDown[1] /\ down = tlDown /\ ch = tlC.ch /\ cert = tlCfg.s.cert /\ ske = ServerKeyExchange(cert)
  OBVIOUS
<1>5. PICK sent : sent = Sentinel(tlS.ch)
  OBVIOUS
<1>6. /\ tlUp = <<>> /\ tlS.pc = "flight" /\ Answered12 /\ Asks
      /\ down = <<sh, Certificate12(cert), ske, [t |-> "SHD"]>>
      /\ sh = ServerHello12(tlS.suite, sh.alpn, sent)
      /\ ~tlAltered => down = tlS.flight /\ tlS.ch = ch /\ Offers12(ch)
  <2>1. /\ tlUp = <<>> /\ tlS.pc = "flight" /\ Answered12 /\ Asks
        /\ down = <<sh, Certificate12(cert), ske, [t |-> "SHD"]>>
        /\ ~tlAltered => down = tlS.flight /\ tlS.ch = ch /\ Offers12(ch)
    BY <1>4 DEF FlightSent12, Answered12
  <2>2. sh = ServerHello12(tlS.suite, sh.alpn, Sentinel(tlS.ch))
    BY <1>4 DEF FlightSent12
  <2> QED BY <1>5, <2>1, <2>2
<1>7. sh.t = "SH" /\ sh.ver = 12 /\ sh.suite = tlS.suite /\ sh.sentinel = sent
  BY <1>6 DEF ServerHello12
<1>8. down[1] = sh /\ down[2].chain = cert /\ down[3] = ServerKeyExchange(down[2].chain)
  BY <1>4, <1>6 DEF Certificate12
<1>9. HelloTrue(ch) /\ ~Speaks13(tlCfg.s, tlS.ch)
  BY <1>4, <1>6 DEF Asks, Answered12
<1>10. ~tlAltered => ~(Allow13(tlCfg.c) /\ Allow13(tlCfg.s)) /\ (sent <=> Allow13(tlCfg.c)) /\ Allow12(tlCfg.c)
  BY <1>5, <1>6, <1>9 DEF HelloTrue, Speaks13, Offers13, Offers12, Sentinel
<1>11. IF ~Allow12(tlCfg.c) THEN tlC' = Failed("version") /\ UNCHANGED tlUp ELSE Client12(sh, down)
  BY <1>4, <1>7, Reads12
<1>12. CASE ~Allow12(tlCfg.c)
  <2>1. Deserved
    BY <1>10, <1>12 DEF Deserved
  <2>2. GaveUp'
    BY <1>2, <1>6, <1>11, <1>12, <2>1, GivesUp
  <2> QED BY <1>3, <2>2 DEF TlInv, Stands
<1>13. CASE Allow12(tlCfg.c) /\ Refused12(sh)
  <2>1. Client12(sh, down)
    BY <1>11, <1>13
  <2>2. tlC' = Failed("sentinel") /\ UNCHANGED tlUp
    BY <1>13, <2>1 DEF Client12
  <2>3. Deserved
    BY <1>7, <1>10, <1>13 DEF Refused12, Deserved
  <2>4. GaveUp'
    BY <1>2, <1>6, <2>2, <2>3, GivesUp
  <2> QED BY <1>3, <2>4 DEF TlInv, Stands
<1>14. CASE Allow12(tlCfg.c) /\ ~Refused12(sh) /\ cert # "ok"
  <2>1. Client12(sh, down)
    BY <1>11, <1>14
  <2>2. tlC' = Failed("certificate") /\ UNCHANGED tlUp
    BY <1>8, <1>14, <2>1 DEF Client12
  <2>3. Deserved
    BY <1>1, <1>4, <1>10, <1>14, NotMet DEF Deserved
  <2>4. GaveUp'
    BY <1>2, <1>6, <2>2, <2>3, GivesUp
  <2> QED BY <1>3, <2>4 DEF TlInv, Stands
<1>15. CASE Allow12(tlCfg.c) /\ ~Refused12(sh) /\ cert = "ok"
  <2>1. Client12(sh, down)
    BY <1>11, <1>15
  <2>2. PICK suite, alpn : suite = sh.suite /\ alpn = sh.alpn
    OBVIOUS
  <2>3. PICK km, kc, ks, cke : km = Keys12(suite, "m") /\ kc = Keys12(suite, "c") /\ ks = Keys12(suite, "s") /\ cke = ClientKeyExchange
    OBVIOUS
  <2>4. PICK th : th = <<<<ch, down>>, cke>>
    OBVIOUS
  <2>5. PICK fin : fin = Fin(km, "c", th)
    OBVIOUS
  <2>6. PICK res : res = Result12(suite, alpn, kc, ks, cert)
    OBVIOUS
  <2>8. tlUp' = <<cke, [t |-> "CCS"], Enc(kc, fin)>> /\ tlC' = [pc |-> "wait12", why |-> "", th |-> <<th, fin>>, res |-> res]
    BY ONLY <1>4, <1>8, <1>15, <2>1, <2>2, <2>3, <2>4, <2>5, <2>6 DEF Client12
  <2>9. tlC'.pc = "wait12" /\ tlC'.th = <<th, fin>> /\ tlC'.res = res /\ res.suite = suite /\ res.peer = cert
    BY <2>6, <2>8 DEF Result12
  <2>10. /\ tlC'.th[1] = th /\ tlC'.th[2] = fin /\ tlC'.th[1][1] = <<ch, down>> /\ tlC'.th[1][1][1] = ch /\ tlC'.th[1][1][2] = down
         /\ tlC'.th[1][1][2][1] = sh
    BY <1>8, <2>4, <2>9
  <2>11. cke = ClientKeyExchange' /\ km = Keys12(tlC.res.suite, "m")' /\ kc = Keys12(tlC.res.suite, "c")' /\ ks = Keys12(tlC.res.suite, "s")'
    BY <1>3, <2>3, <2>9 DEF ClientKeyExchange, Keys12
  <2>12. ~(Allow13(tlCfg.c) /\ Allow13(tlCfg.s))
    BY <1>5, <1>7, <1>9, <1>15 DEF Refused12, Speaks13, Sentinel, Offers13
  <2>13. Waits12'
    <3>1. tlC'.th = <<<<<<tlC'.th[1][1][1], tlC'.th[1][1][2]>>, ClientKeyExchange'>>, tlC'.th[2]>>
      BY ONLY <2>4, <2>9, <2>10, <2>11
    <3>2. tlC'.th[2] = Fin(Keys12(tlC.res.suite, "m")', "c", tlC'.th[1])
      BY ONLY <2>5, <2>9, <2>10, <2>11
    <3>3. tlC'.res = Result12(tlC'.th[1][1][2][1].suite, tlC'.th[1][1][2][1].alpn,
                              Keys12(tlC.res.suite, "c")', Keys12(tlC.res.suite, "s")', tlC'.res.peer)
      BY ONLY <2>2, <2>6, <2>9, <2>10, <2>11
    <3> QED BY ONLY <1>3, <2>9, <2>12, <3>1, <3>2, <3>3 DEF Waits12, ClientKeyExchange, Keys12
  <2>14. Answered12'
    BY <1>2, <1>6, Answered12Stays
  <2>15. tlUp' = <<ClientKeyExchange', [t |-> "CCS"], Enc(Keys12(tlC.res.suite, "c")', tlC'.th[2])>>
    BY ONLY <2>8, <2>9, <2>10, <2>11
  <2>16. ~tlAltered' => tlC'.th[1][1] = <<tlS'.ch, tlS'.flight>>
    BY ONLY <1>2, <1>6, <2>10
  <2>17. Accepted12'
    BY ONLY <1>2, <2>13, <2>14, <2>15, <2>16 DEF Accepted12, ClientKeyExchange, Keys12
  <2> QED BY <1>3, <2>17 DEF TlInv, Stands
<1> QED BY <1>12, <1>13, <1>14, <1>15

LEMMA ReadsHelloStep == ASSUME TlInv, ReadServerHello PROVE TlInv'
<1>1. RetrySent \/ FlightSent13 \/ HelloOnly \/ FlightSent12 \/ Refused
  BY WhereIs DEF TlInv, ReadServerHello
<1>2. ~RetrySent
  BY DEF RetrySent, RetryAsked, ReadServerHello
<1> QED BY <1>1, <1>2, ReadsHello13, ReadsHelloOnly, ReadsHello12, ReadsAlert

\* The rest of client_handshake: the server's Finished is over what the client wrote.
LEMMA ReadsFinishedStep == ASSUME TlInv, ReadFinished12 PROVE TlInv'
<1>1. CfgTrue /\ StoreTrue
  BY DEF TlInv
<1>2. Steady /\ tlAltered' = tlAltered /\ tlS' = tlS /\ tlUp' = tlUp /\ tlDown' = <<>>
  BY DEF ReadFinished12, Steady
<1>3. CfgTrue' /\ StoreTrue' /\ tlCfg' = tlCfg
  BY <1>1, <1>2, Steadily DEF Steady
<1>4. Served12 \/ Rejected12
  <2>1. Accepted12 \/ Served12 \/ Rejected12
    BY WhereIs DEF TlInv, ReadFinished12
  <2>2. ~Accepted12
    BY DEF Accepted12, ReadFinished12
  <2> QED BY <2>1, <2>2
<1>5. CASE Served12
  <2>1. PICK ks, f, res, th : ks = Keys12(tlC.res.suite, "s") /\ f = Fin(Keys12(tlC.res.suite, "m"), "s", tlC.th) /\ res = tlC.res /\ th = tlC.th
    OBVIOUS
  <2>2. tlDown = <<[t |-> "CCS"], Enc(ks, f)>>
    BY <1>5, <2>1 DEF Served12
  <2>3. tlDown[2].key = ks /\ tlDown[2].msgs = f /\ Len(tlDown) = 2
    BY <2>2 DEF Enc
  <2>4. tlC.res.read = ks
    BY <1>5, <2>1 DEF Served12, Waits12, Result12
  <2>5. tlC' = [pc |-> "done", why |-> "", res |-> res]
    BY <2>1, <2>3, <2>4 DEF ReadFinished12
  <2>6. tlC'.pc = "done" /\ tlC'.res = tlC.res
    BY <2>1, <2>5
  <2>7. Agree'
    BY <1>2, <1>5, <2>6 DEF Served12, Agree
  <2>8. Done12'
    BY <1>2, <1>3, <1>5, <2>6, <2>7 DEF Served12, Waits12, Done12
  <2> QED BY <1>3, <2>8 DEF TlInv, Stands
<1>6. CASE Rejected12
  <2>1. tlUp = <<>> /\ Deserved /\ tlS.pc = "failed" /\ Len(tlDown) # 2
    <3>1. tlDown = <<Alert(40)>>
      BY <1>6 DEF Rejected12, ReadFinished12
    <3>2. Len(tlDown) = 1
      BY <3>1
    <3> QED BY <1>6, <3>2 DEF Rejected12
  <2>2. tlC' = Failed("finished")
    BY <2>1 DEF ReadFinished12
  <2>3. GaveUp'
    BY <1>2, <2>1, <2>2, GivesUp
  <2> QED BY <1>3, <2>3 DEF TlInv, Stands
<1> QED BY <1>4, <1>5, <1>6

\* What the server says to a client certificate: what it refuses, the configurations explain, and what
\* it lets pass under "required" is a trusted certificate.
LEMMA Judged ==
    ASSUME CfgTrue, Answered13, Allow13(tlCfg.c), NEW a, a = tlS.ans, NEW cert, NEW cv,
           cert = IF a.msgs.cr = TlsNone THEN TlsNone ELSE Cert(tlCfg.c.ident),
           cv = IF a.msgs.cr # TlsNone /\ tlCfg.c.ident # "none" THEN CertVerify(tlCfg.c.ident, <<a.th, cert>>) ELSE TlsNone
    PROVE  /\ Refuses(tlCfg.s, cert, cv, a.th) # "" => Deserved
           /\ Refuses(tlCfg.s, cert, cv, a.th) = "" /\ tlCfg.s.auth = "required"
                => cert # TlsNone /\ cert.chain = "ok" /\ tlCfg.c.ident = "ok"
<1>1. a = Answer13(tlCfg.s, tlS.ch, tlS.suite, tlS.prefix) /\ Allow13(tlCfg.s)
  BY DEF Answered13
<1>2. PICK psk, cr, auth, ident : psk = a.psk /\ cr = a.msgs.cr /\ auth = tlCfg.s.auth /\ ident = tlCfg.c.ident
  OBVIOUS
<1>3. cr = IF psk = TlsNone /\ auth # "none" THEN CertificateRequest ELSE TlsNone
  <2>1. a.msgs.cr = IF a.psk = TlsNone /\ tlCfg.s.auth # "none" THEN CertificateRequest ELSE TlsNone
    BY ONLY <1>1 DEF Answer13
  <2> QED BY ONLY <1>2, <2>1
<1>4. auth = "required" => psk = TlsNone
  <2>1. a.psk = Resumes(tlCfg.s, tlS.ch, tlS.suite, tlS.prefix)
    BY ONLY <1>1 DEF Answer13
  <2> QED BY <1>2, <2>1 DEF Resumes
<1>5. Cert(ident) # TlsNone /\ Cert(ident).chain = ident /\ CertificateRequest # TlsNone
  BY DEF Cert, TlsNone, CertificateRequest
<1>6. PICK v : v = CertVerify(ident, <<a.th, cert>>)
  OBVIOUS
<1>7. v # TlsNone /\ Verifies(v, ident, <<a.th, cert>>)
  BY <1>6 DEF CertVerify, Verifies, TlsNone
<1>8. CASE cr = TlsNone
  <2>1. cert = TlsNone /\ cv = TlsNone
    BY <1>2, <1>8
  <2>2. auth # "required"
    BY <1>3, <1>4, <1>5, <1>8
  <2>3. Refuses(tlCfg.s, cert, cv, a.th) = ""
    BY <1>2, <2>1, <2>2 DEF Refuses
  <2> QED BY <1>2, <2>2, <2>3
<1>9. CASE cr # TlsNone /\ ident = "none"
  <2>1. cert = Cert(ident) /\ cv = TlsNone /\ cert.chain = "none" /\ psk = TlsNone
    BY <1>2, <1>3, <1>5, <1>9
  <2>2. auth = "required" => ~Meet(tlCfg.c, tlCfg.s)
    BY <1>1, <1>2, <1>9 DEF Meet
  <2>3. Refuses(tlCfg.s, cert, cv, a.th) = IF auth = "required" THEN "certificate_required" ELSE ""
    BY <1>2, <2>1 DEF Refuses
  <2> QED BY <1>2, <2>2, <2>3 DEF Deserved
<1>10. CASE cr # TlsNone /\ ident # "none"
  <2>1. cert = Cert(ident) /\ cv = v /\ cert.chain = ident /\ cert # TlsNone /\ auth # "none"
    BY <1>2, <1>3, <1>5, <1>6, <1>10
  <2>2. Refuses(tlCfg.s, cert, cv, a.th) = IF ident # "ok" THEN "bad certificate" ELSE ""
    BY <1>2, <1>7, <1>10, <2>1 DEF Refuses
  <2>3. ident # "ok" => ~Meet(tlCfg.c, tlCfg.s)
    BY <1>1, <1>2, <1>10, <2>1 DEF Meet
  <2> QED BY <1>2, <2>1, <2>2, <2>3 DEF Deserved
<1> QED BY <1>8, <1>9, <1>10

\* run_from_client_hello after its flight.
LEMMA Serves13 == ASSUME TlInv, ReadClientFlight, Accepted13 PROVE TlInv'
<1>1. CfgTrue /\ StoreTrue /\ Answered13 /\ Allow13(tlCfg.c) /\ tlC.pc = "done"
  BY DEF TlInv, Accepted13
<1>2. Steady /\ tlAltered' = tlAltered /\ tlC' = tlC /\ tlUp' = <<>>
  BY DEF ReadClientFlight, Steady
<1>3. CfgTrue' /\ StoreTrue' /\ tlCfg' = tlCfg
  BY <1>1, <1>2, Steadily DEF Steady
<1>4. PICK a, suite, s : a = tlS.ans /\ suite = tlS.suite /\ s = tlCfg.s
  OBVIOUS
<1>5. PICK cert, cv : /\ cert = IF a.msgs.cr = TlsNone THEN TlsNone ELSE Cert(tlCfg.c.ident)
                      /\ cv = IF a.msgs.cr # TlsNone /\ tlCfg.c.ident # "none" THEN CertVerify(tlCfg.c.ident, <<a.th, cert>>) ELSE TlsNone
  OBVIOUS
<1>6. PICK fin, m, enc, hs, th : /\ fin = Fin(a.hs, "c", <<a.th, cert, cv>>) /\ m = [cert |-> cert, cv |-> cv, fin |-> fin]
                                 /\ hs = a.hs /\ th = a.th /\ enc = Enc(<<a.hs, "c">>, m)
  OBVIOUS
<1>7. PICK r \in BOOLEAN : r = (a.psk # TlsNone)
  OBVIOUS
<1>8. PICK wr, rd, master, alpn, peer : /\ wr = AppSecret(hs, th, "c") /\ rd = AppSecret(hs, th, "s") /\ master = Master(hs, <<th, cert, cv, fin>>)
                                        /\ alpn = a.msgs.ee.alpn /\ peer = tlC.res.peer
  OBVIOUS
<1>9. tlUp = <<enc>> /\ tlC.res = [ver |-> 13, suite |-> suite, resumed |-> r, alpn |-> alpn, write |-> wr, read |-> rd, peer |-> peer, master |-> master]
  BY <1>4, <1>5, <1>6, <1>7, <1>8 DEF Accepted13
<1>10. tlC.res.ver = 13 /\ tlC.res.suite = suite /\ tlC.res.resumed = r /\ tlC.res.alpn = alpn /\ tlC.res.write = wr /\ tlC.res.read = rd /\ tlC.res.master = master
  BY <1>9
<1>11. Server13(enc)
  <2>1. tlS.ver = 13 /\ tlUp[1] = enc
    BY <1>1, <1>9 DEF Answered13
  <2>2. IF tlS.ver = 13 THEN Server13(tlUp[1]) ELSE Server12(tlUp)
    BY DEF ReadClientFlight
  <2> QED BY <2>1, <2>2
<1>12. enc.key = <<hs, "c">> /\ enc.msgs = m /\ m.cert = cert /\ m.cv = cv /\ m.fin = fin
  BY <1>6 DEF Enc
<1>13. PICK why : why = Refuses(s, cert, cv, th)
  OBVIOUS
<1>14. (why # "" => Deserved) /\ (why = "" /\ s.auth = "required" => cert # TlsNone /\ cert.chain = "ok" /\ tlCfg.c.ident = "ok")
  BY <1>1, <1>4, <1>5, <1>6, <1>13, Judged
<1>15. CASE why # ""
  <2>1. tlS' = Failed(why) /\ tlDown' = <<Alert(42)>>
    BY ONLY <1>4, <1>6, <1>11, <1>12, <1>13, <1>15, ZenonT(60) DEF Server13, Alert
  <2>2. Deserved' /\ tlS'.pc = "failed"
    BY <1>2, <1>14, <1>15, <2>1, Steadily DEF Failed
  <2>3. Rejected13'
    BY <1>1, <1>2, <1>10, <2>1, <2>2 DEF Rejected13, Alert
  <2> QED BY <1>3, <2>3 DEF TlInv, Stands
<1>16. CASE why = ""
  <2>1. PICK peer2, nst : peer2 = (IF cert = TlsNone THEN "none" ELSE cert.chain) /\ nst = NewSessionTicket(s.key, suite, Psk(master))
    OBVIOUS
  <2>2. fin.mac = Fin(hs, "c", <<th, cert, cv>>).mac
    BY <1>6
  <2>3. /\ tlS' = [pc |-> "done", why |-> "", res |-> [ver |-> 13, suite |-> suite, resumed |-> r, alpn |-> alpn, write |-> rd, read |-> wr,
                                                      peer |-> peer2, master |-> TlsNone]]
        /\ tlDown' = IF s.key = 0 THEN <<>> ELSE <<Enc(rd, nst)>>
    <3>1. /\ tlS' = [pc |-> "done", why |-> "",
                     res |-> [ver |-> 13, suite |-> suite, resumed |-> a.psk # TlsNone, alpn |-> a.msgs.ee.alpn,
                              write |-> AppSecret(a.hs, a.th, "s"), read |-> AppSecret(a.hs, a.th, "c"),
                              peer |-> IF m.cert = TlsNone THEN "none" ELSE m.cert.chain, master |-> TlsNone]]
          /\ tlDown' = IF s.key = 0 THEN <<>>
                       ELSE <<Enc(AppSecret(a.hs, a.th, "s"), NewSessionTicket(s.key, suite, Psk(Master(a.hs, <<a.th, m.cert, m.cv, m.fin>>))))>>
      <4>1. enc.key = <<a.hs, "c">> /\ Refuses(s, m.cert, m.cv, a.th) = "" /\ m.fin.mac = Fin(a.hs, "c", <<a.th, m.cert, m.cv>>).mac
        BY ONLY <1>6, <1>12, <1>13, <1>16, <2>2
      <4>2. PICK x : x = IF enc.key # <<a.hs, "c">> THEN "record"
                         ELSE IF Refuses(s, m.cert, m.cv, a.th) # "" THEN Refuses(s, m.cert, m.cv, a.th)
                         ELSE IF m.fin.mac # Fin(a.hs, "c", <<a.th, m.cert, m.cv>>).mac THEN "finished" ELSE ""
        OBVIOUS
      <4>3. x = ""
        BY ONLY <4>1, <4>2
      <4>4. IF x # "" THEN tlS' = Failed(x) /\ tlDown' = <<[t |-> "alert", code |-> 42]>>
            ELSE /\ tlS' = [pc |-> "done", why |-> "",
                     res |-> [ver |-> 13, suite |-> suite, resumed |-> a.psk # TlsNone, alpn |-> a.msgs.ee.alpn,
                              write |-> AppSecret(a.hs, a.th, "s"), read |-> AppSecret(a.hs, a.th, "c"),
                              peer |-> IF m.cert = TlsNone THEN "none" ELSE m.cert.chain, master |-> TlsNone]]
                 /\ tlDown' = IF s.key = 0 THEN <<>>
                       ELSE <<Enc(AppSecret(a.hs, a.th, "s"), NewSessionTicket(s.key, suite, Psk(Master(a.hs, <<a.th, m.cert, m.cv, m.fin>>))))>>
        BY ONLY <1>4, <1>11, <1>12, <4>2 DEF Server13
      <4> QED BY ONLY <4>3, <4>4
    <3>2. m.cert = cert /\ m.cv = cv /\ m.fin = fin /\ a.hs = hs /\ a.th = th
      BY ONLY <1>6, <1>12
    <3> QED BY ONLY <1>7, <1>8, <2>1, <3>1, <3>2
  <2>4. /\ tlS'.pc = "done" /\ tlS'.res.ver = 13 /\ tlS'.res.suite = suite /\ tlS'.res.resumed = r /\ tlS'.res.alpn = alpn
        /\ tlS'.res.write = rd /\ tlS'.res.read = wr /\ tlS'.res.peer = peer2
    BY <2>3
  <2>5. Agree'
    BY <1>2, <1>10, <2>4 DEF Agree
  <2>6. tlCfg.s.auth = "required" => peer2 = "ok" /\ tlCfg.c.ident = "ok"
    BY <1>4, <1>14, <1>16, <2>1
  <2>7. nst.ticket.psk = Psk(master) /\ nst.ticket.suite = suite
    BY <2>1 DEF NewSessionTicket, Ticket
  <2>8. \/ tlDown' = <<>>
        \/ /\ Len(tlDown') = 1 /\ tlDown' = <<Enc(rd, tlDown'[1].msgs)>>
           /\ tlDown'[1].msgs.ticket.psk = Psk(master) /\ tlDown'[1].msgs.ticket.suite = suite
    <3>1. CASE s.key = 0
      BY <2>3, <3>1
    <3>2. CASE s.key # 0
      <4>1. tlDown' = <<Enc(rd, nst)>>
        BY <2>3, <3>2
      <4>2. tlDown'[1] = Enc(rd, nst) /\ Len(tlDown') = 1 /\ Enc(rd, nst).msgs = nst
        BY <4>1 DEF Enc
      <4> QED BY <2>7, <4>1, <4>2
    <3> QED BY <3>1, <3>2
  <2>9. Served13'
    BY <1>1, <1>2, <1>3, <1>10, <2>4, <2>5, <2>6, <2>8 DEF Served13
  <2> QED BY <1>3, <2>9 DEF TlInv, Stands
<1> QED BY <1>15, <1>16

\* server_handshake of TLS 1.2: a Finished that fits was made over the hello and the flight of this server.
LEMMA Serves12 == ASSUME TlInv, ReadClientFlight, Accepted12 PROVE TlInv'
<1>1. CfgTrue /\ StoreTrue /\ Waits12 /\ Answered12
  BY DEF TlInv, Accepted12
<1>2. Steady /\ tlAltered' = tlAltered /\ tlC' = tlC /\ tlUp' = <<>>
  BY DEF ReadClientFlight, Steady
<1>3. CfgTrue' /\ StoreTrue' /\ tlCfg' = tlCfg /\ tlConn' = tlConn
  BY <1>1, <1>2, Steadily DEF Steady
<1>4. Waits12'
  BY <1>1, <1>2, <1>3 DEF Waits12, ClientKeyExchange, Keys12
<1>5. PICK cs, ss, ch, flight, cke, res, x, y, fin :
         /\ cs = tlC.res.suite /\ ss = tlS.suite /\ ch = tlS.ch /\ flight = tlS.flight /\ cke = ClientKeyExchange
         /\ res = tlC.res /\ x = tlC.th[1][1][1] /\ y = tlC.th[1][1][2] /\ fin = tlC.th[2]
  OBVIOUS
<1>6. tlC.th = <<<<<<x, y>>, cke>>, fin>> /\ tlC.th[1] = <<<<x, y>>, cke>> /\ tlC.th[1][1] = <<x, y>>
  BY <1>1, <1>5 DEF Waits12
<1>7. fin = Fin(Keys12(cs, "m"), "c", <<<<x, y>>, cke>>)
  BY <1>1, <1>5, <1>6 DEF Waits12
<1>8. /\ tlC.res.ver = 12 /\ tlC.res.suite = y[1].suite /\ tlC.res.alpn = y[1].alpn /\ tlC.res.resumed = FALSE
      /\ tlC.res.write = Keys12(cs, "c") /\ tlC.res.read = Keys12(cs, "s")
  <2>1. tlC.res = Result12(y[1].suite, y[1].alpn, Keys12(cs, "c"), Keys12(cs, "s"), tlC.res.peer)
    BY <1>1, <1>5 DEF Waits12
  <2> QED BY <2>1 DEF Result12
<1>9. tlUp = <<cke, [t |-> "CCS"], Enc(Keys12(cs, "c"), fin)>>
  BY <1>5 DEF Accepted12
<1>10. tlUp[1] = cke /\ tlUp[3].key = Keys12(cs, "c") /\ tlUp[3].msgs = fin
  BY <1>9 DEF Enc
<1>11. Server12(tlUp)
  <2>1. tlS.ver = 12
    BY <1>1 DEF Answered12
  <2>2. IF tlS.ver = 13 THEN Server13(tlUp[1]) ELSE Server12(tlUp)
    BY DEF ReadClientFlight
  <2> QED BY <2>1, <2>2
<1>12. PICK th : th = <<<<ch, flight>>, cke>>
  OBVIOUS
<1>13. fin.mac = <<Keys12(cs, "m"), "c", <<<<x, y>>, cke>>>> /\ Fin(Keys12(ss, "m"), "c", th).mac = <<Keys12(ss, "m"), "c", th>>
  BY <1>7 DEF Fin
<1>14. flight[1].suite = ss
  <2>1. PICK b, c, d : flight = <<ServerHello12(ss, flight[1].alpn, Sentinel(ch)), b, c, d>>
    BY <1>1, <1>5 DEF Answered12
  <2>2. flight[1] = ServerHello12(ss, flight[1].alpn, Sentinel(ch))
    BY <2>1
  <2> QED BY <2>2 DEF ServerHello12
<1>15. CASE Keys12(cs, "c") = Keys12(ss, "c") /\ fin.mac = Fin(Keys12(ss, "m"), "c", th).mac
  <2>1. cs = ss
    BY <1>15 DEF Keys12
  <2>2. <<<<x, y>>, cke>> = th /\ x = ch /\ y = flight
    <3>1. <<<<x, y>>, cke>> = th
      BY <1>13, <1>15
    <3> QED BY <1>12, <3>1
  <2>3. /\ tlS' = [pc |-> "done", why |-> "", res |-> Result12(ss, flight[1].alpn, Keys12(ss, "s"), Keys12(ss, "c"), "none")]
        /\ tlDown' = <<[t |-> "CCS"], Enc(Keys12(ss, "s"), Fin(Keys12(ss, "m"), "s", <<th, fin>>))>>
    BY ONLY <1>5, <1>10, <1>11, <1>12, <1>15 DEF Server12
  <2>4. /\ tlS'.pc = "done" /\ tlS'.res.ver = 12 /\ tlS'.res.suite = ss /\ tlS'.res.alpn = flight[1].alpn /\ tlS'.res.resumed = FALSE
        /\ tlS'.res.write = Keys12(ss, "s") /\ tlS'.res.read = Keys12(ss, "c")
    BY <2>3 DEF Result12
  <2>5. Agree'
    BY <1>2, <1>5, <1>8, <2>1, <2>2, <2>4 DEF Agree
  <2>6. tlDown' = <<[t |-> "CCS"], Enc(Keys12(cs, "s"), Fin(Keys12(cs, "m"), "s", tlC.th))>>
    BY <1>6, <2>1, <2>2, <2>3
  <2>7. tlCfg.s.auth = "none"
    BY <1>1 DEF Answered12
  <2>8. Served12'
    BY <1>2, <1>3, <1>4, <1>5, <2>4, <2>5, <2>6, <2>7 DEF Served12, Keys12
  <2> QED BY <1>3, <2>8 DEF TlInv, Stands
<1>16. CASE ~(Keys12(cs, "c") = Keys12(ss, "c") /\ fin.mac = Fin(Keys12(ss, "m"), "c", th).mac)
  <2>1. tlS' = Failed("finished") /\ tlDown' = <<Alert(40)>>
    BY ONLY <1>5, <1>10, <1>11, <1>12, <1>16 DEF Server12, Alert
  <2>2. Deserved
    <3>1. SUFFICES ASSUME ~tlAltered PROVE FALSE
      BY DEF Deserved
    <3>2. <<x, y>> = <<ch, flight>>
      BY <1>5, <1>6, <3>1 DEF Accepted12
    <3>3. cs = ss
      BY <1>5, <1>8, <1>14, <3>2
    <3> QED BY <1>12, <1>13, <1>16, <3>2, <3>3
  <2>3. Deserved' /\ tlS'.pc = "failed"
    BY <1>2, <2>1, <2>2, Steadily DEF Failed
  <2>4. Rejected12'
    BY <1>2, <1>4, <2>1, <2>3 DEF Rejected12, Alert
  <2> QED BY <1>3, <2>4 DEF TlInv, Stands
<1> QED BY <1>15, <1>16

LEMMA ReadsClientStep == ASSUME TlInv, ReadClientFlight PROVE TlInv'
<1>1. Accepted13 \/ Accepted12
  BY WhereIs DEF TlInv, ReadClientFlight
<1> QED BY <1>1, Serves13, Serves12

\* capture_ticket: the session holds the secret and the suite of its ticket.
LEMMA CapturesStep == ASSUME TlInv, CaptureTicket PROVE TlInv'
<1>1. Served13 /\ CfgTrue
  <2>1. Served13 \/ Rejected13
    BY WhereIs DEF TlInv, CaptureTicket
  <2>2. ~Rejected13
    BY DEF Rejected13, Alert, CaptureTicket
  <2> QED BY <2>1, <2>2 DEF TlInv
<1>2. UNCHANGED <<tlCfg, tlC, tlS, tlUp>> /\ tlDown' = <<>>
  BY DEF CaptureTicket
<1>3. PICK ticket, suite, psk : ticket = tlDown[1].msgs.ticket /\ suite = tlC.res.suite /\ psk = Psk(tlC.res.master)
  OBVIOUS
<1>4. tlStore' = [t |-> "session", ticket |-> ticket, suite |-> suite, psk |-> psk]
  BY <1>3 DEF CaptureTicket
<1>5. ticket.psk = psk /\ ticket.suite = suite
  BY <1>1, <1>3 DEF Served13, CaptureTicket
<1>6. StoreTrue'
  BY <1>4, <1>5 DEF StoreTrue
<1>7. Served13'
  BY <1>1, <1>2 DEF Served13, Agree
<1> QED BY <1>1, <1>2, <1>6, <1>7 DEF TlInv, Stands, CfgTrue

LEMMA StreamEndsStep == ASSUME TlInv, Eof PROVE TlInv'
<1>1. CfgTrue /\ StoreTrue
  BY DEF TlInv
<1>2. Steady /\ tlAltered' = tlAltered /\ tlUp' = tlUp /\ tlDown' = tlDown
  BY DEF Eof, Steady
<1>3. CfgTrue' /\ StoreTrue'
  BY <1>1, <1>2, Steadily
<1>4. CASE tlC.pc \in {"hello", "wait12"} /\ tlS.pc = "failed" /\ tlDown = <<>> /\ tlC' = Failed("eof") /\ UNCHANGED tlS
  <2>1. Refused \/ Rejected12
    <3>1. HelloOnly \/ Refused \/ GaveUp \/ Rejected13 \/ Rejected12
      BY <1>4, WhereIs DEF TlInv
    <3>2. ~HelloOnly /\ ~GaveUp /\ ~Rejected13
      BY <1>4 DEF HelloOnly, GaveUp, Rejected13
    <3> QED BY <3>1, <3>2
  <2>2. tlUp = <<>> /\ Deserved
    BY <2>1 DEF Refused, Rejected12
  <2>3. GaveUp'
    BY <1>2, <1>4, <2>2, GivesUp
  <2> QED BY <1>3, <2>3 DEF TlInv, Stands
<1>5. CASE tlS.pc \in {"flight", "retry"} /\ tlC.pc = "failed" /\ tlUp = <<>> /\ tlS' = Failed("eof") /\ UNCHANGED tlC
  <2>1. GaveUp
    BY <1>5, WhereIs DEF TlInv
  <2>2. Deserved' /\ tlS'.pc = "failed"
    BY <1>2, <1>5, <2>1, Steadily DEF GaveUp, Failed
  <2>3. GaveUp'
    BY <1>2, <1>5, <2>1, <2>2 DEF GaveUp
  <2> QED BY <1>3, <2>3 DEF TlInv, Stands
<1> QED BY <1>4, <1>5 DEF Eof

\* What is on the way tells the phase as well.
LEMMA OnTheWay ==
    ASSUME Stands
    PROVE  /\ tlUp # <<>> /\ tlUp[1].t = "CH" => HelloSent \/ HelloAgain
           /\ tlDown # <<>> /\ tlDown[1].t = "SH" => FlightSent13 \/ HelloOnly \/ FlightSent12
<1>1. AtRest \/ HelloSent \/ HelloAgain \/ GaveUp \/ Accepted13 \/ Accepted12 \/ Done12 => tlDown = <<>>
  BY DEF AtRest, HelloSent, HelloAgain, GaveUp, Accepted13, Accepted12, Done12
<1>2. (AtRest \/ RetrySent \/ FlightSent13 \/ HelloOnly \/ FlightSent12 \/ Refused \/ GaveUp
       \/ Served13 \/ Rejected13 \/ Served12 \/ Rejected12 \/ Done12) => tlUp = <<>>
  BY DEF AtRest, RetrySent, FlightSent13, HelloOnly, FlightSent12, Refused, GaveUp, Served13, Rejected13, Served12, Rejected12, Done12
<1>3. Accepted13 => tlUp[1].t = "enc"
  BY DEF Accepted13, Enc
<1>4. Accepted12 => tlUp[1].t = "CKE"
  BY DEF Accepted12, ClientKeyExchange
<1>5. RetrySent => tlDown[1].t = "HRR"
  BY DEF RetrySent, RetryAsked
<1>6. Refused \/ Rejected13 \/ Rejected12 => tlDown = <<>> \/ tlDown[1].t = "alert"
  BY DEF Refused, Rejected13, Rejected12, Alert
<1>7. Served13 => tlDown = <<>> \/ tlDown[1].t = "enc"
  BY DEF Served13, Enc
<1>8. Served12 => tlDown[1].t = "CCS"
  BY DEF Served12
<1>9. tlUp # <<>> /\ tlUp[1].t = "CH" => HelloSent \/ HelloAgain
  BY <1>2, <1>3, <1>4 DEF Stands
<1>10. tlDown # <<>> /\ tlDown[1].t = "SH" => FlightSent13 \/ HelloOnly \/ FlightSent12
  BY <1>1, <1>5, <1>6, <1>7, <1>8 DEF Stands
<1> QED BY <1>9, <1>10

\* A changed hello proves nothing yet: what it may lead to is judged where it is read.
LEMMA AltersStep == ASSUME TlInv, Alter PROVE TlInv'
<1>1. CfgTrue /\ StoreTrue /\ Stands
  BY DEF TlInv
<1>2. Steady /\ tlAltered' = TRUE /\ tlC' = tlC /\ tlS' = tlS
  BY DEF Alter, Steady
<1>3. CfgTrue' /\ StoreTrue' /\ tlCfg' = tlCfg /\ (Asks => Asks') /\ Deserved'
  BY <1>1, <1>2, Steadily, AsksStays DEF Steady, Deserved
<1>4. CASE tlUp # <<>> /\ tlUp[1].t = "CH" /\ UNCHANGED tlDown
           /\ tlUp' \in {<<[tlUp[1] EXCEPT !.vers = @ \ {13}]>>, <<[tlUp[1] EXCEPT !.alpn = <<>>]>>, <<[tlUp[1] EXCEPT !.psk = TlsNone]>>} \ {tlUp}
  <2>1. PICK x : tlUp' = <<x>>
    BY <1>4
  <2>2. Len(tlUp') = 1 /\ tlUp' = <<tlUp'[1]>>
    BY <2>1
  <2>3. HelloSent \/ HelloAgain
    BY <1>1, <1>4, OnTheWay
  <2>4. HelloSent => HelloSent'
    BY <1>2, <1>3, <1>4, <2>2 DEF HelloSent
  <2>5. HelloAgain => HelloAgain'
    BY <1>2, <1>3, <1>4, <2>2 DEF HelloAgain, RetryAsked
  <2> QED BY <1>3, <2>3, <2>4, <2>5 DEF TlInv, Stands
<1>5. CASE tlDown # <<>> /\ tlDown[1].t = "SH" /\ UNCHANGED tlUp
           /\ tlDown' \in (IF tlDown[1].ver = 13 THEN {[tlDown EXCEPT ![1].suite = x] : x \in {"aes128", "aes256"}}
                           ELSE {[tlDown EXCEPT ![1].alpn = "none"]}) \ {tlDown}
  <2>1. FlightSent13 \/ HelloOnly \/ FlightSent12
    BY <1>1, <1>5, OnTheWay
  <2>2. CASE FlightSent13
    <3>1. PICK r \in BOOLEAN : r = (tlS.ans.psk # TlsNone)
      OBVIOUS
    <3>2. PICK sh, enc, suite, sid : sh = tlDown[1] /\ enc = Enc(<<tlS.ans.hs, "s">>, tlS.ans.msgs) /\ suite = sh.suite /\ sid = tlS.ch.sid
      OBVIOUS
    <3>3. tlDown = <<sh, enc>> /\ sh = ServerHello13(suite, r, sid)
      BY <2>2, <3>1, <3>2 DEF FlightSent13
    <3>4. sh.ver = 13
      BY <3>3 DEF ServerHello13
    <3>5. PICK x : tlDown' = [tlDown EXCEPT ![1].suite = x]
      BY <1>5, <3>2, <3>4
    <3>6. PICK sh2 : sh2 = [sh EXCEPT !.suite = x]
      OBVIOUS
    <3>7. tlDown' = <<sh2, enc>>
      <4>1. tlDown' = [tlDown EXCEPT ![1] = sh2]
        BY ONLY <3>2, <3>5, <3>6
      <4> QED BY ONLY <3>3, <4>1
    <3>8. sh2 = ServerHello13(x, r, sid)
      BY ONLY <3>3, <3>6 DEF ServerHello13
    <3>9. Len(tlDown') = 2 /\ tlDown'[1] = sh2 /\ sh2.suite = x
      BY <3>7, <3>8 DEF ServerHello13
    <3>10. Answered13' /\ Asks'
      BY <1>2, <1>3, <2>2, AnsweredStays DEF FlightSent13
    <3>11. FlightSent13'
      BY <1>2, <1>5, <2>2, <3>1, <3>2, <3>7, <3>8, <3>9, <3>10 DEF FlightSent13
    <3> QED BY <1>3, <3>11 DEF TlInv, Stands
  <2>3. CASE HelloOnly
    <3>1. PICK sh, suite, r, sid : sh = tlDown[1] /\ suite = sh.suite /\ r = sh.resumed /\ sid = sh.sid
      OBVIOUS
    <3>2. tlDown = <<sh>> /\ sh = ServerHello13(suite, r, sid)
      BY <2>3, <3>1 DEF HelloOnly
    <3>3. sh.ver = 13
      BY <3>2 DEF ServerHello13
    <3>4. PICK x : tlDown' = [tlDown EXCEPT ![1].suite = x]
      BY <1>5, <3>1, <3>3
    <3>5. PICK sh2 : sh2 = [sh EXCEPT !.suite = x]
      OBVIOUS
    <3>6. tlDown' = <<sh2>>
      <4>1. tlDown' = [tlDown EXCEPT ![1] = sh2]
        BY ONLY <3>1, <3>4, <3>5
      <4> QED BY ONLY <3>2, <4>1
    <3>7. sh2 = ServerHello13(x, r, sid)
      BY ONLY <3>2, <3>5 DEF ServerHello13
    <3>8. Len(tlDown') = 1 /\ tlDown'[1] = sh2 /\ sh2.suite = x /\ sh2.resumed = r /\ sh2.sid = sid /\ sh2.t = "SH"
      BY <3>6, <3>7 DEF ServerHello13
    <3>9. HelloOnly'
      BY <1>2, <1>3, <1>5, <2>3, <3>6, <3>7, <3>8 DEF HelloOnly
    <3> QED BY <1>3, <3>9 DEF TlInv, Stands
  <2>4. CASE FlightSent12
    <3>1. PICK sh, cert, ske, shd, suite, alpn, sent :
            /\ sh = tlDown[1] /\ cert = Certificate12(tlCfg.s.cert) /\ ske = ServerKeyExchange(tlCfg.s.cert) /\ shd = [t |-> "SHD"]
            /\ suite = tlS.suite /\ alpn = sh.alpn /\ sent = Sentinel(tlS.ch)
      OBVIOUS
    <3>2. tlDown = <<sh, cert, ske, shd>> /\ sh = ServerHello12(suite, alpn, sent)
      BY <2>4, <3>1 DEF FlightSent12
    <3>3. sh.ver = 12
      BY <3>2 DEF ServerHello12
    <3>4. PICK x : tlDown' = [tlDown EXCEPT ![1].alpn = x]
      BY <1>5, <3>1, <3>3
    <3>5. PICK sh2 : sh2 = [sh EXCEPT !.alpn = x]
      OBVIOUS
    <3>6. tlDown' = <<sh2, cert, ske, shd>>
      <4>1. tlDown' = [tlDown EXCEPT ![1] = sh2]
        BY ONLY <3>1, <3>4, <3>5
      <4> QED BY ONLY <3>2, <4>1
    <3>7. sh2 = ServerHello12(suite, x, sent)
      BY ONLY <3>2, <3>5 DEF ServerHello12
    <3>8. Len(tlDown') = 4 /\ tlDown'[1] = sh2 /\ sh2.alpn = x
      BY <3>6, <3>7 DEF ServerHello12
    <3>9. Answered12' /\ Asks' /\ ske = ServerKeyExchange(tlCfg.s.cert)'
      BY <1>2, <1>3, <2>4, <3>1, Answered12Stays DEF FlightSent12, ServerKeyExchange, Steady
    <3>10. FlightSent12'
      BY <1>2, <1>3, <1>5, <2>4, <3>1, <3>6, <3>7, <3>8, <3>9 DEF FlightSent12, ServerKeyExchange
    <3> QED BY <1>3, <3>10 DEF TlInv, Stands
  <2> QED BY <2>1, <2>2, <2>3, <2>4
<1> QED BY <1>4, <1>5 DEF Alter

LEMMA NextConnectionStep == ASSUME TlInv, NextConnection PROVE TlInv'
<1>1. CfgTrue /\ StoreTrue /\ tlStore' = tlStore
  BY DEF TlInv, NextConnection
<1>2. StoreTrue'
  BY <1>1 DEF StoreTrue
<1>3. PICK s \in {tlCfg.s} \union TlRestarts : tlCfg' = [tlCfg EXCEPT !.s = s]
  BY DEF NextConnection
<1>4. PICK c, s0 : tlCfg = [c |-> c, s |-> s0] /\ c \in TlClients
  BY <1>1 DEF CfgTrue
<1>5. tlCfg' = [c |-> c, s |-> s]
  BY ONLY <1>3, <1>4
<1>6. CfgTrue'
  BY <1>1, <1>3, <1>4, <1>5 DEF CfgTrue
<1>7. tlC'.pc = "idle" /\ tlS'.pc = "idle" /\ tlUp' = <<>> /\ tlDown' = <<>>
  BY DEF NextConnection
<1>8. AtRest'
  BY <1>7 DEF AtRest
<1> QED BY <1>2, <1>6, <1>8 DEF TlInv, Stands

LEMMA TlStarts == TlInit => TlInv
<1> SUFFICES ASSUME TlInit PROVE TlInv
  OBVIOUS
<1>1. PICK c \in TlClients, s \in TlServers : tlCfg = [c |-> c, s |-> s]
  BY DEF TlInit
<1>2. CfgTrue
  BY <1>1 DEF CfgTrue
<1>3. StoreTrue
  BY DEF TlInit, StoreTrue
<1>4. AtRest
  BY DEF TlInit, AtRest
<1> QED BY <1>2, <1>3, <1>4 DEF TlInv, Stands

LEMMA TlStutters == ASSUME TlInv, UNCHANGED tlvars PROVE TlInv'
<1>1. Steady /\ UNCHANGED <<tlC, tlS, tlUp, tlDown, tlAltered, tlCfg, tlConn>>
  BY DEF tlvars, Steady
<1>2. CfgTrue' /\ StoreTrue' /\ (Asks => Asks') /\ (Deserved => Deserved')
  BY <1>1, Steadily, AsksStays DEF TlInv
<1>3. (Answered13 => Answered13') /\ (Answered12 => Answered12') /\ (Agree => Agree') /\ (RetryAsked => RetryAsked')
  BY <1>1, AnsweredStays, Answered12Stays DEF Agree, RetryAsked
<1>4. Waits12 => Waits12'
  BY <1>1 DEF Waits12, ClientKeyExchange, Keys12
<1>5. (AtRest => AtRest') /\ (HelloSent => HelloSent') /\ (RetrySent => RetrySent') /\ (HelloAgain => HelloAgain')
  BY <1>1, <1>2, <1>3 DEF AtRest, HelloSent, RetrySent, HelloAgain
<1>6. FlightSent13 => FlightSent13'
  BY <1>1, <1>2, <1>3 DEF FlightSent13
<1>7. FlightSent12 => FlightSent12'
  BY <1>1, <1>2, <1>3 DEF FlightSent12, ServerKeyExchange
<1>8. (HelloOnly => HelloOnly') /\ (Refused => Refused') /\ (GaveUp => GaveUp')
  BY <1>1, <1>2 DEF HelloOnly, Refused, GaveUp
<1>9. Accepted13 => Accepted13'
  BY <1>1, <1>3 DEF Accepted13
<1>10. (Served13 => Served13') /\ (Rejected13 => Rejected13') /\ (Rejected12 => Rejected12') /\ (Done12 => Done12')
  BY <1>1, <1>2, <1>3, <1>4 DEF Served13, Rejected13, Rejected12, Done12
<1>11. (Accepted12 => Accepted12') /\ (Served12 => Served12')
  BY <1>1, <1>3, <1>4 DEF Accepted12, Served12, ClientKeyExchange, Keys12
<1> QED BY <1>2, <1>5, <1>6, <1>7, <1>8, <1>9, <1>10, <1>11 DEF TlInv, Stands

LEMMA TlSteps == TlInv /\ [TlNext]_tlvars => TlInv'
<1> SUFFICES ASSUME TlInv, [TlNext]_tlvars PROVE TlInv'
  OBVIOUS
<1> QED BY ConnectsStep, RetriesStep, AcceptsStep, AcceptsAgainStep, ReadsHelloStep, ReadsFinishedStep, ReadsClientStep,
           CapturesStep, StreamEndsStep, AltersStep, NextConnectionStep, TlStutters DEF TlNext

LEMMA TlShows == TlInv => HandshakesKept
<1> SUFFICES ASSUME TlInv PROVE HandshakesKept
  OBVIOUS
<1>1. Stands
  BY DEF TlInv
<1>2. HandshakeAgrees
  <2>1. SUFFICES ASSUME tlS.pc = "done" PROVE tlC.pc \in {"done", "wait12"} /\ Agree
    BY DEF HandshakeAgrees, Agree
  <2>2. Served13 \/ Served12 \/ Done12
    BY <1>1, <2>1, WhereIs
  <2> QED BY <2>2 DEF Served13, Served12, Waits12, Done12
<1>3. ClientAuthKept
  <2>1. SUFFICES ASSUME tlS.pc = "done", tlCfg.s.auth = "required" PROVE tlS.res.peer = "ok" /\ tlCfg.c.ident = "ok"
    BY DEF ClientAuthKept
  <2>2. Served13 \/ Served12 \/ Done12
    BY <1>1, <2>1, WhereIs
  <2> QED BY <2>1, <2>2 DEF Served13, Served12, Done12
<1>4. NoDowngrade
  <2>1. SUFFICES ASSUME tlC.pc = "done", Allow13(tlCfg.c), Allow13(tlCfg.s) PROVE tlC.res.ver = 13
    BY DEF NoDowngrade
  <2>2. Accepted13 \/ Served13 \/ Rejected13 \/ Done12
    BY <1>1, <2>1, WhereIs
  <2> QED BY <2>1, <2>2 DEF Accepted13, Served13, Rejected13, Done12
<1>5. FailureDeserved
  <2>1. SUFFICES ASSUME tlC.pc = "failed" \/ tlS.pc = "failed" PROVE Deserved
    BY DEF FailureDeserved, Deserved
  <2>2. HelloOnly \/ Refused \/ GaveUp \/ Rejected13 \/ Rejected12
    BY <1>1, <2>1, WhereIs
  <2> QED BY <2>2 DEF HelloOnly, Refused, GaveUp, Rejected13, Rejected12
<1> QED BY <1>2, <1>3, <1>4, <1>5 DEF HandshakesKept

\* Whatever the two configurations, however many connections share the tickets and whichever
\* hellos are changed on the way, TlsConnector::connect and TlsAcceptor::accept that both return a
\* stream agree on it, at the best version both speak and with the client the server asked for,
\* and an untouched handshake fails only between configurations that cannot meet.
THEOREM HandshakesStayKept == TlSpec => []HandshakesKept
<1>1. TlInit => TlInv
  BY TlStarts
<1>2. TlInv /\ [TlNext]_tlvars => TlInv'
  BY TlSteps
<1>3. TlInv => HandshakesKept
  BY TlShows
<1> QED BY <1>1, <1>2, <1>3, PTL DEF TlSpec
=============================================================================
