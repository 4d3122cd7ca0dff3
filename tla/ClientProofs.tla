---------------------------- MODULE ClientProofs ----------------------------
(***************************************************************************)
(* The client, for every value of the constants: the reservations of the   *)
(* HTTP/2 pool, the exchanges of HTTP/1.1 with their retries and redirects,*)
(* the bodies of the HTTP/2 driver, a gRPC call with the service that      *)
(* answers it, and the opening handshake of a WebSocket.  Each part has    *)
(* its inductive invariant, a lemma per step, and its theorem.             *)
(***************************************************************************)
EXTENDS ClientPool, ClientExec, ClientH2, Grpc, WsHandshake, FiniteSetTheorems, WellFoundedInduction, TLAPS

-----------------------------------------------------------------------------
(***************************************************************************)
(* ReservationsExact for any number of callers and connections and every   *)
(* cap.  It is inductive once a caller is known to hold a connection       *)
(* exactly while it sends, awaits or is about to reserve, and only one     *)
(* that was opened: a connection just opened is nobody's.                  *)
(***************************************************************************)
MConns == [opened : BOOLEAN, accepting : BOOLEAN, alive : BOOLEAN, resv : Nat, cmds : SUBSET CpCallers]
Bearing == {"send", "await", "fresh"}
PCalls == [pc : {"idle", "upgrade", "upgrading", "lookup", "wait", "open", "last", "done"} \union Bearing,
           conn : CpConns \union {0}, retried : BOOLEAN]

PoolTypes ==
    /\ plist \subseteq CpConns /\ IsFiniteSet(plist)
    /\ pending \in Nat
    /\ mconn \in [CpConns -> MConns]
    /\ pcall \in [CpCallers -> PCalls]

Bears(c) ==
    IF pcall[c].pc \in Bearing THEN pcall[c].conn \in CpConns /\ mconn[pcall[c].conn].opened
                               ELSE pcall[c].conn = 0

PooledOpen == \A k \in plist : mconn[k].opened

PoolInv == PoolTypes /\ PooledOpen /\ (\A c \in CpCallers : Bears(c)) /\ ReservationsExact

\* Two finite sets that differ in one element at most.
LEMMA Counted ==
    ASSUME NEW S, NEW T, NEW c, IsFiniteSet(S), IsFiniteSet(T), T \ {c} = S \ {c}
    PROVE  /\ Cardinality(S) \in Nat /\ Cardinality(T) \in Nat
           /\ c \in S /\ c \in T => Cardinality(T) = Cardinality(S)
           /\ c \notin S /\ c \notin T => Cardinality(T) = Cardinality(S)
           /\ c \notin S /\ c \in T => Cardinality(T) = Cardinality(S) + 1
           /\ c \in S /\ c \notin T => Cardinality(S) = Cardinality(T) + 1
<1>1. Cardinality(S) \in Nat /\ Cardinality(T) \in Nat
  BY FS_CardinalityType
<1>2. CASE (c \in S) = (c \in T)
  <2>1. S = T
    BY <1>2
  <2> QED BY <1>1, <1>2, <2>1
<1>3. CASE c \notin S /\ c \in T
  <2>1. T = S \union {c}
    BY <1>3
  <2> QED BY <1>1, <1>3, <2>1, FS_AddElement
<1>4. CASE c \in S /\ c \notin T
  <2>1. S = T \union {c}
    BY <1>4
  <2> QED BY <1>1, <1>4, <2>1, FS_AddElement
<1> QED BY <1>2, <1>3, <1>4

\* retain() and the push under the lock keep the pool within its cap.
LEMMA CapKept ==
    ASSUME PoolInv,
           plist' = plist \/ plist' = Accepting(plist) \/ \E k \in CpConns : plist' = Pooled(k)
    PROVE  plist' \subseteq CpConns /\ IsFiniteSet(plist') /\ Cardinality(plist') <= CpMax
<1> DEFINE list == Accepting(plist)
<1>1. /\ plist \subseteq CpConns /\ IsFiniteSet(plist) /\ Cardinality(plist) \in Nat
      /\ Cardinality(plist) <= CpMax /\ CpMax \in Nat
  BY CpAssumption, FS_CardinalityType DEF PoolInv, PoolTypes, ReservationsExact
<1>2. list \subseteq plist
  BY DEF Accepting
<1>3. IsFiniteSet(list) /\ Cardinality(list) \in Nat /\ Cardinality(list) <= CpMax
  BY <1>1, <1>2, FS_Subset, FS_CardinalityType
<1>4. \A k : IsFiniteSet(list \union {k}) /\ (Cardinality(list) < CpMax => Cardinality(list \union {k}) <= CpMax)
  <2> TAKE k
  <2>1. Cardinality(list \union {k}) = Cardinality(list) \/ Cardinality(list \union {k}) = Cardinality(list) + 1
    BY <1>3, FS_AddElement
  <2> QED BY <1>1, <1>3, <2>1, FS_AddElement
<1> HIDE DEF list
<1>5. CASE \E k \in CpConns : plist' = Pooled(k)
  BY <1>1, <1>2, <1>3, <1>4, <1>5 DEF Pooled, list
<1> QED BY <1>1, <1>2, <1>3, <1>5 DEF list

\* A caller's step that reserves what it comes to hold, releases what it held, and takes
\* or gives back the slot of an open.
LEMMA CallKeepsBooks ==
    ASSUME PoolInv, NEW c \in CpCallers,
           \/ plist' = plist \/ plist' = Accepting(plist)
           \/ \E k \in CpConns : plist' = Pooled(k) /\ mconn'[k].opened,
           pending' \in Nat,
           mconn' \in [CpConns -> MConns], \A k \in CpConns : mconn[k].opened => mconn'[k].opened,
           pcall' \in [CpCallers -> PCalls], \A d \in CpCallers \ {c} : pcall'[d] = pcall[d],
           Bears(c)',
           \A k \in CpConns :
              /\ c \in Holding(k) /\ c \in Holding(k)' => mconn'[k].resv = mconn[k].resv
              /\ c \notin Holding(k) /\ c \notin Holding(k)' => mconn'[k].resv = mconn[k].resv
              /\ c \notin Holding(k) /\ c \in Holding(k)' => mconn'[k].resv = mconn[k].resv + 1
              /\ c \in Holding(k) /\ c \notin Holding(k)' => mconn'[k].resv = mconn[k].resv - 1,
           pcall[c].pc # "open" /\ pcall'[c].pc # "open" => pending' = pending,
           pcall[c].pc # "open" /\ pcall'[c].pc = "open" => pending' = pending + 1,
           pcall[c].pc = "open" /\ pcall'[c].pc # "open" => pending' = pending - 1,
           pcall[c].pc = "open" /\ pcall'[c].pc = "open" => pending' = pending
    PROVE  PoolInv'
<1>1. PoolTypes'
  BY CapKept DEF PoolTypes
<1>2. ASSUME NEW d \in CpCallers PROVE Bears(d)'
  <2>1. CASE d = c
    BY <2>1
  <2>2. CASE d # c
    <3>1. pcall'[d] = pcall[d] /\ Bears(d)
      BY <2>2 DEF PoolInv
    <3> QED BY <3>1 DEF Bears
  <2> QED BY <2>1, <2>2
<1>3. ASSUME NEW k \in CpConns PROVE mconn'[k].resv = Cardinality(Holding(k)')
  <2>1. Holding(k) \subseteq CpCallers /\ Holding(k)' \subseteq CpCallers
    BY DEF Holding
  <2>2. IsFiniteSet(Holding(k)) /\ IsFiniteSet(Holding(k)')
    BY <2>1, CpAssumption, FS_Subset
  <2>3. Holding(k)' \ {c} = Holding(k) \ {c}
    BY DEF Holding
  <2>4. mconn[k].resv = Cardinality(Holding(k))
    BY DEF PoolInv, ReservationsExact
  <2> DEFINE S == Holding(k)
             T == Holding(k)'
  <2>5. /\ Cardinality(S) \in Nat /\ Cardinality(T) \in Nat
        /\ c \in S /\ c \in T => Cardinality(T) = Cardinality(S)
        /\ c \notin S /\ c \notin T => Cardinality(T) = Cardinality(S)
        /\ c \notin S /\ c \in T => Cardinality(T) = Cardinality(S) + 1
        /\ c \in S /\ c \notin T => Cardinality(S) = Cardinality(T) + 1
    BY <2>2, <2>3, Counted
  <2> HIDE DEF S, T
  <2>6. /\ c \in S /\ c \in T => mconn'[k].resv = mconn[k].resv
        /\ c \notin S /\ c \notin T => mconn'[k].resv = mconn[k].resv
        /\ c \notin S /\ c \in T => mconn'[k].resv = mconn[k].resv + 1
        /\ c \in S /\ c \notin T => mconn'[k].resv = mconn[k].resv - 1
    BY DEF S, T
  <2>7. mconn[k].resv = Cardinality(S)
    BY <2>4 DEF S
  <2>8. mconn'[k].resv = Cardinality(T)
    BY <2>5, <2>6, <2>7
  <2> QED BY <2>8 DEF T
<1>4. pending' = Cardinality(Opening')
  <2>1. Opening \subseteq CpCallers /\ Opening' \subseteq CpCallers
    BY DEF Opening
  <2>2. IsFiniteSet(Opening) /\ IsFiniteSet(Opening')
    BY <2>1, CpAssumption, FS_Subset
  <2>3. Opening' \ {c} = Opening \ {c}
    BY DEF Opening
  <2>4. pending = Cardinality(Opening)
    BY DEF PoolInv, ReservationsExact
  <2>5. (c \in Opening) = (pcall[c].pc = "open") /\ (c \in Opening') = (pcall'[c].pc = "open")
    BY DEF Opening
  <2>6. /\ Cardinality(Opening) \in Nat /\ Cardinality(Opening') \in Nat
        /\ c \in Opening /\ c \in Opening' => Cardinality(Opening') = Cardinality(Opening)
        /\ c \notin Opening /\ c \notin Opening' => Cardinality(Opening') = Cardinality(Opening)
        /\ c \notin Opening /\ c \in Opening' => Cardinality(Opening') = Cardinality(Opening) + 1
        /\ c \in Opening /\ c \notin Opening' => Cardinality(Opening) = Cardinality(Opening') + 1
    BY <2>2, <2>3, Counted
  <2> QED BY <2>4, <2>5, <2>6
<1>5. ReservationsExact'
  BY <1>3, <1>4, CapKept DEF ReservationsExact
<1>6. PooledOpen'
  BY DEF PoolInv, PoolTypes, PooledOpen, Accepting, Pooled
<1> QED BY <1>1, <1>2, <1>5, <1>6 DEF PoolInv

\* A caller that holds nothing before and after the step.
LEMMA EmptyHanded ==
    ASSUME PoolInv, NEW c \in CpCallers, NEW l \in {"upgrade", "upgrading", "lookup", "wait", "open", "last", "done"},
           pcall[c].pc \notin Bearing, CpGoto(c, l),
           plist' = plist \/ plist' = Accepting(plist),
           mconn' \in [CpConns -> MConns],
           \A k \in CpConns : mconn'[k].opened = mconn[k].opened /\ mconn'[k].resv = mconn[k].resv,
           pending' \in Nat,
           pcall[c].pc # "open" /\ l # "open" => pending' = pending,
           pcall[c].pc # "open" /\ l = "open" => pending' = pending + 1,
           pcall[c].pc = "open" => l # "open" /\ pending' = pending - 1
    PROVE  PoolInv'
<1>1. pcall \in [CpCallers -> PCalls] /\ pcall[c].conn = 0
  BY DEF PoolInv, PoolTypes, Bears
<1>2. pcall' \in [CpCallers -> PCalls] /\ \A d \in CpCallers \ {c} : pcall'[d] = pcall[d]
  BY <1>1 DEF CpGoto, PCalls
<1>3. pcall'[c].pc = l /\ pcall'[c].conn = 0
  BY <1>1 DEF CpGoto, PCalls
<1>4. Bears(c)'
  BY <1>3 DEF Bears, Bearing
<1>5. \A k \in CpConns : c \notin Holding(k) /\ c \notin Holding(k)'
  BY <1>1, <1>3, CpAssumption DEF Holding
<1> QED BY <1>2, <1>3, <1>4, <1>5, CallKeepsBooks

\* A caller that takes connection k, which is open, and reserves it.
LEMMA Takes ==
    ASSUME PoolInv, NEW c \in CpCallers, NEW k \in CpConns,
           pcall[c].pc \notin Bearing, pcall[c].pc # "open",
           NEW l \in {"send", "await"}, Holds(c, k, l),
           plist' = plist \/ plist' = Accepting(plist) \/ plist' = Pooled(k),
           mconn' \in [CpConns -> MConns], mconn'[k].opened, mconn'[k].resv = mconn[k].resv + 1,
           \A j \in CpConns \ {k} : mconn'[j].opened = mconn[j].opened /\ mconn'[j].resv = mconn[j].resv,
           pending' = pending
    PROVE  PoolInv'
<1>1. pcall \in [CpCallers -> PCalls] /\ pcall[c].conn = 0 /\ pending \in Nat
  BY DEF PoolInv, PoolTypes, Bears
<1>2. pcall' \in [CpCallers -> PCalls] /\ \A d \in CpCallers \ {c} : pcall'[d] = pcall[d]
  BY <1>1, ZenonT(60) DEF Holds, PCalls, Bearing
<1>3. pcall'[c].pc = l /\ pcall'[c].conn = k
  BY <1>1 DEF Holds, PCalls
<1>4. Bears(c)'
  BY <1>3 DEF Bears, Bearing
<1>5. \A j \in CpConns : c \notin Holding(j) /\ (c \in Holding(j)' <=> j = k)
  BY <1>1, <1>3, CpAssumption DEF Holding
<1>6. \A j \in CpConns : mconn[j].opened => mconn'[j].opened
  OBVIOUS
<1> QED BY <1>1, <1>2, <1>3, <1>4, <1>5, <1>6, CallKeepsBooks

\* A caller that gives its connection k back.
LEMMA GivesBack ==
    ASSUME PoolInv, NEW c \in CpCallers, NEW r \in PCalls,
           pcall[c].pc \in {"send", "await"}, r.pc \in {"done", "lookup"}, r.conn = 0,
           pcall' = [pcall EXCEPT ![c] = r],
           mconn' \in [CpConns -> MConns],
           \A j \in CpConns : mconn'[j].opened = mconn[j].opened,
           mconn'[pcall[c].conn].resv = Released(pcall[c].conn).resv,
           \A j \in CpConns \ {pcall[c].conn} : mconn'[j].resv = mconn[j].resv,
           UNCHANGED <<plist, pending>>
    PROVE  PoolInv'
<1> DEFINE k == pcall[c].conn
<1>1. pcall \in [CpCallers -> PCalls] /\ mconn \in [CpConns -> MConns] /\ k \in CpConns /\ pending \in Nat
  BY DEF PoolInv, PoolTypes, Bears, Bearing
<1>2. pcall' \in [CpCallers -> PCalls] /\ \A d \in CpCallers \ {c} : pcall'[d] = pcall[d]
  BY <1>1
<1>3. pcall'[c].pc \in {"done", "lookup"} /\ pcall'[c].conn = 0
  BY <1>1
<1>4. Bears(c)'
  BY <1>3 DEF Bears, Bearing
<1>5. \A j \in CpConns : c \notin Holding(j)' /\ (c \in Holding(j) <=> j = k)
  BY <1>1, <1>3, CpAssumption DEF Holding
<1>6. mconn[k].resv \in Nat /\ mconn[k].resv > 0
  <2>1. Holding(k) \subseteq CpCallers /\ c \in Holding(k)
    BY <1>1, <1>5 DEF Holding
  <2>2. IsFiniteSet(Holding(k)) /\ Cardinality(Holding(k)) # 0 /\ Cardinality(Holding(k)) \in Nat
    BY <2>1, CpAssumption, FS_Subset, FS_CardinalityType, FS_EmptySet
  <2> QED BY <1>1, <2>2 DEF PoolInv, ReservationsExact
<1>7. mconn'[k].resv = mconn[k].resv - 1
  BY <1>1, <1>6 DEF Released, MConns
<1> QED BY <1>1, <1>2, <1>3, <1>4, <1>5, <1>7, CallKeepsBooks

\* The callers' steps that choose, open or wait for a connection.
LEMMA LookupKeeps ==
    ASSUME PoolInv, NEW c \in CpCallers, Lookup(c)
    PROVE  PoolInv'
<1> DEFINE list == Accepting(plist)
<1>1. pcall[c].pc = "lookup" /\ plist' = Accepting(plist) /\ list \subseteq CpConns
  BY DEF Lookup, Accepting, PoolInv, PoolTypes
<1>2. PICK gone \in SUBSET list :
        LET live == list \ gone
            idle == {k \in live : IsIdle(k)}
            taken == idle # {} \/ (live # {} /\ Cardinality(list) >= CpMax)
            Refused == [k \in CpConns |-> IF k \in gone THEN [mconn[k] EXCEPT !.accepting = FALSE]
                                                        ELSE mconn[k]] IN
        \/ /\ taken
           /\ \E k \in IF idle # {} THEN idle ELSE live :
                 /\ mconn' = [Refused EXCEPT ![k].resv = @ + 1]
                 /\ Holds(c, k, "send")
           /\ UNCHANGED pending
        \/ /\ ~taken /\ Cardinality(list) + pending < CpMax
           /\ pending' = pending + 1
           /\ mconn' = Refused /\ CpGoto(c, "open")
        \/ /\ ~taken /\ Cardinality(list) + pending >= CpMax
           /\ CpGoto(c, IF pending > 0 THEN "wait" ELSE "last")
           /\ mconn' = Refused /\ UNCHANGED pending
  BY DEF Lookup
<1> DEFINE Refused == [k \in CpConns |-> IF k \in gone THEN [mconn[k] EXCEPT !.accepting = FALSE]
                                                       ELSE mconn[k]]
<1>3. /\ mconn \in [CpConns -> MConns] /\ pending \in Nat
      /\ \A k \in list : mconn[k].opened
  BY DEF PoolInv, PoolTypes, PooledOpen, Accepting
<1>4. /\ Refused \in [CpConns -> MConns]
      /\ \A k \in CpConns : Refused[k].opened = mconn[k].opened /\ Refused[k].resv = mconn[k].resv
  BY <1>3 DEF MConns
<1>5. \/ \E k \in list : mconn' = [Refused EXCEPT ![k].resv = @ + 1] /\ Holds(c, k, "send") /\ pending' = pending
      \/ pending' = pending + 1 /\ mconn' = Refused /\ CpGoto(c, "open")
      \/ pending' = pending /\ mconn' = Refused /\ CpGoto(c, IF pending > 0 THEN "wait" ELSE "last")
  BY <1>2
<1> HIDE DEF Refused, list
<1>6. CASE \E k \in list : mconn' = [Refused EXCEPT ![k].resv = @ + 1] /\ Holds(c, k, "send") /\ pending' = pending
  <2>1. PICK k \in list : mconn' = [Refused EXCEPT ![k].resv = @ + 1] /\ Holds(c, k, "send")
    BY <1>6
  <2>2. k \in CpConns /\ mconn[k].opened
    BY <1>1, <1>3
  <2>3. /\ mconn' \in [CpConns -> MConns] /\ mconn'[k].opened /\ mconn'[k].resv = mconn[k].resv + 1
        /\ \A j \in CpConns \ {k} : mconn'[j].opened = mconn[j].opened /\ mconn'[j].resv = mconn[j].resv
    BY <1>3, <1>4, <2>1, <2>2 DEF MConns
  <2> QED BY <1>1, <1>6, <2>1, <2>2, <2>3, Takes DEF Bearing
<1>7. CASE pending' = pending + 1 /\ mconn' = Refused /\ CpGoto(c, "open")
  BY <1>1, <1>3, <1>4, <1>7, EmptyHanded DEF Bearing
<1>8. CASE pending' = pending /\ mconn' = Refused /\ CpGoto(c, IF pending > 0 THEN "wait" ELSE "last")
  BY <1>1, <1>3, <1>4, <1>8, EmptyHanded DEF Bearing
<1> QED BY <1>5, <1>6, <1>7, <1>8

\* Whoever is opening holds one of the slots.
LEMMA OpensCounted ==
    ASSUME PoolInv, NEW c \in CpCallers, pcall[c].pc = "open"
    PROVE  pending - 1 \in Nat
<1>1. Opening \subseteq CpCallers /\ c \in Opening
  BY DEF Opening
<1>2. Cardinality(Opening) # 0 /\ Cardinality(Opening) \in Nat
  BY <1>1, CpAssumption, FS_Subset, FS_CardinalityType, FS_EmptySet
<1> QED BY <1>2 DEF PoolInv, ReservationsExact

\* A pooled connection is chosen and reserved under the lock.
LEMMA ReservesPooled ==
    ASSUME PoolInv, NEW c \in CpCallers, NEW k \in Accepting(plist),
           pcall[c].pc \in {"last", "upgrade"}, ReserveConn(k), Holds(c, k, "send"),
           plist' = plist \/ plist' = Accepting(plist), pending' = pending
    PROVE  PoolInv'
<1>1. k \in CpConns /\ mconn[k].opened /\ mconn \in [CpConns -> MConns]
  BY DEF PoolInv, PoolTypes, PooledOpen, Accepting
<1>2. /\ mconn' \in [CpConns -> MConns] /\ mconn'[k].opened /\ mconn'[k].resv = mconn[k].resv + 1
      /\ \A j \in CpConns \ {k} : mconn'[j].opened = mconn[j].opened /\ mconn'[j].resv = mconn[j].resv
  BY <1>1 DEF ReserveConn, MConns
<1> QED BY <1>1, <1>2, Takes DEF Bearing

LEMMA OpenedKeeps ==
    ASSUME PoolInv, NEW c \in CpCallers, Opened(c)
    PROVE  PoolInv'
<1>1. PICK k \in CpConns : ~mconn[k].opened /\ StartDriver(k) /\ plist' = Pooled(k) /\ Holds(c, k, "fresh")
  BY DEF Opened
<1>2. /\ mconn \in [CpConns -> MConns] /\ pcall \in [CpCallers -> PCalls] /\ pending \in Nat
      /\ pcall[c].pc = "open" /\ pcall[c].conn = 0 /\ pending' = pending - 1
  BY DEF PoolInv, PoolTypes, Bears, Bearing, Opened
<1>3. /\ mconn' \in [CpConns -> MConns] /\ mconn'[k].opened
      /\ \A j \in CpConns : (mconn[j].opened => mconn'[j].opened) /\ mconn'[j].resv = mconn[j].resv
  BY <1>1, <1>2 DEF StartDriver, MConns
<1>4. pcall' \in [CpCallers -> PCalls] /\ \A d \in CpCallers \ {c} : pcall'[d] = pcall[d]
  BY <1>1, <1>2, ZenonT(60) DEF Holds, PCalls, Bearing
<1>5. pcall'[c].pc = "fresh" /\ pcall'[c].conn = k
  BY <1>1, <1>2 DEF Holds, PCalls
<1>6. Bears(c)'
  BY <1>3, <1>5 DEF Bears, Bearing
<1>7. \A j \in CpConns : c \notin Holding(j) /\ c \notin Holding(j)'
  BY <1>2, <1>5, CpAssumption DEF Holding
<1>8. pending' \in Nat
  BY <1>2, OpensCounted
<1> QED BY <1>1, <1>2, <1>3, <1>4, <1>5, <1>6, <1>7, <1>8, CallKeepsBooks

LEMMA AcquireKeeps ==
    ASSUME PoolInv, NEW c \in CpCallers, Acquire(c)
    PROVE  PoolInv'
<1>1. mconn \in [CpConns -> MConns] /\ pcall \in [CpCallers -> PCalls] /\ pending \in Nat
  BY DEF PoolInv, PoolTypes
<1>2. CASE Lookup(c)
  BY <1>2, LookupKeeps
<1>3. CASE WaitOpen(c)
  BY <1>1, <1>3, EmptyHanded DEF WaitOpen, Bearing
<1>4. CASE Opened(c)
  BY <1>4, OpenedKeeps
<1>5. CASE OpenFails(c)
  <2>1. pending' = pending - 1 /\ pending' \in Nat
    BY <1>5, OpensCounted DEF OpenFails
  <2> QED BY <1>1, <1>5, <2>1, EmptyHanded DEF OpenFails, Bearing
<1>6. CASE ReserveFresh(c)
  <2> DEFINE k == pcall[c].conn
  <2>1. pcall[c].pc = "fresh" /\ k \in CpConns /\ mconn[k].opened
    BY <1>6 DEF ReserveFresh, PoolInv, Bears, Bearing
  <2>2. /\ mconn' \in [CpConns -> MConns] /\ mconn'[k].resv = mconn[k].resv + 1
        /\ \A j \in CpConns : mconn'[j].opened = mconn[j].opened
        /\ \A j \in CpConns \ {k} : mconn'[j].resv = mconn[j].resv
    BY <1>1, <1>6, <2>1 DEF ReserveFresh, ReserveConn, MConns
  <2>3. pcall' \in [CpCallers -> PCalls] /\ \A d \in CpCallers \ {c} : pcall'[d] = pcall[d]
    BY <1>1, <1>6 DEF ReserveFresh, CpGoto, PCalls, Bearing
  <2>4. pcall'[c].pc = "send" /\ pcall'[c].conn = k
    BY <1>1, <1>6 DEF ReserveFresh, CpGoto, PCalls
  <2>5. Bears(c)'
    BY <2>1, <2>2, <2>4 DEF Bears, Bearing
  <2>6. \A j \in CpConns : c \notin Holding(j) /\ (c \in Holding(j)' <=> j = k)
    BY <2>1, <2>4 DEF Holding
  <2>7. plist' = plist /\ pending' = pending
    BY <1>6 DEF ReserveFresh
  <2> QED BY <1>1, <2>1, <2>2, <2>3, <2>4, <2>5, <2>6, <2>7, CallKeepsBooks
<1>7. CASE LastResort(c)
  <2>1. pcall[c].pc = "last" /\ plist' = plist /\ pending' = pending
    BY <1>7 DEF LastResort
  <2>2. CASE CpGoto(c, "done") /\ UNCHANGED mconn
    BY <1>1, <2>1, <2>2, EmptyHanded DEF Bearing
  <2>3. CASE \E k \in Accepting(plist) : ReserveConn(k) /\ Holds(c, k, "send")
    <3>1. PICK k \in Accepting(plist) : ReserveConn(k) /\ Holds(c, k, "send")
      BY <2>3
    <3> QED BY <2>1, <3>1, ReservesPooled
  <2> QED BY <1>7, <2>2, <2>3 DEF LastResort
<1> QED BY <1>2, <1>3, <1>4, <1>5, <1>6, <1>7 DEF Acquire

LEMMA ExchangeKeeps ==
    ASSUME PoolInv, NEW c \in CpCallers, Exchange(c)
    PROVE  PoolInv'
<1> DEFINE k == pcall[c].conn
<1>1. mconn \in [CpConns -> MConns] /\ pcall \in [CpCallers -> PCalls] /\ pending \in Nat
  BY DEF PoolInv, PoolTypes
<1>2. pcall[c].pc \in {"send", "await"} => k \in CpConns /\ mconn[k].opened
  BY DEF PoolInv, Bears, Bearing
<1>3. CASE pcall[c].pc = "send" /\ mconn[k].alive /\ SendCmd(c)
  <2>1. mconn' = [mconn EXCEPT ![k].cmds = @ \union {c}] /\ CpGoto(c, "await") /\ UNCHANGED <<plist, pending>>
    BY <1>3 DEF SendCmd
  <2>2. /\ mconn' \in [CpConns -> MConns]
        /\ \A j \in CpConns : mconn'[j].opened = mconn[j].opened /\ mconn'[j].resv = mconn[j].resv
    BY <1>1, <2>1, ZenonT(60) DEF MConns
  <2>3. pcall' \in [CpCallers -> PCalls] /\ \A d \in CpCallers \ {c} : pcall'[d] = pcall[d]
    BY <1>1, <2>1 DEF CpGoto, PCalls, Bearing
  <2>4. pcall'[c].pc = "await" /\ pcall'[c].conn = k
    BY <1>1, <2>1 DEF CpGoto, PCalls
  <2>5. Bears(c)'
    BY <1>2, <1>3, <2>2, <2>4 DEF Bears, Bearing
  <2>6. \A j \in CpConns : c \in Holding(j) <=> c \in Holding(j)'
    BY <1>3, <2>4 DEF Holding
  <2> QED BY <1>1, <1>3, <2>1, <2>2, <2>3, <2>4, <2>5, <2>6, CallKeepsBooks
<1>4. CASE pcall[c].pc = "send" /\ ~mconn[k].alive /\ SendCmd(c)
  <2>1. AfterSendError(c) /\ UNCHANGED <<plist, pending>>
    BY <1>4 DEF SendCmd
  <2>2. PICK r \in PCalls : pcall' = [pcall EXCEPT ![c] = r] /\ r.pc \in {"done", "lookup"} /\ r.conn = 0
    <3> DEFINE r == IF pcall[c].retried THEN [pcall[c] EXCEPT !.pc = "done", !.conn = 0]
                                        ELSE [pc |-> "lookup", conn |-> 0, retried |-> TRUE]
    <3>1. r \in PCalls /\ r.pc \in {"done", "lookup"} /\ r.conn = 0
      BY <1>1 DEF PCalls
    <3>2. pcall' = [pcall EXCEPT ![c] = r]
      BY <1>1, <2>1 DEF AfterSendError
    <3> QED BY <3>1, <3>2
  <2>3. /\ mconn' \in [CpConns -> MConns] /\ mconn'[k].resv = Released(k).resv
        /\ \A j \in CpConns : mconn'[j].opened = mconn[j].opened
        /\ \A j \in CpConns \ {k} : mconn'[j].resv = mconn[j].resv
    <3>1. PICK m \in {Released(k), [Released(k) EXCEPT !.accepting = FALSE]} : mconn' = [mconn EXCEPT ![k] = m]
      BY <2>1 DEF AfterSendError
    <3>2. Released(k) \in MConns /\ Released(k).opened = mconn[k].opened
      BY <1>1, <1>2, <1>4 DEF Released, MConns
    <3>3. m \in MConns /\ m.resv = Released(k).resv /\ m.opened = mconn[k].opened
      BY <3>1, <3>2 DEF MConns
    <3> QED BY <1>1, <1>2, <1>4, <3>1, <3>3
  <2> QED BY <1>4, <2>1, <2>2, <2>3, GivesBack
<1>5. CASE Receive(c)
  <2>1. pcall[c].pc = "await" /\ mconn' = [mconn EXCEPT ![k] = Released(k)] /\ UNCHANGED <<plist, pending>>
    BY <1>5 DEF Receive
  <2>2. PICK r \in PCalls : pcall' = [pcall EXCEPT ![c] = r] /\ r.pc \in {"done", "lookup"} /\ r.conn = 0
    <3> DEFINE r == [pcall[c] EXCEPT !.pc = "done", !.conn = 0]
    <3>1. r \in PCalls /\ r.pc \in {"done", "lookup"} /\ r.conn = 0
      BY <1>1 DEF PCalls
    <3>2. pcall' = [pcall EXCEPT ![c] = r]
      BY <1>1, <1>5 DEF Receive, PCalls
    <3> QED BY <3>1, <3>2
  <2>3. /\ mconn' \in [CpConns -> MConns] /\ mconn'[k].resv = Released(k).resv
        /\ \A j \in CpConns : mconn'[j].opened = mconn[j].opened
        /\ \A j \in CpConns \ {k} : mconn'[j].resv = mconn[j].resv
    BY <1>1, <1>2, <2>1 DEF Released, MConns
  <2> QED BY <2>1, <2>2, <2>3, GivesBack
<1>6. CASE UpgradeLookup(c)
  <2>1. pcall[c].pc = "upgrade" /\ plist' = Accepting(plist) /\ pending' = pending
    BY <1>6 DEF UpgradeLookup
  <2>2. CASE CpGoto(c, "upgrading") /\ UNCHANGED mconn
    BY <1>1, <2>1, <2>2, EmptyHanded DEF Bearing
  <2>3. CASE \E j \in Accepting(plist) : ReserveConn(j) /\ Holds(c, j, "send")
    <3>1. PICK j \in Accepting(plist) : ReserveConn(j) /\ Holds(c, j, "send")
      BY <2>3
    <3> QED BY <2>1, <3>1, ReservesPooled
  <2> QED BY <1>6, <2>2, <2>3 DEF UpgradeLookup
<1>7. CASE Upgrade(c)
  <2>1. pcall[c].pc = "upgrading" /\ pending' = pending
    BY <1>7 DEF Upgrade
  <2>2. CASE CpGoto(c, "done") /\ UNCHANGED <<mconn, plist>>
    BY <1>1, <2>1, <2>2, EmptyHanded DEF Bearing
  <2>3. ASSUME NEW j \in CpConns, ~mconn[j].opened, plist' = Pooled(j), Holds(c, j, "await"),
               mconn' = [mconn EXCEPT ![j] = [opened |-> TRUE, accepting |-> TRUE, alive |-> TRUE,
                                              resv |-> 1, cmds |-> {c}]]
        PROVE  PoolInv'
    <3>1. mconn[j].resv = 0
      <4>1. \A d \in CpCallers : pcall[d].conn # j
        BY <2>3, CpAssumption DEF PoolInv, Bears
      <4>2. Holding(j) = {}
        BY <4>1 DEF Holding
      <4> QED BY <4>2, FS_EmptySet DEF PoolInv, ReservationsExact
    <3>2. /\ mconn' \in [CpConns -> MConns] /\ mconn'[j].opened /\ mconn'[j].resv = mconn[j].resv + 1
          /\ \A i \in CpConns \ {j} : mconn'[i].opened = mconn[i].opened /\ mconn'[i].resv = mconn[i].resv
      BY <1>1, <2>3, <3>1 DEF MConns
    <3> QED BY <2>1, <2>3, <3>2, Takes DEF Bearing
  <2> QED BY <1>7, <2>2, <2>3 DEF Upgrade
<1> QED BY <1>3, <1>4, <1>5, <1>6, <1>7 DEF Exchange, SendCmd

\* A driver's step changes no reservation.
LEMMA DriverKeeps ==
    ASSUME PoolInv, NEW k \in CpConns, DriverReplies(k) \/ DriverRefuses(k) \/ DriverEnds(k)
    PROVE  PoolInv'
<1>1. mconn \in [CpConns -> MConns] /\ UNCHANGED <<plist, pending, pcall>>
  BY DEF PoolInv, PoolTypes, DriverReplies, DriverRefuses, DriverEnds
<1>2. PICK m \in MConns : m.opened = mconn[k].opened /\ m.resv = mconn[k].resv /\ mconn' = [mconn EXCEPT ![k] = m]
  <2>1. CASE DriverReplies(k)
    <3>1. PICK c \in mconn[k].cmds : mconn' = [mconn EXCEPT ![k].cmds = @ \ {c}]
      BY <2>1 DEF DriverReplies
    <3>2. [mconn[k] EXCEPT !.cmds = @ \ {c}] \in MConns
      BY <1>1 DEF MConns
    <3> QED BY <1>1, <3>1, <3>2 DEF MConns
  <2>2. CASE DriverRefuses(k)
    <3>1. [mconn[k] EXCEPT !.accepting = FALSE] \in MConns
      BY <1>1 DEF MConns
    <3> QED BY <1>1, <2>2, <3>1 DEF MConns, DriverRefuses
  <2>3. CASE DriverEnds(k)
    <3>1. [mconn[k] EXCEPT !.alive = FALSE, !.accepting = FALSE, !.cmds = {}] \in MConns
      BY <1>1 DEF MConns
    <3> QED BY <1>1, <2>3, <3>1 DEF MConns, DriverEnds
  <2> QED BY <2>1, <2>2, <2>3
<1>3. /\ mconn' \in [CpConns -> MConns]
      /\ \A j \in CpConns : mconn'[j].opened = mconn[j].opened /\ mconn'[j].resv = mconn[j].resv
  BY <1>1, <1>2
<1>4. PoolTypes' /\ PooledOpen'
  BY <1>1, <1>3 DEF PoolInv, PoolTypes, PooledOpen
<1>5. \A c \in CpCallers : Bears(c)'
  BY <1>1, <1>3 DEF PoolInv, Bears
<1>6. ReservationsExact'
  BY <1>1, <1>3 DEF PoolInv, ReservationsExact, Holding, Opening
<1> QED BY <1>4, <1>5, <1>6 DEF PoolInv

\* For any number of callers and connections and every cap, the reservations of a
\* connection are the requests that hold it, get_h2_conn()'s opens in progress are
\* counted exactly, and the pool never exceeds max_connections_per_host.
THEOREM ReservationsStayExact == CpSpec => []ReservationsExact
<1>1. CpInit => PoolInv
  <2> SUFFICES ASSUME CpInit PROVE PoolInv
    OBVIOUS
  <2>1. PoolTypes /\ PooledOpen
    BY FS_EmptySet DEF CpInit, PoolTypes, PooledOpen, MConns, PCalls
  <2>2. \A c \in CpCallers : Bears(c)
    BY DEF CpInit, Bears, Bearing
  <2>3. Opening = {} /\ \A k \in CpConns : Holding(k) = {}
    BY CpAssumption DEF CpInit, Opening, Holding
  <2>4. pending = 0 /\ plist = {} /\ \A k \in CpConns : mconn[k].resv = 0
    BY DEF CpInit
  <2>5. Cardinality({}) = 0 /\ 0 <= CpMax
    BY FS_EmptySet, CpAssumption
  <2>6. ReservationsExact
    BY <2>3, <2>4, <2>5 DEF ReservationsExact
  <2> QED BY <2>1, <2>2, <2>6 DEF PoolInv
<1>2. PoolInv /\ [CpNext]_cpvars => PoolInv'
  <2> SUFFICES ASSUME PoolInv, [CpNext]_cpvars PROVE PoolInv'
    OBVIOUS
  <2>1. ASSUME NEW c \in CpCallers, Ask(c) PROVE PoolInv'
    <3>1. mconn \in [CpConns -> MConns] /\ pending \in Nat
      BY DEF PoolInv, PoolTypes
    <3> QED BY <2>1, <3>1, EmptyHanded DEF Ask, Bearing
  <2>2. CASE UNCHANGED cpvars
    BY <2>2 DEF cpvars, PoolInv, PoolTypes, PooledOpen, Bears, ReservationsExact, Holding, Opening
  <2> QED BY <2>1, <2>2, AcquireKeeps, ExchangeKeeps, DriverKeeps DEF CpNext
<1>3. PoolInv => ReservationsExact
  BY DEF PoolInv
<1> QED BY <1>1, <1>2, <1>3, PTL DEF CpSpec

-----------------------------------------------------------------------------
(***************************************************************************)
(* CallsKeptApart for any callers, connections, origins and requests, and  *)
(* every retry policy and redirect limit.  It is inductive once each       *)
(* connection is known to be free, at one place of the pool, or with one   *)
(* caller; that what is asked on it is the request of the caller that      *)
(* awaits it; and that a POST that may still be sent has not been          *)
(* executed.                                                               *)
(***************************************************************************)
InExchange == {"probe", "send", "await"}
Unsent == {"idle", "take", "probe", "open", "send"}
Calls == [pc : InExchange \union {"idle", "take", "open", "reopen", "failed", "answered", "returned"},
          method : CeMethods, body : {"none", "bytes", "stream"}, had : BOOLEAN,
          origin : CeOrigins \union {NoOrigin}, cred : BOOLEAN, depth : Nat, attempt : Nat,
          conn : CeConns \union {NoConn}, reused : BOOLEAN, err : {"none", "Io", "Protocol", "UnexpectedEof", "Canceled", "Timeout"},
          answer : CeCallers \union {"none"}]
HConns == [origin : CeOrigins \union {NoOrigin}, open : BOOLEAN, own : BOOLEAN, asked : Seq(CeCallers),
           done : Nat, cut : BOOLEAN]

ExecTypes ==
    /\ call \in [CeCallers -> Calls]
    /\ hconn \in [CeConns -> HConns]
    /\ hpool \in [CeOrigins -> Seq(CeConns)]
    /\ posts \in [CeCallers -> Nat]
    /\ creds \in [CeCallers -> SUBSET CeOrigins]

\* Connection k is at rest, for origin o.
Resting(k, o) == hconn[k].origin = o /\ ~hconn[k].own /\ hconn[k].asked = <<>> /\ hconn[k].done = 0

\* What a caller holds, and what is on it.
CallKept(c) ==
    LET k == call[c].conn IN
    /\ call[c].answer \in {"none", c}
    /\ call[c].pc \notin {"idle", "returned"} => call[c].origin \in CeOrigins
    /\ IF call[c].pc \in InExchange THEN k \in CeConns /\ hconn[k].origin = call[c].origin ELSE k = NoConn
    /\ call[c].pc \in {"probe", "send"} => Resting(k, call[c].origin)
    /\ call[c].pc = "await" => IF hconn[k].open THEN hconn[k].asked = <<c>> ELSE hconn[k].asked \in {<<>>, <<c>>}

\* What is asked on a connection is asked by the caller that awaits it.
AskedKept(k) ==
    /\ hconn[k].done <= Len(hconn[k].asked)
    /\ hconn[k].asked # <<>> => \E c \in CeCallers : call[c].pc = "await" /\ call[c].conn = k

\* A POST that may still be sent, or whose answer is open, was not executed.
PostKept(c) ==
    LET k == call[c].conn IN
    /\ posts[c] <= 1
    /\ call[c].pc = "idle" => posts[c] = 0
    /\ call[c].method = "POST" =>
          /\ call[c].pc # "reopen"
          /\ call[c].pc \in Unsent => posts[c] = 0
          /\ call[c].pc = "await" /\ hconn[k].open /\ hconn[k].done = 0 => posts[c] = 0

CredKept(c) ==
    /\ call[c].pc = "idle" => creds[c] = {}
    /\ call[c].cred => creds[c] \subseteq {call[c].origin}
    /\ \E o \in CeOrigins \union {NoOrigin} : creds[c] \subseteq {o}

HeldApart == \A c, d \in CeCallers : call[c].conn = call[d].conn /\ call[c].conn # NoConn => c = d

PoolKept ==
    \A o \in CeOrigins : \A i \in 1..Len(hpool[o]) :
       LET k == hpool[o][i] IN
       /\ Resting(k, o)
       /\ \A c \in CeCallers : call[c].conn # k
       /\ \A p \in CeOrigins : \A j \in 1..Len(hpool[p]) : hpool[p][j] = k => p = o /\ j = i

ExecInv ==
    /\ ExecTypes
    /\ \A c \in CeCallers : CallKept(c) /\ PostKept(c) /\ CredKept(c)
    /\ \A k \in CeConns : AskedKept(k)
    /\ HeldApart /\ PoolKept

\* A connection that a caller holds is free to nobody and not at rest.
LEMMA HeldIsApart ==
    ASSUME ExecInv, NEW c \in CeCallers, call[c].pc \in InExchange
    PROVE  /\ call[c].conn \in CeConns /\ call[c].conn \notin Free
           /\ call[c].origin \in CeOrigins /\ hconn[call[c].conn].origin = call[c].origin
           /\ \A d \in CeCallers \ {c} : call[d].conn # call[c].conn
           /\ \A o \in CeOrigins : \A i \in 1..Len(hpool[o]) : hpool[o][i] # call[c].conn
<1>1. CallKept(c) /\ HeldApart /\ PoolKept
  BY DEF ExecInv
<1>2. /\ call[c].conn \in CeConns /\ call[c].origin \in CeOrigins
      /\ hconn[call[c].conn].origin = call[c].origin
  BY <1>1 DEF CallKept, InExchange
<1>3. call[c].conn # NoConn /\ NoOrigin \notin CeOrigins
  BY <1>2, CeAssumption DEF NoConn, NoOrigin
<1>4. call[c].conn \notin Free
  BY <1>2, <1>3 DEF Free
<1>5. \A d \in CeCallers \ {c} : call[d].conn # call[c].conn
  BY <1>1, <1>3 DEF HeldApart
<1>6. \A o \in CeOrigins : \A i \in 1..Len(hpool[o]) : hpool[o][i] # call[c].conn
  BY <1>1 DEF PoolKept
<1> QED BY <1>2, <1>4, <1>5, <1>6

LEMMA FreeIsApart ==
    ASSUME ExecInv, NEW k \in Free
    PROVE  /\ k \in CeConns /\ k # NoConn
           /\ \A d \in CeCallers : call[d].conn # k
           /\ \A o \in CeOrigins : \A i \in 1..Len(hpool[o]) : hpool[o][i] # k
<1>1. k \in CeConns /\ hconn[k].origin = NoOrigin /\ k # NoConn /\ NoOrigin \notin CeOrigins
  BY CeAssumption DEF Free, NoConn, NoOrigin
<1>2. ASSUME NEW d \in CeCallers PROVE call[d].conn # k
  <2>1. CASE call[d].pc \in InExchange
    BY <1>1, <2>1, HeldIsApart
  <2>2. CASE call[d].pc \notin InExchange
    BY <1>1, <2>2 DEF ExecInv, CallKept
  <2> QED BY <2>1, <2>2
<1>3. \A o \in CeOrigins : \A i \in 1..Len(hpool[o]) : hpool[o][i] # k
  BY <1>1 DEF ExecInv, PoolKept, Resting
<1> QED BY <1>1, <1>2, <1>3

\* Other callers see nothing of a step that leaves the connections they hold alone.
LEMMA OthersUntouched ==
    ASSUME ExecInv, NEW d \in CeCallers, call'[d] = call[d], posts'[d] = posts[d], creds'[d] = creds[d],
           call[d].pc \in InExchange => hconn'[call[d].conn] = hconn[call[d].conn]
    PROVE  CallKept(d)' /\ PostKept(d)' /\ CredKept(d)'
<1>1. CallKept(d) /\ PostKept(d) /\ CredKept(d)
  BY DEF ExecInv
<1>2. CallKept(d)'
  BY <1>1 DEF CallKept, Resting, InExchange
<1>3. PostKept(d)'
  BY <1>1 DEF PostKept, InExchange
<1>4. CredKept(d)'
  BY <1>1 DEF CredKept
<1> QED BY <1>2, <1>3, <1>4

\* A caller's step that keeps the pool, and touches only a connection it holds or comes
\* to hold from the free ones.
LEMMA OwnStep ==
    ASSUME ExecInv, NEW c \in CeCallers, ExecTypes', hpool' = hpool,
           \A d \in CeCallers \ {c} : call'[d] = call[d] /\ posts'[d] = posts[d] /\ creds'[d] = creds[d],
           call'[c].conn \in {NoConn} \union Free \union (IF call[c].pc \in InExchange THEN {call[c].conn} ELSE {}),
           \A k \in CeConns : \/ hconn'[k] = hconn[k]
                              \/ k \in Free /\ k = call'[c].conn
                              \/ k = call[c].conn /\ call[c].pc \in InExchange,
           CallKept(c)', PostKept(c)', CredKept(c)',
           call[c].pc = "await" /\ call'[c] # call[c] => hconn'[call[c].conn].asked = <<>>,
           \A k \in CeConns : hconn'[k] # hconn[k] => AskedKept(k)'
    PROVE  ExecInv'
<1>1. ASSUME NEW d \in CeCallers PROVE CallKept(d)' /\ PostKept(d)' /\ CredKept(d)'
  <2>1. CASE d = c
    BY <2>1
  <2>2. CASE d # c
    <3>1. call'[d] = call[d] /\ posts'[d] = posts[d] /\ creds'[d] = creds[d]
      BY <2>2
    <3>2. ASSUME call[d].pc \in InExchange PROVE hconn'[call[d].conn] = hconn[call[d].conn]
      <4>1. call[d].conn \in CeConns /\ call[d].conn \notin Free
        BY <3>2, HeldIsApart
      <4>2. call[c].pc \in InExchange => call[d].conn # call[c].conn
        BY <2>2, HeldIsApart
      <4> QED BY <4>1, <4>2
    <3> QED BY <3>1, <3>2, OthersUntouched
  <2> QED BY <2>1, <2>2
<1>2. ASSUME NEW k \in CeConns PROVE AskedKept(k)'
  <2>1. CASE hconn'[k] # hconn[k]
    BY <2>1
  <2>2. CASE hconn'[k] = hconn[k]
    <3>1. AskedKept(k)
      BY DEF ExecInv
    <3>2. ASSUME hconn[k].asked # <<>> PROVE \E d \in CeCallers : call'[d].pc = "await" /\ call'[d].conn = k
      <4>1. PICK d \in CeCallers : call[d].pc = "await" /\ call[d].conn = k
        BY <3>1, <3>2 DEF AskedKept
      <4>2. CASE d # c
        BY <4>1, <4>2
      <4>3. CASE d = c
        <5>1. call'[c] = call[c]
          BY <2>2, <3>2, <4>1, <4>3
        <5> QED BY <4>1, <4>3, <5>1
      <4> QED BY <4>2, <4>3
    <3> QED BY <2>2, <3>1, <3>2 DEF AskedKept
  <2> QED BY <2>1, <2>2
<1>3. HeldApart'
  <2> SUFFICES ASSUME NEW d \in CeCallers, NEW e \in CeCallers, call'[d].conn = call'[e].conn, call'[d].conn # NoConn,
                      d # e
               PROVE  FALSE
    BY DEF HeldApart
  <2>1. CASE d # c /\ e # c
    BY <2>1 DEF ExecInv, HeldApart
  <2>2. ASSUME NEW f \in CeCallers, f # c, call'[f].conn = call'[c].conn, call'[c].conn # NoConn PROVE FALSE
    <3>1. call'[f] = call[f]
      BY <2>2
    <3>2. CASE call'[c].conn \in Free
      BY <2>2, <3>1, <3>2, FreeIsApart
    <3>3. CASE call[c].pc \in InExchange /\ call'[c].conn = call[c].conn
      BY <2>2, <3>1, <3>3, HeldIsApart
    <3> QED BY <2>2, <3>2, <3>3
  <2> QED BY <2>1, <2>2
<1>4. PoolKept'
  <2> SUFFICES ASSUME NEW o \in CeOrigins, NEW i \in 1..Len(hpool[o])
               PROVE  /\ Resting(hpool[o][i], o)'
                      /\ \A d \in CeCallers : call'[d].conn # hpool[o][i]
                      /\ \A p \in CeOrigins : \A j \in 1..Len(hpool[p]) : hpool[p][j] = hpool[o][i] => p = o /\ j = i
    BY DEF PoolKept
  <2> DEFINE k == hpool[o][i]
  <2>0. hpool[o] \in Seq(CeConns)
    BY DEF ExecInv, ExecTypes
  <2>1. k \in CeConns
    BY <2>0
  <2>2. /\ Resting(k, o) /\ \A d \in CeCallers : call[d].conn # k
        /\ \A p \in CeOrigins : \A j \in 1..Len(hpool[p]) : hpool[p][j] = k => p = o /\ j = i
    BY DEF ExecInv, PoolKept
  <2>3. k \notin Free /\ k # NoConn
    BY <2>1, FreeIsApart, CeAssumption DEF NoConn
  <2>4. hconn'[k] = hconn[k]
    BY <2>1, <2>2, <2>3
  <2>5. \A d \in CeCallers : call'[d].conn # k
    BY <2>2, <2>3
  <2> QED BY <2>2, <2>4, <2>5 DEF Resting
<1> QED BY <1>1, <1>2, <1>3, <1>4 DEF ExecInv

\* What a step of caller c leaves alone is another caller's.
LEMMA ExecuteStep ==
    ASSUME ExecInv, NEW c \in CeCallers, Execute(c)
    PROVE  ExecInv'
<1>1. PICK r \in CeRequests :
         call' = [call EXCEPT ![c] = [Idle EXCEPT !.pc = "take", !.method = r.method, !.body = r.body,
                                      !.had = r.body # "none", !.origin = r.origin, !.cred = TRUE]]
  BY DEF Execute
<1>2. ExecTypes /\ CallKept(c) /\ PostKept(c) /\ CredKept(c) /\ call[c].pc = "idle"
  BY DEF ExecInv, Execute
<1>3. r.method \in CeMethods /\ r.body \in {"none", "bytes", "stream"} /\ r.origin \in CeOrigins
  BY CeAssumption
<1>4. UNCHANGED <<hconn, hpool, posts, creds>>
  BY DEF Execute
<1>5. ExecTypes' /\ call'[c].pc = "take" /\ call'[c].conn = NoConn /\ call'[c].answer = "none"
      /\ call'[c].origin = r.origin /\ (\A d \in CeCallers \ {c} : call'[d] = call[d])
  BY <1>1, <1>2, <1>3, <1>4 DEF ExecTypes, Calls, Idle, InExchange, NoConn
<1>6. CallKept(c)'
  BY <1>3, <1>5 DEF CallKept, InExchange
<1>7. PostKept(c)'
  BY <1>2, <1>4, <1>5 DEF PostKept
<1>8. CredKept(c)'
  BY <1>2, <1>3, <1>4, <1>5 DEF CredKept
<1> QED BY <1>2, <1>4, <1>5, <1>6, <1>7, <1>8, OwnStep

\* The caller's own fields change, and no connection does.
LEMMA CallStep ==
    ASSUME ExecInv, NEW c \in CeCallers, NEW x \in Calls, call' = [call EXCEPT ![c] = x],
           hconn' = hconn, hpool' = hpool, creds' = creds,
           posts' = posts \/ posts' = [posts EXCEPT ![c] = 0],
           call[c].pc \notin {"idle", "await"},
           x.answer \in {"none", c},
           x.pc # "idle", x.pc \notin {"idle", "returned"} => x.origin \in CeOrigins,
           IF x.pc = "send" THEN call[c].pc \in {"probe", "send"} /\ x.conn = call[c].conn /\ x.origin = call[c].origin
                            ELSE x.pc \notin InExchange /\ x.conn = NoConn,
           x.method = "POST" => /\ x.pc # "reopen"
                                /\ x.pc \in Unsent => (call[c].method = "POST" /\ call[c].pc \in Unsent) \/ posts'[c] = 0,
           x.cred => call[c].cred /\ x.origin = call[c].origin
    PROVE  ExecInv'
<1>1. ExecTypes /\ CallKept(c) /\ PostKept(c) /\ CredKept(c)
  BY DEF ExecInv
<1>2. call'[c] = x /\ (\A d \in CeCallers \ {c} : call'[d] = call[d] /\ posts'[d] = posts[d] /\ creds'[d] = creds[d])
  BY <1>1 DEF ExecTypes
<1>3. ExecTypes'
  BY <1>1 DEF ExecTypes
<1>4. CallKept(c)'
  BY <1>1, <1>2 DEF CallKept, InExchange, Resting
<1>5. posts'[c] = posts[c] \/ posts'[c] = 0
  BY <1>1 DEF ExecTypes
<1>6. PostKept(c)'
  BY <1>1, <1>2, <1>5 DEF PostKept, InExchange, Unsent
<1>7. CredKept(c)'
  BY <1>1, <1>2 DEF CredKept
<1>8. call'[c].conn \in {NoConn} \union Free \union (IF call[c].pc \in InExchange THEN {call[c].conn} ELSE {})
  BY <1>2 DEF InExchange
<1> QED BY <1>2, <1>3, <1>4, <1>6, <1>7, <1>8, OwnStep

LEMMA RetryStep ==
    ASSUME ExecInv, NEW c \in CeCallers, Retry(c)
    PROVE  ExecInv'
<1>1. ExecTypes /\ CallKept(c) /\ PostKept(c) /\ CredKept(c) /\ call[c].pc = "failed" /\ call[c] \in Calls
  BY DEF ExecInv, ExecTypes, Retry
<1>2. UNCHANGED <<hconn, hpool, posts, creds>>
  BY DEF Retry
<1>3. CASE ShouldRetry(c)
  <2>0. PICK n \in Nat : n = call[c].attempt + 1
    BY <1>1 DEF Calls
  <2> DEFINE x == [call[c] EXCEPT !.pc = "take", !.attempt = n, !.err = "none"]
  <2>1. call' = [call EXCEPT ![c] = x]
    BY <1>1, <1>3, <2>0 DEF Retry, ExecTypes
  <2>2. x \in Calls
    BY <1>1 DEF Calls
  <2>3. call[c].method # "POST"
    BY <1>3 DEF ShouldRetry, Idempotent
  <2>4. /\ x.pc = "take" /\ x.answer = call[c].answer /\ x.origin = call[c].origin /\ x.conn = call[c].conn
        /\ x.method = call[c].method /\ x.cred = call[c].cred
    BY <1>1 DEF Calls
  <2>5. /\ call[c].answer \in {"none", c} /\ call[c].origin \in CeOrigins /\ call[c].conn = NoConn
    BY <1>1 DEF CallKept, InExchange
  <2> HIDE DEF x
  <2> QED BY <1>1, <1>2, <2>1, <2>2, <2>3, <2>4, <2>5, CallStep DEF InExchange
<1>4. CASE ~ShouldRetry(c)
  <2> DEFINE x == [Idle EXCEPT !.pc = "returned"]
  <2>1. call' = [call EXCEPT ![c] = x]
    BY <1>4 DEF Retry
  <2>2. x \in Calls /\ x.pc = "returned" /\ x.answer = "none" /\ x.conn = NoConn /\ x.method = "GET" /\ x.cred = FALSE
    BY DEF Calls, Idle, NoConn, CeMethods
  <2> HIDE DEF x
  <2> QED BY <1>1, <1>2, <2>1, <2>2, CallStep DEF InExchange
<1> QED BY <1>3, <1>4

LEMMA RedirectStep ==
    ASSUME ExecInv, NEW c \in CeCallers, Redirect(c)
    PROVE  ExecInv'
<1>1. ExecTypes /\ CallKept(c) /\ PostKept(c) /\ CredKept(c) /\ call[c].pc = "answered" /\ call[c] \in Calls
  BY DEF ExecInv, ExecTypes, Redirect
<1>2. UNCHANGED <<hconn, hpool, creds>>
  BY DEF Redirect
<1>3. call[c].answer \in {"none", c} /\ call[c].origin \in CeOrigins /\ call[c].conn = NoConn
  BY <1>1 DEF CallKept, InExchange
<1>4. CASE Returns(c) /\ UNCHANGED posts
  <2> DEFINE x == [Idle EXCEPT !.pc = "returned", !.answer = call[c].answer]
  <2>1. call' = [call EXCEPT ![c] = x]
    BY <1>4 DEF Returns
  <2>2. x \in Calls /\ x.pc = "returned" /\ x.answer = call[c].answer /\ x.conn = NoConn /\ x.method = "GET"
        /\ x.cred = FALSE
    BY <1>1 DEF Calls, Idle, NoConn, CeMethods
  <2> HIDE DEF x
  <2> QED BY <1>1, <1>2, <1>3, <1>4, <2>1, <2>2, CallStep DEF InExchange
<1>5. ASSUME NEW status \in {302, 303, 307}, NEW to \in CeOrigins,
             ~(call[c].depth >= CeRedirects \/ (NextMethod(call[c].method, status) = call[c].method /\ call[c].had)),
             call' = [call EXCEPT ![c] = Hop(c, NextMethod(call[c].method, status), to)],
             posts' = IF NextMethod(call[c].method, status) = "POST" THEN [posts EXCEPT ![c] = 0] ELSE posts
      PROVE  ExecInv'
  <2>0. PICK n \in Nat : n = call[c].depth + 1
    BY <1>1 DEF Calls
  <2>1. PICK keeps \in BOOLEAN : keeps = IF KeepsCredentials(call[c].origin, to) THEN call[c].cred ELSE FALSE
    BY <1>1 DEF Calls
  <2>2. PICK m \in CeMethods : m = NextMethod(call[c].method, status)
    BY <1>1 DEF NextMethod, Calls, CeMethods
  <2>3. m = "POST" => call[c].method = "POST" /\ posts'[c] = 0
    BY <1>1, <1>5, <2>2 DEF ExecTypes, NextMethod
  <2>4. keeps => call[c].cred /\ to = call[c].origin
    BY <2>1 DEF KeepsCredentials
  <2> DEFINE x == [Idle EXCEPT !.pc = "take", !.method = m, !.origin = to, !.depth = n, !.cred = keeps]
  <2>5. call' = [call EXCEPT ![c] = x]
    BY <1>5, <2>0, <2>1, <2>2 DEF Hop
  <2>6. /\ x \in Calls /\ x.pc = "take" /\ x.answer = "none" /\ x.origin = to /\ x.conn = NoConn
        /\ x.method = m /\ x.cred = keeps
    BY DEF Calls, Idle, NoConn
  <2> HIDE DEF x
  <2> QED BY <1>1, <1>2, <1>3, <1>5, <2>2, <2>3, <2>4, <2>5, <2>6, CallStep DEF InExchange
<1> QED BY <1>4, <1>5 DEF Redirect

\* A caller's connection is dropped: failed, or replaced.
LEMMA DropStep ==
    ASSUME ExecInv, NEW c \in CeCallers, NEW x \in Calls, call' = [call EXCEPT ![c] = x],
           call[c].pc \in InExchange, Discard(call[c].conn), hpool' = hpool, creds' = creds,
           posts' \in [CeCallers -> Nat], \A d \in CeCallers \ {c} : posts'[d] = posts[d],
           posts'[c] <= 1,
           x.pc \in {"take", "failed", "reopen"}, x.conn = NoConn, x.answer = call[c].answer,
           x.origin = call[c].origin, x.method = call[c].method, x.cred = call[c].cred,
           x.method = "POST" => x.pc # "reopen" /\ (x.pc = "take" => posts'[c] = 0)
    PROVE  ExecInv'
<1> PICK k \in CeConns : k = call[c].conn
  BY HeldIsApart
<1>1. ExecTypes /\ CallKept(c) /\ PostKept(c) /\ CredKept(c)
  BY DEF ExecInv
<1>2. k \in CeConns /\ call[c].origin \in CeOrigins
  BY HeldIsApart
<1>3. hconn' = [hconn EXCEPT ![k] = Unused] /\ Unused \in HConns
  BY DEF Discard, HConns, Unused, Unspoken
<1>4. call'[c] = x /\ (\A d \in CeCallers \ {c} : call'[d] = call[d] /\ posts'[d] = posts[d] /\ creds'[d] = creds[d])
  BY <1>1 DEF ExecTypes
<1>5. ExecTypes'
  BY <1>1, <1>2, <1>3 DEF ExecTypes
<1>6. hconn'[k] = Unused /\ \A j \in CeConns \ {k} : hconn'[j] = hconn[j]
  BY <1>1, <1>2, <1>3 DEF ExecTypes
<1>7. CallKept(c)'
  BY <1>1, <1>2, <1>4 DEF CallKept, InExchange
<1>8. PostKept(c)'
  BY <1>4 DEF PostKept, InExchange, Unsent
<1>9. CredKept(c)'
  BY <1>1, <1>4 DEF CredKept
<1>10. AskedKept(k)'
  BY <1>6 DEF AskedKept, Unused, Unspoken
<1>11. hconn'[k].asked = <<>>
  BY <1>6 DEF Unused, Unspoken
<1>12. \A j \in CeConns : hconn'[j] # hconn[j] => j = k
  BY <1>6
<1>13. \A j \in CeConns : \/ hconn'[j] = hconn[j]
                          \/ j \in Free /\ j = call'[c].conn
                          \/ j = call[c].conn /\ call[c].pc \in InExchange
  BY <1>12
<1>14. \A j \in CeConns : hconn'[j] # hconn[j] => AskedKept(j)'
  BY <1>10, <1>12
<1> QED BY <1>4, <1>5, <1>7, <1>8, <1>9, <1>11, <1>13, <1>14, OwnStep

LEMMA ProbeStep ==
    ASSUME ExecInv, NEW c \in CeCallers, ProbeConn(c)
    PROVE  ExecInv'
<1>1. ExecTypes /\ CallKept(c) /\ PostKept(c) /\ call[c].pc = "probe" /\ call[c] \in Calls
  BY DEF ExecInv, ExecTypes, ProbeConn
<1>2. /\ UNCHANGED <<hpool, posts, creds>> /\ posts \in [CeCallers -> Nat]
      /\ call[c].answer \in {"none", c} /\ call[c].origin \in CeOrigins
      /\ call[c].method = "POST" => posts[c] = 0
      /\ posts[c] <= 1
  BY <1>1 DEF ProbeConn, CallKept, PostKept, Unsent, ExecTypes
<1>3. CASE call' = [call EXCEPT ![c].pc = "send", ![c].reused = TRUE] /\ UNCHANGED hconn
  <2> DEFINE x == [call[c] EXCEPT !.pc = "send", !.reused = TRUE]
  <2>1. call' = [call EXCEPT ![c] = x]
    BY <1>1, <1>3 DEF ExecTypes
  <2>2. /\ x \in Calls /\ x.pc = "send" /\ x.answer = call[c].answer /\ x.origin = call[c].origin
        /\ x.conn = call[c].conn /\ x.method = call[c].method /\ x.cred = call[c].cred
    BY <1>1 DEF Calls, InExchange
  <2> HIDE DEF x
  <2> QED BY <1>1, <1>2, <1>3, <2>1, <2>2, CallStep DEF Unsent
<1>4. CASE call' = [call EXCEPT ![c].pc = "take", ![c].conn = NoConn] /\ Discard(call[c].conn)
  <2> DEFINE x == [call[c] EXCEPT !.pc = "take", !.conn = NoConn]
  <2>1. call' = [call EXCEPT ![c] = x]
    BY <1>1, <1>4 DEF ExecTypes
  <2>2. /\ x \in Calls /\ x.pc = "take" /\ x.answer = call[c].answer /\ x.origin = call[c].origin
        /\ x.conn = NoConn /\ x.method = call[c].method /\ x.cred = call[c].cred
    BY <1>1 DEF Calls, InExchange
  <2>3. call[c].pc \in InExchange
    BY <1>1 DEF InExchange
  <2> HIDE DEF x
  <2> QED BY <1>1, <1>2, <1>4, <2>1, <2>2, <2>3, DropStep
<1> QED BY <1>3, <1>4 DEF ProbeConn

\* Fails(): what it leaves of the caller.
LEMMA FailsIsDrop ==
    ASSUME ExecTypes, NEW c \in CeCallers, NEW l \in {"failed", "reopen"},
           NEW e \in {"none", "Io", "Protocol", "UnexpectedEof", "Canceled", "Timeout"}, Fails(c, l, e)
    PROVE  \E x \in Calls :
              /\ call' = [call EXCEPT ![c] = x]
              /\ x.pc = l /\ x.answer = call[c].answer /\ x.origin = call[c].origin
              /\ x.conn = NoConn /\ x.method = call[c].method /\ x.cred = call[c].cred
<1> DEFINE x == [call[c] EXCEPT !.pc = l, !.err = e, !.conn = NoConn, !.reused = FALSE]
<1>1. call[c] \in Calls
  BY DEF ExecTypes
<1>2. call' = [call EXCEPT ![c] = x]
  BY <1>1 DEF Fails, ExecTypes
<1>3. x \in Calls
  BY <1>1, ZenonT(60) DEF Calls, InExchange
<1>4. /\ x.pc = l /\ x.answer = call[c].answer /\ x.origin = call[c].origin
      /\ x.conn = NoConn /\ x.method = call[c].method /\ x.cred = call[c].cred
  BY <1>1 DEF Calls
<1> QED BY <1>2, <1>3, <1>4

LEMMA OpenStep ==
    ASSUME ExecInv, NEW c \in CeCallers, OpenConn(c)
    PROVE  ExecInv'
<1>1. /\ ExecTypes /\ CallKept(c) /\ PostKept(c) /\ CredKept(c) /\ call[c].pc \in {"open", "reopen"}
      /\ call[c] \in Calls
  BY DEF ExecInv, ExecTypes, OpenConn
<1>2. /\ UNCHANGED <<hpool, posts, creds>> /\ posts \in [CeCallers -> Nat]
      /\ call[c].answer \in {"none", c} /\ call[c].origin \in CeOrigins
      /\ call[c].method = "POST" => posts[c] = 0
      /\ posts[c] <= 1
  BY <1>1 DEF OpenConn, CallKept, PostKept, Unsent, ExecTypes
<1>3. CASE Fails(c, "failed", "Io") /\ UNCHANGED hconn
  <2>1. PICK x \in Calls :
              /\ call' = [call EXCEPT ![c] = x]
              /\ x.pc = "failed" /\ x.answer = call[c].answer /\ x.origin = call[c].origin
              /\ x.conn = NoConn /\ x.method = call[c].method /\ x.cred = call[c].cred
    BY <1>1, <1>3, FailsIsDrop
  <2> QED BY <1>1, <1>2, <1>3, <2>1, CallStep DEF InExchange, Unsent
<1>4. ASSUME NEW k \in Free,
             hconn' = [hconn EXCEPT ![k] = Unspoken(call[c].origin, TRUE)],
             call' = [call EXCEPT ![c].pc = "send", ![c].conn = k, ![c].reused = FALSE]
      PROVE  ExecInv'
  <2> DEFINE x == [call[c] EXCEPT !.pc = "send", !.conn = k, !.reused = FALSE]
             h == Unspoken(call[c].origin, TRUE)
  <2>0. k \in CeConns /\ k # NoConn /\ call[c].pc \notin InExchange
    BY <1>1, FreeIsApart DEF InExchange
  <2>1. call' = [call EXCEPT ![c] = x] /\ hconn' = [hconn EXCEPT ![k] = h]
    BY <1>1, <1>4 DEF ExecTypes
  <2>2. /\ x \in Calls /\ x.pc = "send" /\ x.answer = call[c].answer /\ x.origin = call[c].origin
        /\ x.conn = k /\ x.method = call[c].method /\ x.cred = call[c].cred
    BY <1>1, <2>0 DEF Calls, InExchange
  <2>3. /\ h \in HConns /\ h.origin = call[c].origin /\ h.own = FALSE /\ h.asked = <<>> /\ h.done = 0
    <3>1. <<>> \in Seq(CeCallers)
      OBVIOUS
    <3> QED BY <1>2, <3>1 DEF Unspoken, HConns
  <2> HIDE DEF x, h
  <2>4. /\ call'[c] = x /\ hconn'[k] = h /\ (\A j \in CeConns \ {k} : hconn'[j] = hconn[j])
        /\ \A d \in CeCallers \ {c} : call'[d] = call[d]
    BY <1>1, <2>0, <2>1 DEF ExecTypes
  <2>5. ExecTypes'
    BY <1>1, <1>2, <2>0, <2>1, <2>2, <2>3 DEF ExecTypes
  <2>6. CallKept(c)'
    BY <1>2, <2>0, <2>2, <2>3, <2>4 DEF CallKept, Resting, InExchange
  <2>7. PostKept(c)'
    BY <1>2, <2>2, <2>4 DEF PostKept, Unsent
  <2>8. CredKept(c)'
    BY <1>1, <1>2, <2>2, <2>4 DEF CredKept
  <2>9. AskedKept(k)'
    BY <2>3, <2>4 DEF AskedKept
  <2>10. \A j \in CeConns : \/ hconn'[j] = hconn[j]
                            \/ j \in Free /\ j = call'[c].conn
    BY <2>2, <2>4
  <2>11. \A j \in CeConns : hconn'[j] # hconn[j] => AskedKept(j)'
    BY <2>4, <2>9
  <2>12. call'[c].conn \in Free /\ call[c].pc # "await"
    BY <1>1, <2>2, <2>4
  <2> QED BY <1>2, <2>4, <2>5, <2>6, <2>7, <2>8, <2>10, <2>11, <2>12, OwnStep
<1> QED BY <1>3, <1>4 DEF OpenConn

LEMMA SendStep ==
    ASSUME ExecInv, NEW c \in CeCallers, SendRequest(c)
    PROVE  ExecInv'
<1>1. /\ ExecTypes /\ CallKept(c) /\ PostKept(c) /\ CredKept(c) /\ call[c].pc = "send"
      /\ call[c] \in Calls
  BY DEF ExecInv, ExecTypes, SendRequest
<1>2. /\ UNCHANGED <<hpool, posts>> /\ posts \in [CeCallers -> Nat]
      /\ call[c].answer \in {"none", c} /\ call[c].origin \in CeOrigins
      /\ call[c].method = "POST" => posts[c] = 0
      /\ posts[c] <= 1 /\ call[c].pc \in InExchange
  BY <1>1 DEF SendRequest, CallKept, PostKept, Unsent, ExecTypes, InExchange
<1>3. CASE call[c].body = "stream"
  <2>1. Fails(c, "failed", "Protocol") /\ Discard(call[c].conn) /\ UNCHANGED creds
    BY <1>3 DEF SendRequest
  <2>2. PICK x \in Calls :
              /\ call' = [call EXCEPT ![c] = x]
              /\ x.pc = "failed" /\ x.answer = call[c].answer /\ x.origin = call[c].origin
              /\ x.conn = NoConn /\ x.method = call[c].method /\ x.cred = call[c].cred
    BY <1>1, <2>1, FailsIsDrop
  <2> QED BY <1>1, <1>2, <2>1, <2>2, DropStep
<1>4. CASE call[c].body # "stream"
  <2>1. PICK k \in CeConns : k = call[c].conn
    BY <1>2, HeldIsApart
  <2>2. Resting(k, call[c].origin) /\ hconn[k] \in HConns
    BY <1>1, <2>1 DEF CallKept, ExecTypes
  <2> DEFINE x == [call[c] EXCEPT !.pc = "await"]
             h == [hconn[k] EXCEPT !.own = TRUE, !.asked = IF hconn[k].open THEN Append(hconn[k].asked, c) ELSE hconn[k].asked]
  <2>3. call' = [call EXCEPT ![c] = x]
    BY <1>1, <1>4 DEF SendRequest, CeGoto, ExecTypes
  <2>4. hconn' = [hconn EXCEPT ![k] = h]
    BY <1>1, <1>4, <2>1 DEF SendRequest, ExecTypes
  <2>5. /\ x \in Calls /\ x.pc = "await" /\ x.answer = call[c].answer /\ x.origin = call[c].origin
        /\ x.conn = k /\ x.method = call[c].method /\ x.cred = call[c].cred
    BY <1>1, <2>1 DEF Calls, InExchange
  <2>6. Append(<<>>, c) = <<c>> /\ <<c>> \in Seq(CeCallers) /\ Len(<<c>>) = 1
    OBVIOUS
  <2>7. /\ h \in HConns /\ h.origin = call[c].origin /\ h.done = 0 /\ h.open = hconn[k].open
        /\ h.asked = IF hconn[k].open THEN <<c>> ELSE <<>>
    BY <2>2, <2>6 DEF HConns, Resting
  <2>8. creds' = [creds EXCEPT ![c] = IF call[c].cred THEN @ \union {call[c].origin} ELSE @]
    BY <1>4 DEF SendRequest
  <2> HIDE DEF x, h
  <2>9. /\ call'[c] = x /\ hconn'[k] = h /\ (\A j \in CeConns \ {k} : hconn'[j] = hconn[j])
        /\ \A d \in CeCallers \ {c} : call'[d] = call[d] /\ creds'[d] = creds[d]
    BY <1>1, <2>3, <2>4, <2>8 DEF ExecTypes
  <2>10. creds[c] \subseteq CeOrigins /\ creds'[c] = IF call[c].cred THEN creds[c] \union {call[c].origin} ELSE creds[c]
    BY <1>1, <2>8 DEF ExecTypes
  <2>11. creds' \in [CeCallers -> SUBSET CeOrigins]
    <3>1. creds \in [CeCallers -> SUBSET CeOrigins]
      BY <1>1 DEF ExecTypes
    <3>2. (IF call[c].cred THEN creds[c] \union {call[c].origin} ELSE creds[c]) \in SUBSET CeOrigins
      BY <1>2, <2>10
    <3> QED BY <2>8, <3>1, <3>2
  <2>12. ExecTypes'
    BY <1>1, <1>2, <2>3, <2>4, <2>5, <2>7, <2>11 DEF ExecTypes
  <2>13. CallKept(c)'
    BY <1>2, <2>5, <2>7, <2>9 DEF CallKept, Resting, InExchange
  <2>14. PostKept(c)'
    BY <1>2, <2>5, <2>9 DEF PostKept, Unsent
  <2>15. CredKept(c)'
    BY <1>1, <1>2, <2>5, <2>9, <2>10 DEF CredKept
  <2>16. AskedKept(k)'
    BY <2>5, <2>6, <2>7, <2>9 DEF AskedKept
  <2>17. \A j \in CeConns : hconn'[j] # hconn[j] => j = k
    BY <2>9
  <2>18. \A j \in CeConns : hconn'[j] # hconn[j] => AskedKept(j)'
    BY <2>16, <2>17
  <2>19. call'[c].conn = call[c].conn /\ call[c].pc # "await"
    BY <1>1, <2>1, <2>5, <2>9
  <2> QED BY <1>2, <2>1, <2>9, <2>12, <2>13, <2>14, <2>15, <2>17, <2>18, <2>19, OwnStep
<1> QED BY <1>3, <1>4

LEMMA ExchangeFailsStep ==
    ASSUME ExecInv, NEW c \in CeCallers, call[c].pc = "await", NEW e \in {"UnexpectedEof", "Canceled", "Timeout"},
           NEW started, ExchangeFails(c, e, started), hpool' = hpool, creds' = creds,
           posts' \in [CeCallers -> Nat], \A d \in CeCallers \ {c} : posts'[d] = posts[d],
           posts'[c] <= 1
    PROVE  ExecInv'
<1>1. ExecTypes /\ call[c].pc \in InExchange
  BY DEF ExecInv, InExchange
<1>2. Discard(call[c].conn)
  BY DEF ExchangeFails
<1>3. PICK l \in {"failed", "reopen"}, f \in {"none", "UnexpectedEof", "Canceled", "Timeout"} :
         Fails(c, l, f) /\ (l = "reopen" => call[c].method # "POST")
  <2>1. CASE StaleRetry(c, e, started)
    BY <2>1 DEF ExchangeFails, StaleRetry, Idempotent
  <2>2. CASE ~StaleRetry(c, e, started)
    BY <2>2 DEF ExchangeFails
  <2> QED BY <2>1, <2>2
<1>4. PICK x \in Calls :
            /\ call' = [call EXCEPT ![c] = x]
            /\ x.pc = l /\ x.answer = call[c].answer /\ x.origin = call[c].origin
            /\ x.conn = NoConn /\ x.method = call[c].method /\ x.cred = call[c].cred
  BY <1>1, <1>3, FailsIsDrop
<1> QED BY <1>1, <1>2, <1>3, <1>4, DropStep

LEMMA LostStep ==
    ASSUME ExecInv, NEW c \in CeCallers, Lost(c) \/ TimesOut(c)
    PROVE  ExecInv'
<1>1. ExecTypes /\ PostKept(c) /\ call[c].pc = "await" /\ hpool' = hpool /\ creds' = creds
  BY DEF ExecInv, Lost, TimesOut
<1>2. posts \in [CeCallers -> Nat] /\ posts[c] <= 1
  BY <1>1 DEF ExecTypes, PostKept
<1>3. CASE Lost(c)
  BY <1>1, <1>2, <1>3, ExchangeFailsStep DEF Lost
<1>4. CASE TimesOut(c)
  <2>1. call[c].method = "POST" => posts[c] = 0
    BY <1>1, <1>4 DEF TimesOut, PostKept
  <2>2. posts' \in [CeCallers -> Nat] /\ (\A d \in CeCallers \ {c} : posts'[d] = posts[d]) /\ posts'[c] <= 1
    BY <1>2, <1>4, <2>1 DEF TimesOut
  <2> QED BY <1>1, <1>4, <2>2, ExchangeFailsStep DEF TimesOut
<1> QED BY <1>3, <1>4

\* Caller and connections outside the pool, when one connection enters or leaves it.
LEMMA TakeStep ==
    ASSUME ExecInv, NEW c \in CeCallers, TakePooled(c)
    PROVE  ExecInv'
<1>1. /\ ExecTypes /\ CallKept(c) /\ PostKept(c) /\ CredKept(c) /\ call[c].pc = "take"
      /\ call[c] \in Calls
  BY DEF ExecInv, ExecTypes, TakePooled
<1>2. PICK o \in CeOrigins : o = call[c].origin
  BY <1>1 DEF CallKept
<1>3. /\ UNCHANGED <<hconn, posts, creds>> /\ posts \in [CeCallers -> Nat]
      /\ call[c].answer \in {"none", c} /\ call[c].conn = NoConn
      /\ call[c].method = "POST" => posts[c] = 0
      /\ posts[c] <= 1
  BY <1>1 DEF TakePooled, CallKept, PostKept, Unsent, ExecTypes, InExchange
<1>4. CASE hpool[o] = <<>>
  <2> DEFINE x == [call[c] EXCEPT !.pc = "open"]
  <2>1. call' = [call EXCEPT ![c] = x] /\ hpool' = hpool
    BY <1>1, <1>2, <1>4 DEF TakePooled, CeGoto, ExecTypes
  <2>2. /\ x \in Calls /\ x.pc = "open" /\ x.answer = call[c].answer /\ x.origin = call[c].origin
        /\ x.conn = call[c].conn /\ x.method = call[c].method /\ x.cred = call[c].cred
    BY <1>1 DEF Calls, InExchange
  <2> HIDE DEF x
  <2> QED BY <1>1, <1>2, <1>3, <2>1, <2>2, CallStep DEF Unsent, InExchange
<1>5. CASE hpool[o] # <<>>
  <2>1. hpool \in [CeOrigins -> Seq(CeConns)] /\ hpool[o] \in Seq(CeConns)
    BY <1>1 DEF ExecTypes
  <2>2. PICK k \in CeConns : k = Head(hpool[o])
    BY <1>5, <2>1
  <2>3. 1 \in 1..Len(hpool[o]) /\ hpool[o][1] = k
    BY <1>5, <2>1, <2>2
  <2> DEFINE x == [call[c] EXCEPT !.pc = "probe", !.conn = k]
  <2>4. call' = [call EXCEPT ![c] = x] /\ hpool' = [hpool EXCEPT ![o] = Tail(@)]
    BY <1>1, <1>2, <1>5, <2>2 DEF TakePooled, ExecTypes
  <2>5. /\ x \in Calls /\ x.pc = "probe" /\ x.answer = call[c].answer /\ x.origin = o
        /\ x.conn = k /\ x.method = call[c].method /\ x.cred = call[c].cred
    BY <1>1, <1>2 DEF Calls, InExchange
  <2> HIDE DEF x
  <2>6. /\ call'[c] = x /\ (\A d \in CeCallers \ {c} : call'[d] = call[d])
        /\ hpool'[o] = Tail(hpool[o]) /\ (\A p \in CeOrigins \ {o} : hpool'[p] = hpool[p])
    BY <1>1, <2>1, <2>4 DEF ExecTypes
  <2>7. Tail(hpool[o]) \in Seq(CeConns)
    BY <1>5, <2>1
  <2>8. ExecTypes'
    BY <1>1, <1>3, <2>4, <2>5, <2>7 DEF ExecTypes
  <2>9. Resting(k, o) /\ \A d \in CeCallers : call[d].conn # k
    BY <2>3 DEF ExecInv, PoolKept
  <2>10. k # NoConn
    BY CeAssumption DEF NoConn
  <2>11. ASSUME NEW d \in CeCallers PROVE CallKept(d)' /\ PostKept(d)' /\ CredKept(d)'
    <3>1. CASE d = c
      <4>1. CallKept(c)'
        BY <1>3, <2>5, <2>6, <2>9 DEF CallKept, InExchange, Resting
      <4>2. PostKept(c)'
        BY <1>3, <2>5, <2>6 DEF PostKept
      <4>3. CredKept(c)'
        BY <1>1, <1>2, <1>3, <2>5, <2>6 DEF CredKept
      <4> QED BY <3>1, <4>1, <4>2, <4>3
    <3>2. CASE d # c
      BY <1>3, <2>6, <3>2, OthersUntouched
    <3> QED BY <3>1, <3>2
  <2>12. ASSUME NEW j \in CeConns PROVE AskedKept(j)'
    <3>1. AskedKept(j)
      BY DEF ExecInv
    <3> QED BY <1>1, <1>3, <2>6, <3>1 DEF AskedKept
  <2>13. HeldApart'
    <3>1. HeldApart
      BY DEF ExecInv
    <3> QED BY <2>5, <2>6, <2>9, <3>1 DEF HeldApart
  <2>14. PoolKept'
    <3> DEFINE RestingThen(j, p) == hconn'[j].origin = p /\ ~hconn'[j].own /\ hconn'[j].asked = <<>> /\ hconn'[j].done = 0
    <3>1. ASSUME NEW p \in CeOrigins, NEW i \in 1..Len(hpool'[p])
          PROVE  \E u \in 1..Len(hpool[p]) : hpool'[p][i] = hpool[p][u] /\ (IF p = o THEN u = i + 1 ELSE u = i)
      <4>1. CASE p = o
        <5>1. PICK s \in Seq(CeConns) : s = hpool[o]
          BY <2>1
        <5>2. s # <<>> /\ hpool'[p] = Tail(s)
          BY <1>5, <2>6, <4>1, <5>1
        <5>3. i \in 1..Len(Tail(s))
          BY <5>2
        <5>4. i + 1 \in 1..Len(s) /\ Tail(s)[i] = s[i + 1]
          BY <5>2, <5>3
        <5> QED BY <4>1, <5>1, <5>2, <5>4
      <4>2. CASE p # o
        BY <2>6, <4>2
      <4> QED BY <4>1, <4>2
    <3> SUFFICES ASSUME NEW p \in CeOrigins, NEW i \in 1..Len(hpool'[p])
                 PROVE  /\ RestingThen(hpool'[p][i], p)
                        /\ \A d \in CeCallers : call'[d].conn # hpool'[p][i]
                        /\ \A q \in CeOrigins : \A j \in 1..Len(hpool'[q]) :
                              hpool'[q][j] = hpool'[p][i] => q = p /\ j = i
      BY DEF PoolKept, Resting
    <3>2. PICK u \in 1..Len(hpool[p]) : hpool'[p][i] = hpool[p][u] /\ (IF p = o THEN u = i + 1 ELSE u = i)
      BY <3>1
    <3>3. /\ Resting(hpool[p][u], p) /\ \A d \in CeCallers : call[d].conn # hpool[p][u]
          /\ \A q \in CeOrigins : \A j \in 1..Len(hpool[q]) : hpool[q][j] = hpool[p][u] => q = p /\ j = u
      BY DEF ExecInv, PoolKept
    <3>4. hpool[p][u] # k
      <4>1. hpool[p][u] = k => p = o /\ u = 1
        BY <2>3, <3>3
      <4> QED BY <3>2, <4>1
    <3>5. ASSUME NEW q \in CeOrigins, NEW j \in 1..Len(hpool'[q]), hpool'[q][j] = hpool'[p][i]
          PROVE  q = p /\ j = i
      <4>1. PICK v \in 1..Len(hpool[q]) : hpool'[q][j] = hpool[q][v] /\ (IF q = o THEN v = j + 1 ELSE v = j)
        BY <3>1
      <4>2. q = p /\ v = u
        BY <3>2, <3>3, <3>5, <4>1
      <4>3. i \in Int /\ j \in Int
        OBVIOUS
      <4> QED BY <3>2, <4>1, <4>2, <4>3
    <3>6. RestingThen(hpool'[p][i], p)
      BY <1>3, <3>2, <3>3 DEF Resting
    <3>7. \A d \in CeCallers : call'[d].conn # hpool'[p][i]
      BY <2>5, <2>6, <3>2, <3>3, <3>4
    <3> QED BY <3>5, <3>6, <3>7
  <2> QED BY <2>8, <2>11, <2>12, <2>13, <2>14 DEF ExecInv
<1> QED BY <1>4, <1>5

LEMMA AnsweredStep ==
    ASSUME ExecInv, NEW c \in CeCallers, Answered(c)
    PROVE  ExecInv'
<1>1. /\ ExecTypes /\ CallKept(c) /\ PostKept(c) /\ CredKept(c) /\ call[c].pc = "await"
      /\ call[c] \in Calls /\ call[c].pc \in InExchange
  BY DEF ExecInv, ExecTypes, Answered, InExchange
<1>2. PICK k \in CeConns : k = call[c].conn
  BY <1>1, HeldIsApart
<1>3. PICK o \in CeOrigins : o = call[c].origin
  BY <1>1, HeldIsApart
<1>4. /\ hconn[k].origin = o /\ hconn[k] \in HConns
      /\ \A d \in CeCallers \ {c} : call[d].conn # k
      /\ \A p \in CeOrigins : \A i \in 1..Len(hpool[p]) : hpool[p][i] # k
  BY <1>1, <1>2, <1>3, HeldIsApart DEF ExecTypes
<1>5. UNCHANGED <<posts, creds>> /\ hconn[k].done > 0
  BY <1>2 DEF Answered
<1>6. hconn[k].asked = <<c>>
  <2>1. AskedKept(k) /\ hconn[k].asked \in {<<>>, <<c>>} /\ hconn[k].done \in Nat
    BY <1>1, <1>2, <1>4 DEF ExecInv, CallKept, HConns
  <2>2. Len(<<>>) = 0
    OBVIOUS
  <2> QED BY <1>5, <2>1, <2>2 DEF AskedKept
<1>7. Head(<<c>>) = c /\ Tail(<<c>>) = <<>>
  OBVIOUS
<1> DEFINE x == [call[c] EXCEPT !.pc = "answered", !.conn = NoConn, !.reused = FALSE, !.answer = c]
<1>8. call' = [call EXCEPT ![c] = x]
  BY <1>1, <1>2, <1>6, <1>7 DEF Answered, ExecTypes
<1>9. /\ x \in Calls /\ x.pc = "answered" /\ x.answer = c /\ x.origin = o
      /\ x.conn = NoConn /\ x.method = call[c].method /\ x.cred = call[c].cred
  BY <1>1, <1>3 DEF Calls, InExchange
<1> HIDE DEF x
<1>10. PICK kept \in BOOLEAN :
         /\ hpool' = [hpool EXCEPT ![o] = IF kept THEN Append(@, k) ELSE @]
         /\ hconn' = [hconn EXCEPT ![k] = IF kept THEN Rested(k) ELSE Unused]
  BY <1>2, <1>3 DEF Answered, PoolH1
<1>11. /\ Rested(k) \in HConns /\ Rested(k).origin = o /\ Rested(k).own = FALSE /\ Rested(k).asked = <<>>
       /\ Rested(k).done = 0
  <2>1. <<>> \in Seq(CeCallers)
    OBVIOUS
  <2> QED BY <1>4, <1>6, <1>7, <2>1 DEF Rested, HConns
<1>12. /\ Unused \in HConns /\ Unused.asked = <<>> /\ Unused.done = 0
  BY DEF Unused, Unspoken, HConns
<1>13. hpool[o] \in Seq(CeConns) /\ Append(hpool[o], k) \in Seq(CeConns) /\ hpool \in [CeOrigins -> Seq(CeConns)]
  BY <1>1 DEF ExecTypes
<1>14. /\ call'[c] = x /\ (\A d \in CeCallers \ {c} : call'[d] = call[d])
       /\ hconn'[k] = (IF kept THEN Rested(k) ELSE Unused) /\ (\A j \in CeConns \ {k} : hconn'[j] = hconn[j])
       /\ hpool'[o] = (IF kept THEN Append(hpool[o], k) ELSE hpool[o])
       /\ \A p \in CeOrigins \ {o} : hpool'[p] = hpool[p]
  BY <1>1, <1>8, <1>10 DEF ExecTypes
<1>15. ExecTypes'
  BY <1>1, <1>5, <1>8, <1>9, <1>10, <1>11, <1>12, <1>13 DEF ExecTypes
<1>16. ASSUME NEW d \in CeCallers PROVE CallKept(d)' /\ PostKept(d)' /\ CredKept(d)'
  <2>1. CASE d = c
    <3>1. CallKept(c)'
      BY <1>9, <1>14 DEF CallKept, InExchange
    <3>2. PostKept(c)'
      BY <1>1, <1>5, <1>9, <1>14 DEF PostKept, Unsent
    <3>3. CredKept(c)'
      BY <1>1, <1>3, <1>5, <1>9, <1>14 DEF CredKept
    <3> QED BY <2>1, <3>1, <3>2, <3>3
  <2>2. CASE d # c
    <3>1. call[d].pc \in InExchange => call[d].conn \in CeConns /\ call[d].conn # k
      BY <1>4, <2>2, HeldIsApart
    <3> QED BY <1>5, <1>14, <2>2, <3>1, OthersUntouched
  <2> QED BY <2>1, <2>2
<1>17. ASSUME NEW j \in CeConns PROVE AskedKept(j)'
  <2>1. CASE j = k
    <3>1. hconn'[k].asked = <<>> /\ hconn'[k].done = 0
      BY <1>11, <1>12, <1>14
    <3>2. Len(<<>>) = 0
      OBVIOUS
    <3> QED BY <2>1, <3>1, <3>2 DEF AskedKept
  <2>2. CASE j # k
    <3>1. AskedKept(j) /\ hconn'[j] = hconn[j]
      BY <1>14, <2>2 DEF ExecInv
    <3>2. ASSUME hconn[j].asked # <<>> PROVE \E d \in CeCallers : call'[d].pc = "await" /\ call'[d].conn = j
      <4>1. PICK d \in CeCallers : call[d].pc = "await" /\ call[d].conn = j
        BY <3>1, <3>2 DEF AskedKept
      <4>2. d # c
        BY <1>2, <2>2, <4>1
      <4> QED BY <1>14, <4>1, <4>2
    <3> QED BY <3>1, <3>2 DEF AskedKept
  <2> QED BY <2>1, <2>2
<1>18. HeldApart'
  <2>1. HeldApart
    BY DEF ExecInv
  <2> QED BY <1>9, <1>14, <2>1 DEF HeldApart
<1>19. PoolKept'
  <2> DEFINE RestingThen(j, p) == hconn'[j].origin = p /\ ~hconn'[j].own /\ hconn'[j].asked = <<>> /\ hconn'[j].done = 0
  <2>1. ASSUME NEW p \in CeOrigins, NEW i \in 1..Len(hpool'[p])
        PROVE  \/ i \in 1..Len(hpool[p]) /\ hpool'[p][i] = hpool[p][i]
               \/ kept /\ p = o /\ i = Len(hpool[o]) + 1 /\ hpool'[p][i] = k
    <3>1. CASE p = o /\ kept
      <4>1. PICK s \in Seq(CeConns) : s = hpool[o]
        BY <1>13
      <4>2. hpool'[p] = Append(s, k) /\ i \in 1..(Len(s) + 1)
        BY <1>14, <3>1, <4>1
      <4>3. CASE i = Len(s) + 1
        BY <3>1, <4>1, <4>2, <4>3
      <4>4. CASE i # Len(s) + 1
        <5>1. i \in 1..Len(s) /\ Append(s, k)[i] = s[i]
          BY <4>2, <4>4
        <5> QED BY <3>1, <4>1, <4>2, <5>1
      <4> QED BY <4>3, <4>4
    <3>2. CASE p # o \/ ~kept
      <4>1. hpool'[p] = hpool[p]
        BY <1>14, <3>2
      <4> QED BY <4>1
    <3> QED BY <3>1, <3>2
  <2> SUFFICES ASSUME NEW p \in CeOrigins, NEW i \in 1..Len(hpool'[p])
               PROVE  /\ RestingThen(hpool'[p][i], p)
                      /\ \A d \in CeCallers : call'[d].conn # hpool'[p][i]
                      /\ \A q \in CeOrigins : \A j \in 1..Len(hpool'[q]) :
                            hpool'[q][j] = hpool'[p][i] => q = p /\ j = i
    BY DEF PoolKept, Resting
  <2>2. k # NoConn
    BY CeAssumption DEF NoConn
  <2>3. CASE i \in 1..Len(hpool[p]) /\ hpool'[p][i] = hpool[p][i]
    <3>1. PICK h \in CeConns : h = hpool[p][i]
      <4>1. hpool[p] \in Seq(CeConns)
        BY <1>13
      <4> QED BY <2>3, <4>1
    <3>2. /\ Resting(h, p) /\ \A d \in CeCallers : call[d].conn # h
          /\ \A q \in CeOrigins : \A j \in 1..Len(hpool[q]) : hpool[q][j] = h => q = p /\ j = i
      BY <2>3, <3>1 DEF ExecInv, PoolKept
    <3>3. h # k
      BY <1>4, <2>3, <3>1
    <3>4. hconn'[h] = hconn[h]
      BY <1>14, <3>3
    <3>5. RestingThen(h, p)
      BY <3>2, <3>4 DEF Resting
    <3>6. \A d \in CeCallers : call'[d].conn # h
      <4>1. h # NoConn
        BY CeAssumption DEF NoConn
      <4> QED BY <1>9, <1>14, <3>2, <4>1
    <3>7. ASSUME NEW q \in CeOrigins, NEW j \in 1..Len(hpool'[q]), hpool'[q][j] = h PROVE q = p /\ j = i
      <4>1. j \in 1..Len(hpool[q]) /\ hpool[q][j] = h
        BY <2>1, <3>3, <3>7
      <4> QED BY <3>2, <4>1
    <3> QED BY <2>3, <3>1, <3>5, <3>6, <3>7
  <2>4. CASE kept /\ p = o /\ i = Len(hpool[o]) + 1 /\ hpool'[p][i] = k
    <3>1. RestingThen(k, o)
      BY <1>11, <1>14, <2>4 DEF Resting
    <3>2. \A d \in CeCallers : call'[d].conn # k
      BY <1>4, <1>9, <1>14, <2>2
    <3>3. ASSUME NEW q \in CeOrigins, NEW j \in 1..Len(hpool'[q]), hpool'[q][j] = k PROVE q = p /\ j = i
      <4>1. \/ j \in 1..Len(hpool[q]) /\ hpool'[q][j] = hpool[q][j]
            \/ kept /\ q = o /\ j = Len(hpool[o]) + 1 /\ hpool'[q][j] = k
        BY <2>1
      <4>2. ~(j \in 1..Len(hpool[q]) /\ hpool'[q][j] = hpool[q][j])
        BY <1>4, <3>3
      <4> QED BY <2>4, <4>1, <4>2
    <3> QED BY <2>4, <3>1, <3>2, <3>3
  <2> QED BY <2>1, <2>3, <2>4
<1> QED BY <1>15, <1>16, <1>17, <1>18, <1>19 DEF ExecInv

\* The server's steps: a connection stays where it is, and what was asked on it stays.
LEMMA ServerStep ==
    ASSUME ExecInv, NEW k \in CeConns, ServerExecutes(k) \/ ServerCloses(k)
    PROVE  ExecInv'
<1>1. ExecTypes /\ call' = call /\ hpool' = hpool /\ creds' = creds /\ hconn[k] \in HConns /\ hconn[k].open
  BY DEF ExecInv, ExecTypes, ServerExecutes, ServerCloses
<1>2. PICK h \in HConns :
         /\ hconn' = [hconn EXCEPT ![k] = h]
         /\ h.origin = hconn[k].origin /\ h.own = hconn[k].own /\ h.asked = hconn[k].asked
         /\ h.done \in {hconn[k].done, hconn[k].done + 1}
         /\ h.open => hconn[k].open
         /\ ServerCloses(k) => ~h.open /\ h.done = hconn[k].done
         /\ ServerExecutes(k) => h.done = hconn[k].done + 1 \/ (h.done = hconn[k].done /\ ~h.open)
  <2>1. PICK n \in Nat : n = hconn[k].done + 1
    BY <1>1 DEF HConns
  <2>2. CASE hconn' = [hconn EXCEPT ![k].done = @ + 1] /\ ServerExecutes(k) /\ ~ServerCloses(k)
    <3> DEFINE h == [hconn[k] EXCEPT !.done = n]
    <3>1. hconn' = [hconn EXCEPT ![k] = h]
      BY <1>1, <2>1, <2>2 DEF ExecTypes
    <3>2. /\ h \in HConns /\ h.origin = hconn[k].origin /\ h.own = hconn[k].own /\ h.asked = hconn[k].asked
          /\ h.done = n /\ h.open = hconn[k].open
      BY <1>1 DEF HConns
    <3> QED BY <2>1, <2>2, <3>1, <3>2
  <2>3. ASSUME NEW cut \in BOOLEAN, hconn' = [hconn EXCEPT ![k].open = FALSE, ![k].cut = cut]
        PROVE  \E h \in HConns :
                 /\ hconn' = [hconn EXCEPT ![k] = h]
                 /\ h.origin = hconn[k].origin /\ h.own = hconn[k].own /\ h.asked = hconn[k].asked
                 /\ h.done = hconn[k].done /\ ~h.open
    <3> DEFINE h == [hconn[k] EXCEPT !.open = FALSE, !.cut = cut]
    <3>1. hconn' = [hconn EXCEPT ![k] = h]
      BY <1>1, <2>3 DEF ExecTypes
    <3>2. /\ h \in HConns /\ h.origin = hconn[k].origin /\ h.own = hconn[k].own /\ h.asked = hconn[k].asked
          /\ h.done = hconn[k].done /\ ~h.open
      BY <1>1 DEF HConns
    <3> QED BY <3>1, <3>2
  <2>4. ASSUME hconn' = [hconn EXCEPT ![k].open = FALSE]
        PROVE  \E h \in HConns :
                 /\ hconn' = [hconn EXCEPT ![k] = h]
                 /\ h.origin = hconn[k].origin /\ h.own = hconn[k].own /\ h.asked = hconn[k].asked
                 /\ h.done = hconn[k].done /\ ~h.open
    <3> DEFINE h == [hconn[k] EXCEPT !.open = FALSE]
    <3>1. hconn' = [hconn EXCEPT ![k] = h]
      BY <1>1, <2>4 DEF ExecTypes
    <3>2. /\ h \in HConns /\ h.origin = hconn[k].origin /\ h.own = hconn[k].own /\ h.asked = hconn[k].asked
          /\ h.done = hconn[k].done /\ ~h.open
      BY <1>1 DEF HConns
    <3> QED BY <3>1, <3>2
  <2>5. CASE ServerCloses(k)
    <3>1. PICK h \in HConns :
                 /\ hconn' = [hconn EXCEPT ![k] = h]
                 /\ h.origin = hconn[k].origin /\ h.own = hconn[k].own /\ h.asked = hconn[k].asked
                 /\ h.done = hconn[k].done /\ ~h.open
      BY <2>4, <2>5 DEF ServerCloses
    <3> QED BY <3>1
  <2>6. CASE ~ServerCloses(k)
    <3>1. CASE hconn' = [hconn EXCEPT ![k].done = @ + 1]
      BY <2>2, <2>6, <3>1
    <3>2. CASE \E cut \in BOOLEAN : hconn' = [hconn EXCEPT ![k].open = FALSE, ![k].cut = cut]
      <4>1. PICK h \in HConns :
                 /\ hconn' = [hconn EXCEPT ![k] = h]
                 /\ h.origin = hconn[k].origin /\ h.own = hconn[k].own /\ h.asked = hconn[k].asked
                 /\ h.done = hconn[k].done /\ ~h.open
        BY <2>3, <3>2
      <4> QED BY <2>6, <4>1
    <3> QED BY <2>6, <3>1, <3>2 DEF ServerExecutes
  <2> QED BY <2>5, <2>6
<1>3. hconn'[k] = h /\ \A j \in CeConns \ {k} : hconn'[j] = hconn[j]
  BY <1>1, <1>2 DEF ExecTypes
<1>4. AskedKept(k) /\ hconn[k].done \in Nat /\ hconn[k].asked \in Seq(CeCallers) /\ Len(hconn[k].asked) \in Nat
  BY <1>1 DEF ExecInv, HConns
<1>5. ASSUME ServerExecutes(k)
      PROVE  \E a \in CeCallers :
                /\ call[a].pc = "await" /\ call[a].conn = k /\ hconn[k].asked = <<a>> /\ hconn[k].done = 0
                /\ posts' = [posts EXCEPT ![a] = IF call[a].method = "POST" THEN @ + 1 ELSE @]
  <2>1. hconn[k].done < Len(hconn[k].asked)
    BY <1>5 DEF ServerExecutes
  <2>2. PICK a \in CeCallers : call[a].pc = "await" /\ call[a].conn = k
    <3>1. Len(<<>>) = 0
      OBVIOUS
    <3> QED BY <1>4, <2>1, <3>1 DEF AskedKept
  <2>3. hconn[k].asked = <<a>>
    BY <1>1, <2>2 DEF ExecInv, CallKept
  <2>4. Len(<<a>>) = 1 /\ <<a>>[1] = a
    OBVIOUS
  <2>5. hconn[k].done = 0 /\ hconn[k].done + 1 = 1
    BY <1>4, <2>1, <2>3, <2>4
  <2>6. hconn[k].asked[hconn[k].done + 1] = a
    BY <2>3, <2>4, <2>5
  <2> QED BY <1>5, <2>2, <2>3, <2>5, <2>6, ZenonT(60) DEF ServerExecutes
<1>6. h.done <= Len(h.asked)
  <2>1. CASE ServerExecutes(k)
    <3>1. PICK a \in CeCallers : hconn[k].asked = <<a>> /\ hconn[k].done = 0
      BY <1>5, <2>1
    <3>2. Len(<<a>>) = 1
      OBVIOUS
    <3> QED BY <1>2, <3>1, <3>2
  <2>2. CASE ServerCloses(k)
    BY <1>2, <1>4, <2>2 DEF AskedKept
  <2> QED BY <2>1, <2>2
<1>7. ASSUME NEW j \in CeConns PROVE AskedKept(j)'
  <2>1. CASE j = k
    BY <1>1, <1>2, <1>3, <1>4, <1>6, <2>1 DEF AskedKept
  <2>2. CASE j # k
    BY <1>1, <1>3, <2>2 DEF ExecInv, AskedKept
  <2> QED BY <2>1, <2>2
<1>8. \A j \in CeConns : /\ hconn'[j].origin = hconn[j].origin /\ hconn'[j].own = hconn[j].own
                         /\ hconn'[j].asked = hconn[j].asked
                         /\ (hconn'[j].open => hconn[j].open)
                         /\ (hconn[j].asked = <<>> => hconn'[j].done = hconn[j].done)
  <2>1. hconn[k].asked = <<>> => h.done = hconn[k].done
    <3>1. Len(<<>>) = 0
      OBVIOUS
    <3> QED BY <1>2, <1>4, <1>6, <3>1 DEF AskedKept
  <2> QED BY <1>2, <1>3, <2>1
<1>9. posts' \in [CeCallers -> Nat]
  <2>1. posts \in [CeCallers -> Nat]
    BY <1>1 DEF ExecTypes
  <2>2. CASE ServerExecutes(k)
    <3>1. PICK a \in CeCallers : posts' = [posts EXCEPT ![a] = IF call[a].method = "POST" THEN @ + 1 ELSE @]
      BY <1>5, <2>2
    <3> QED BY <2>1, <3>1
  <2>3. CASE ServerCloses(k)
    BY <2>1, <2>3 DEF ServerCloses
  <2> QED BY <2>2, <2>3
<1>10. ExecTypes'
  BY <1>1, <1>2, <1>9 DEF ExecTypes
<1>11. ASSUME NEW d \in CeCallers PROVE CallKept(d)' /\ CredKept(d)'
  <2>1. CallKept(d) /\ CredKept(d)
    BY DEF ExecInv
  <2>2. CredKept(d)'
    BY <1>1, <2>1 DEF CredKept
  <2>3. CallKept(d)'
    BY <1>1, <1>8, <2>1 DEF CallKept, Resting, InExchange
  <2> QED BY <2>2, <2>3
<1>12. ASSUME NEW d \in CeCallers PROVE PostKept(d)'
  <2>1. PostKept(d) /\ CallKept(d) /\ posts \in [CeCallers -> Nat] /\ HeldApart
    BY <1>1 DEF ExecInv, ExecTypes
  <2>2. ASSUME call[d].pc = "await" PROVE call[d].conn \in CeConns
    BY <2>1, <2>2 DEF CallKept, InExchange
  <2>3. CASE ServerCloses(k)
    <3>1. posts' = posts /\ \A j \in CeConns : hconn'[j].open => hconn'[j] = hconn[j]
      BY <1>2, <1>3, <2>3 DEF ServerCloses
    <3> QED BY <1>1, <2>1, <2>2, <3>1 DEF PostKept
  <2>4. CASE ServerExecutes(k)
    <3>1. PICK a \in CeCallers :
                /\ call[a].pc = "await" /\ call[a].conn = k /\ hconn[k].asked = <<a>> /\ hconn[k].done = 0
                /\ posts' = [posts EXCEPT ![a] = IF call[a].method = "POST" THEN @ + 1 ELSE @]
      BY <1>5, <2>4
    <3>2. CASE d = a
      <4>1. ~(h.open /\ h.done = 0)
        BY <1>2, <1>4, <2>4
      <4>2. call[d].method = "POST" => posts[d] = 0
        BY <1>1, <2>1, <3>1, <3>2 DEF PostKept
      <4>3. posts'[d] <= 1
        BY <2>1, <3>1, <3>2, <4>2 DEF PostKept
      <4> QED BY <1>1, <1>3, <3>1, <3>2, <4>1, <4>3 DEF PostKept, Unsent
    <3>3. CASE d # a
      <4>1. posts'[d] = posts[d] /\ k # NoConn
        BY <2>1, <3>1, <3>3, CeAssumption DEF NoConn
      <4>2. call[d].conn # k
        BY <2>1, <3>1, <3>3, <4>1 DEF HeldApart
      <4>3. call[d].pc = "await" => hconn'[call[d].conn] = hconn[call[d].conn]
        BY <1>3, <2>2, <4>2
      <4> QED BY <1>1, <2>1, <4>1, <4>3 DEF PostKept
    <3> QED BY <3>2, <3>3
  <2> QED BY <2>3, <2>4
<1>13. HeldApart'
  BY <1>1 DEF ExecInv, HeldApart
<1>14. PoolKept'
  <2> SUFFICES ASSUME NEW o \in CeOrigins, NEW i \in 1..Len(hpool[o])
               PROVE  /\ Resting(hpool[o][i], o)'
                      /\ \A d \in CeCallers : call[d].conn # hpool[o][i]
                      /\ \A p \in CeOrigins : \A j \in 1..Len(hpool[p]) : hpool[p][j] = hpool[o][i] => p = o /\ j = i
    BY <1>1 DEF PoolKept
  <2>1. hpool[o] \in Seq(CeConns)
    BY <1>1 DEF ExecTypes
  <2>2. PICK j \in CeConns : j = hpool[o][i]
    BY <2>1
  <2>3. /\ Resting(j, o) /\ \A d \in CeCallers : call[d].conn # j
        /\ \A p \in CeOrigins : \A u \in 1..Len(hpool[p]) : hpool[p][u] = j => p = o /\ u = i
    BY <2>2 DEF ExecInv, PoolKept
  <2>4. Resting(j, o)'
    BY <1>8, <2>3 DEF Resting
  <2>5. Resting(hpool[o][i], o)'
    BY <1>1, <2>2, <2>4 DEF Resting
  <2> QED BY <2>2, <2>3, <2>5
<1> QED BY <1>7, <1>10, <1>11, <1>12, <1>13, <1>14 DEF ExecInv

LEMMA ExecInit == CeInit => ExecInv
<1> SUFFICES ASSUME CeInit PROVE ExecInv
  OBVIOUS
<1>1. /\ Idle \in Calls /\ Idle.pc = "idle" /\ Idle.conn = NoConn /\ Idle.answer = "none" /\ Idle.cred = FALSE
      /\ Idle.method = "GET"
  BY DEF Idle, Calls, CeMethods, NoConn
<1>2. Unused \in HConns /\ Unused.asked = <<>> /\ Unused.done = 0
  BY DEF Unused, Unspoken, HConns
<1>3. <<>> \in Seq(CeConns) /\ Len(<<>>) = 0
  OBVIOUS
<1>4. /\ \A c \in CeCallers : call[c] = Idle /\ posts[c] = 0 /\ creds[c] = {}
      /\ \A k \in CeConns : hconn[k] = Unused
      /\ \A o \in CeOrigins : hpool[o] = <<>>
  BY DEF CeInit
<1>5. ExecTypes
  BY <1>1, <1>2, <1>3 DEF CeInit, ExecTypes
<1>6. ASSUME NEW c \in CeCallers PROVE CallKept(c) /\ PostKept(c) /\ CredKept(c)
  BY <1>1, <1>4 DEF CallKept, PostKept, CredKept, InExchange
<1>7. ASSUME NEW k \in CeConns PROVE AskedKept(k)
  BY <1>2, <1>3, <1>4 DEF AskedKept
<1>8. HeldApart /\ PoolKept
  BY <1>1, <1>3, <1>4 DEF HeldApart, PoolKept
<1> QED BY <1>5, <1>6, <1>7, <1>8 DEF ExecInv

LEMMA ExecStep == ExecInv /\ [CeNext]_cevars => ExecInv'
<1> SUFFICES ASSUME ExecInv, [CeNext]_cevars PROVE ExecInv'
  OBVIOUS
<1>1. ASSUME NEW c \in CeCallers, CallerStep(c) PROVE ExecInv'
  BY <1>1, ExecuteStep, TakeStep, ProbeStep, OpenStep, SendStep, AnsweredStep, LostStep, RetryStep, RedirectStep
     DEF CallerStep
<1>2. ASSUME NEW k \in CeConns, ServerExecutes(k) \/ ServerCloses(k) PROVE ExecInv'
  BY <1>2, ServerStep
<1>3. CASE UNCHANGED cevars
  <2>1. UNCHANGED <<call, hconn, hpool, posts, creds>>
    BY <1>3 DEF cevars
  <2>2. ExecTypes' /\ (\A k \in CeConns : AskedKept(k)') /\ HeldApart'
    BY <2>1 DEF ExecInv, ExecTypes, AskedKept, HeldApart
  <2>3. PoolKept'
    BY <2>1 DEF ExecInv, PoolKept, Resting
  <2>4. \A c \in CeCallers : CallKept(c)' /\ PostKept(c)' /\ CredKept(c)'
    BY <2>1, OthersUntouched
  <2> QED BY <2>2, <2>3, <2>4 DEF ExecInv
<1> QED BY <1>1, <1>2, <1>3 DEF CeNext

LEMMA ExecInvGives == ExecInv => CallsKeptApart
<1> SUFFICES ASSUME ExecInv PROVE CallsKeptApart
  OBVIOUS
<1>1. PostOnce
  BY DEF ExecInv, PostKept, PostOnce
<1>2. ExchangesApart
  BY DEF ExecInv, CallKept, PoolKept, Resting, ExchangesApart
<1>3. ASSUME NEW c \in CeCallers PROVE Cardinality(creds[c]) <= 1
  <2>1. PICK o \in CeOrigins \union {NoOrigin} : creds[c] \subseteq {o}
    BY DEF ExecInv, CredKept
  <2>2. creds[c] = {} \/ creds[c] = {o}
    BY <2>1
  <2>3. Cardinality({}) = 0 /\ Cardinality({o}) = 1
    BY FS_EmptySet, FS_Singleton
  <2> QED BY <2>2, <2>3
<1> QED BY <1>1, <1>2, <1>3 DEF CallsKeptApart, CredentialsStay

(* Through any interleaving of callers and servers, and with any retry       *)
(* policy and redirect limit, a POST is executed at most once per request,   *)
(* an answer goes to the caller that asked, a connection at rest is whole    *)
(* and its origin's own, and credentials stay with the origin they were      *)
(* written for.                                                              *)
THEOREM CallsStayApart == CeSpec => []CallsKeptApart
<1>1. CeSpec => []ExecInv
  BY ExecInit, ExecStep, PTL DEF CeSpec
<1> QED BY <1>1, ExecInvGives, PTL

-----------------------------------------------------------------------------
(***************************************************************************)
(* NoTruncation for any requests, limits and bounds.  Its inductive        *)
(* strengthening says, of a pending stream, that the chunks its caller     *)
(* lacks are exactly those in flight, in order, and that nothing of the    *)
(* stream is in flight behind its end; and of a request body that is fed,  *)
(* that no chunk of it is lost between its channel, the chunk held back    *)
(* and the server.                                                         *)
(***************************************************************************)
OfStream(f, s) == f.stream = s /\ f.type \in {"head", "headend", "data", "dataend", "trailers", "rst"}
Chunk(f, s) == f.stream = s /\ f.type \in {"data", "dataend"}
LastOf(f, s) == f.stream = s /\ f.type \in {"headend", "dataend", "trailers", "rst"}
Frames == [type : {"head", "headend", "data", "dataend", "trailers", "rst", "goaway", "eof", "bad"},
           stream : Nat, chunk : Nat]

\* What the driver has yet to look at: nothing is on the wire while it is at work.
Flight == IF drv.pc = "poll" THEN wire ELSE events

Users == [reply : {"idle", "waiting", "gone", "head", "error"}, body : {"none", "open", "end", "error"}, got : Nat]
Apps == [made : Nat, left : Nat, open : BOOLEAN]
Srvs == [rx : Nat, rxend : BOOLEAN, state : {"none", "asked", "head", "ended", "reset"}, sent : Nat]

DriverTypes ==
    /\ drv \in [pc : {"cmds", "poll", "events", "feed", "retry", "exit"}, goaway : BOOLEAN, closed : BOOLEAN]
    /\ rxq \in Seq(CdRequests) /\ deferred \in Seq(CdRequests) /\ opened \in Seq(CdRequests)
    /\ pend \subseteq 1..Len(opened) /\ bodies \subseteq 1..Len(opened) /\ held \subseteq bodies
    /\ user \in [CdRequests -> Users] /\ app \in [CdRequests -> Apps] /\ srv \in [CdRequests -> Srvs]
    /\ wire \in Seq(Frames) /\ events \in Seq(Frames)
    /\ drv.pc # "poll" => wire = <<>>
    /\ drv.pc # "events" => events = <<>>

Occurs(q, r) == \E i \in 1..Len(q) : q[i] = r
Distinct(q) == \A i, j \in 1..Len(q) : q[i] = q[j] => i = j

\* A request is in one place: with its caller, in a queue, or on a stream.
OnePlace ==
    /\ Distinct(opened) /\ Distinct(rxq) /\ Distinct(deferred)
    /\ \A r \in CdRequests :
          /\ ~(Occurs(opened, r) /\ Occurs(rxq, r))
          /\ ~(Occurs(opened, r) /\ Occurs(deferred, r))
          /\ ~(Occurs(rxq, r) /\ Occurs(deferred, r))
          /\ user[r].reply = "idle" => ~Occurs(opened, r) /\ ~Occurs(rxq, r) /\ ~Occurs(deferred, r)

\* Nothing has happened to a request without a stream, or on a stream not opened.
Untouched ==
    /\ \A r \in CdRequests : ~Occurs(opened, r) =>
          user[r].got = 0 /\ user[r].body # "end" /\ app[r].made = app[r].left
    /\ \A s \in CdRequests : s > Len(opened) =>
          srv[s].rx = 0 /\ ~srv[s].rxend /\ srv[s].state = "none" /\ srv[s].sent = 0
    /\ \A i \in 1..Len(Flight) : Flight[i].stream <= Len(opened)

\* The chunks of stream s in q are those numbered lo + 1 to hi, in order; its end is last.
Carries(q, s, lo, hi) ==
    /\ \A i \in 1..Len(q) : Chunk(q[i], s) => lo < q[i].chunk /\ q[i].chunk <= hi
    /\ \A m \in Nat : lo < m /\ m <= hi => \E i \in 1..Len(q) : Chunk(q[i], s) /\ q[i].chunk = m
    /\ \A i, j \in 1..Len(q) : i < j /\ Chunk(q[i], s) /\ Chunk(q[j], s) => q[i].chunk < q[j].chunk
    /\ \A i, j \in 1..Len(q) : i < j /\ LastOf(q[i], s) => ~OfStream(q[j], s)

ResponseKept(s) ==
    LET u == user[opened[s]] IN
    IF s \in pend
      THEN /\ u.body # "end" /\ u.got <= srv[s].sent
           /\ Carries(Flight, s, u.got, srv[s].sent)
           /\ \A i \in 1..Len(Flight) : LastOf(Flight[i], s) =>
                 srv[s].state = IF Flight[i].type = "rst" THEN "reset" ELSE "ended"
      ELSE u.body = "end" => srv[s].state = "ended" /\ u.got = srv[s].sent

UploadKept(s) ==
    LET a == app[opened[s]] IN
    opened[s] \in CdUploads =>
       /\ s \in bodies => ~srv[s].rxend /\ a.made = a.left + srv[s].rx + (IF s \in held THEN 1 ELSE 0)
       /\ srv[s].rxend => s \notin bodies /\ ~a.open /\ srv[s].rx = a.made

DriverInv ==
    /\ DriverTypes /\ OnePlace /\ Untouched
    /\ \A s \in 1..Len(opened) : ResponseKept(s) /\ UploadKept(s)

LEMMA TailFacts ==
    ASSUME NEW S, NEW q \in Seq(S), q # <<>>
    PROVE  /\ Tail(q) \in Seq(S) /\ Head(q) \in S /\ Head(q) = q[1] /\ Len(q) \in Nat /\ Len(q) >= 1
           /\ Len(Tail(q)) = Len(q) - 1
           /\ \A i \in 1..Len(Tail(q)) : Tail(q)[i] = q[i + 1] /\ i + 1 \in 1..Len(q)
OBVIOUS

LEMMA AppendFacts ==
    ASSUME NEW S, NEW q \in Seq(S), NEW f \in S
    PROVE  /\ Append(q, f) \in Seq(S) /\ Len(q) \in Nat /\ Len(Append(q, f)) = Len(q) + 1
           /\ Append(q, f)[Len(q) + 1] = f
           /\ \A i \in 1..Len(q) : Append(q, f)[i] = q[i] /\ i \in 1..Len(Append(q, f))
OBVIOUS

LEMMA TailOccurs ==
    ASSUME NEW S, NEW q \in Seq(S), q # <<>>, Distinct(q)
    PROVE  Distinct(Tail(q)) /\ Occurs(q, Head(q))
           /\ \A r : Occurs(Tail(q), r) <=> Occurs(q, r) /\ r # Head(q)
<1>1. /\ Head(q) = q[1] /\ Len(q) \in Nat /\ Len(q) >= 1 /\ Len(Tail(q)) = Len(q) - 1
      /\ \A i \in 1..Len(Tail(q)) : Tail(q)[i] = q[i + 1] /\ i + 1 \in 1..Len(q)
  BY TailFacts
<1>2. PICK t : t = Tail(q)
  OBVIOUS
<1>3. PICK n \in Nat : n = Len(q)
  BY <1>1
<1>4. /\ Len(t) = n - 1 /\ n >= 1
      /\ \A i \in 1..(n - 1) : t[i] = q[i + 1] /\ i + 1 \in 1..n
  BY <1>1, <1>2, <1>3
<1>5. Distinct(t)
  <2> SUFFICES ASSUME NEW i \in 1..(n - 1), NEW j \in 1..(n - 1), t[i] = t[j] PROVE i = j
    BY <1>4 DEF Distinct
  <2>1. i + 1 = j + 1
    BY <1>3, <1>4 DEF Distinct
  <2> QED BY <2>1
<1>6. Occurs(q, Head(q))
  BY <1>1, <1>3, <1>4 DEF Occurs
<1>7. ASSUME NEW r PROVE Occurs(t, r) <=> Occurs(q, r) /\ r # Head(q)
  <2>1. ASSUME Occurs(t, r) PROVE Occurs(q, r) /\ r # Head(q)
    <3>1. PICK i \in 1..(n - 1) : t[i] = r
      BY <1>4, <2>1 DEF Occurs
    <3>2. i + 1 \in 1..n /\ q[i + 1] = r
      BY <1>4, <3>1
    <3>3. r # q[1]
      BY <1>3, <1>4, <3>2 DEF Distinct
    <3> QED BY <1>1, <1>3, <3>2, <3>3 DEF Occurs
  <2>2. ASSUME Occurs(q, r), r # Head(q) PROVE Occurs(t, r)
    <3>1. PICK i \in 1..n : q[i] = r
      BY <1>3, <2>2 DEF Occurs
    <3>2. i # 1
      BY <1>1, <2>2, <3>1
    <3>3. i - 1 \in 1..(n - 1) /\ (i - 1) + 1 = i
      BY <3>1, <3>2
    <3>4. t[i - 1] = r
      BY <1>4, <3>1, <3>3
    <3> QED BY <1>4, <3>3, <3>4 DEF Occurs
  <2> QED BY <2>1, <2>2
<1> QED BY <1>2, <1>5, <1>6, <1>7

LEMMA AppendOccurs ==
    ASSUME NEW S, NEW q \in Seq(S), NEW x \in S, Distinct(q), ~Occurs(q, x)
    PROVE  Distinct(Append(q, x)) /\ \A r : Occurs(Append(q, x), r) <=> Occurs(q, r) \/ r = x
<1>1. PICK a : a = Append(q, x)
  OBVIOUS
<1>2. PICK n \in Nat : n = Len(q)
  OBVIOUS
<1>3. /\ Len(a) = n + 1 /\ a[n + 1] = x
      /\ \A i \in 1..n : a[i] = q[i]
  BY <1>1, <1>2, AppendFacts
<1>4. \A i \in 1..(n + 1) : i \in 1..n \/ i = n + 1
  OBVIOUS
<1>5. \A i \in 1..n : q[i] # x
  BY <1>2 DEF Occurs
<1>6. Distinct(a)
  BY <1>2, <1>3, <1>4, <1>5 DEF Distinct
<1>7. \A i \in 1..n : i \in 1..(n + 1)
  OBVIOUS
<1>8. n + 1 \in 1..(n + 1)
  OBVIOUS
<1>9. \A r : Occurs(a, r) <=> Occurs(q, r) \/ r = x
  BY <1>2, <1>3, <1>4, <1>7, <1>8 DEF Occurs
<1> QED BY <1>1, <1>6, <1>9

-----------------------------------------------------------------------------
(* What a queue of frames carries *)

LEMMA CarriesTail ==
    ASSUME NEW q \in Seq(Frames), q # <<>>, NEW s, NEW lo \in Nat, NEW hi \in Nat, lo <= hi, Carries(q, s, lo, hi)
    PROVE  /\ ~Chunk(Head(q), s) => Carries(Tail(q), s, lo, hi)
           /\ Chunk(Head(q), s) => lo + 1 <= hi /\ Carries(Tail(q), s, lo + 1, hi)
           /\ LastOf(Head(q), s) => hi = IF Chunk(Head(q), s) THEN lo + 1 ELSE lo
<1>1. PICK t : t = Tail(q)
  OBVIOUS
<1>2. PICK n \in Nat : n = Len(q)
  OBVIOUS
<1>3. /\ Len(t) = n - 1 /\ n >= 1 /\ Head(q) = q[1]
      /\ \A i \in 1..(n - 1) : t[i] = q[i + 1] /\ i + 1 \in 1..n
  BY <1>1, <1>2, TailFacts
<1>4. \A i \in 1..n : q[i] \in Frames /\ q[i].chunk \in Nat
  <2>1. \A i \in 1..n : q[i] \in Frames
    BY <1>2
  <2>2. \A g \in Frames : g.chunk \in Nat
    BY DEF Frames
  <2> QED BY <2>1, <2>2
<1>5. \A i \in 1..n : i = 1 \/ (i - 1 \in 1..(n - 1) /\ (i - 1) + 1 = i)
  OBVIOUS
<1>6. /\ \A i \in 1..n : Chunk(q[i], s) => lo < q[i].chunk /\ q[i].chunk <= hi
      /\ \A m \in Nat : lo < m /\ m <= hi => \E i \in 1..n : Chunk(q[i], s) /\ q[i].chunk = m
      /\ \A i, j \in 1..n : i < j /\ Chunk(q[i], s) /\ Chunk(q[j], s) => q[i].chunk < q[j].chunk
      /\ \A i, j \in 1..n : i < j /\ LastOf(q[i], s) => ~OfStream(q[j], s)
  BY <1>2 DEF Carries
<1>7. /\ \A i, j \in 1..(n - 1) : i < j /\ Chunk(t[i], s) /\ Chunk(t[j], s) => t[i].chunk < t[j].chunk
      /\ \A i, j \in 1..(n - 1) : i < j /\ LastOf(t[i], s) => ~OfStream(t[j], s)
  <2>1. ASSUME NEW i \in 1..(n - 1), NEW j \in 1..(n - 1), i < j
        PROVE  i + 1 \in 1..n /\ j + 1 \in 1..n /\ i + 1 < j + 1 /\ t[i] = q[i + 1] /\ t[j] = q[j + 1]
    BY <1>3, <2>1
  <2> QED BY <1>6, <2>1
<1>8. ASSUME ~Chunk(q[1], s) PROVE Carries(t, s, lo, hi)
  <2>1. \A i \in 1..(n - 1) : Chunk(t[i], s) => lo < t[i].chunk /\ t[i].chunk <= hi
    BY <1>3, <1>6
  <2>2. ASSUME NEW m \in Nat, lo < m, m <= hi PROVE \E i \in 1..(n - 1) : Chunk(t[i], s) /\ t[i].chunk = m
    <3>1. PICK i \in 1..n : Chunk(q[i], s) /\ q[i].chunk = m
      BY <1>6, <2>2
    <3>2. i - 1 \in 1..(n - 1) /\ (i - 1) + 1 = i
      BY <1>5, <1>8, <3>1
    <3>3. t[i - 1] = q[i]
      BY <1>3, <3>2
    <3> QED BY <3>1, <3>2, <3>3
  <2> QED BY <1>3, <1>7, <2>1, <2>2 DEF Carries
<1>9. ASSUME Chunk(q[1], s) PROVE lo + 1 <= hi /\ Carries(t, s, lo + 1, hi)
  <2>1. 1 \in 1..n
    BY <1>3
  <2>2. lo < q[1].chunk /\ q[1].chunk <= hi
    BY <1>6, <1>9, <2>1
  <2>3. lo + 1 <= hi
    BY <1>4, <2>1, <2>2
  <2>4. q[1].chunk = lo + 1
    <3>1. PICK i \in 1..n : Chunk(q[i], s) /\ q[i].chunk = lo + 1
      <4>1. lo + 1 \in Nat /\ lo < lo + 1
        OBVIOUS
      <4> QED BY <1>6, <2>3, <4>1
    <3>2. i # 1 => q[1].chunk < q[i].chunk
      <4>1. i # 1 => 1 < i
        BY <3>1
      <4> QED BY <1>6, <1>9, <2>1, <3>1, <4>1
    <3> QED BY <1>4, <2>1, <2>2, <3>1, <3>2
  <2>5. ASSUME NEW i \in 1..(n - 1), Chunk(t[i], s) PROVE lo + 1 < t[i].chunk /\ t[i].chunk <= hi
    <3>1. t[i] = q[i + 1] /\ i + 1 \in 1..n /\ 1 < i + 1
      BY <1>3
    <3>2. q[1].chunk < q[i + 1].chunk /\ q[i + 1].chunk <= hi
      BY <1>6, <1>9, <2>1, <2>5, <3>1
    <3> QED BY <2>4, <3>1, <3>2
  <2>6. ASSUME NEW m \in Nat, lo + 1 < m, m <= hi PROVE \E i \in 1..(n - 1) : Chunk(t[i], s) /\ t[i].chunk = m
    <3>1. PICK i \in 1..n : Chunk(q[i], s) /\ q[i].chunk = m
      <4>1. lo < m
        BY <2>6
      <4> QED BY <1>6, <2>6, <4>1
    <3>2. i # 1
      BY <2>4, <2>6, <3>1
    <3>3. i - 1 \in 1..(n - 1) /\ (i - 1) + 1 = i
      BY <1>5, <3>2
    <3>4. t[i - 1] = q[i]
      BY <1>3, <3>3
    <3> QED BY <3>1, <3>3, <3>4
  <2>7. Carries(t, s, lo + 1, hi)
    BY <1>3, <1>7, <2>5, <2>6 DEF Carries
  <2> QED BY <2>3, <2>7
<1>10. ASSUME LastOf(q[1], s) PROVE hi = IF Chunk(q[1], s) THEN lo + 1 ELSE lo
  <2>1. 1 \in 1..n
    BY <1>3
  <2>2. \A i \in 1..n : Chunk(q[i], s) => i = 1
    <3>1. \A i \in 1..n : i = 1 \/ 1 < i
      OBVIOUS
    <3>2. \A i \in 1..n : Chunk(q[i], s) => OfStream(q[i], s)
      BY DEF Chunk, OfStream
    <3> QED BY <1>6, <1>10, <2>1, <3>1, <3>2
  <2>3. ASSUME lo # hi PROVE Chunk(q[1], s) /\ q[1].chunk = hi
    <3>1. lo < hi /\ hi <= hi
      BY <2>3
    <3> QED BY <1>6, <2>2, <3>1
  <2>4. ASSUME lo + 1 < hi PROVE FALSE
    <3>1. lo + 1 \in Nat /\ lo < lo + 1 /\ lo + 1 <= hi
      BY <2>4
    <3>2. q[1].chunk = lo + 1
      BY <1>6, <2>2, <3>1
    <3> QED BY <2>3, <2>4, <3>2
  <2>5. Chunk(q[1], s) => lo < hi
    BY <1>4, <1>6, <2>1
  <2> QED BY <2>3, <2>4, <2>5
<1> QED BY <1>1, <1>3, <1>8, <1>9, <1>10

LEMMA CarriesAppend ==
    ASSUME NEW q \in Seq(Frames), NEW f \in Frames, NEW s, NEW lo \in Nat, NEW hi \in Nat, NEW top \in Nat,
           lo <= hi, Carries(q, s, lo, hi),
           OfStream(f, s) => \A i \in 1..Len(q) : ~LastOf(q[i], s),
           IF Chunk(f, s) THEN top = hi + 1 /\ f.chunk = top ELSE top = hi
    PROVE  Carries(Append(q, f), s, lo, top)
<1>1. PICK a : a = Append(q, f)
  OBVIOUS
<1>2. PICK n \in Nat : n = Len(q)
  OBVIOUS
<1>3. /\ Len(a) = n + 1 /\ a[n + 1] = f
      /\ \A i \in 1..n : a[i] = q[i]
  BY <1>1, <1>2, AppendFacts
<1>4. \A i \in 1..n : q[i] \in Frames /\ q[i].chunk \in Nat
  <2>1. \A i \in 1..n : q[i] \in Frames
    BY <1>2
  <2>2. \A g \in Frames : g.chunk \in Nat
    BY DEF Frames
  <2> QED BY <2>1, <2>2
<1>5. \A i \in 1..(n + 1) : i \in 1..n \/ i = n + 1
  OBVIOUS
<1>6. /\ \A i \in 1..n : Chunk(q[i], s) => lo < q[i].chunk /\ q[i].chunk <= hi
      /\ \A m \in Nat : lo < m /\ m <= hi => \E i \in 1..n : Chunk(q[i], s) /\ q[i].chunk = m
      /\ \A i, j \in 1..n : i < j /\ Chunk(q[i], s) /\ Chunk(q[j], s) => q[i].chunk < q[j].chunk
      /\ \A i, j \in 1..n : i < j /\ LastOf(q[i], s) => ~OfStream(q[j], s)
      /\ OfStream(f, s) => \A i \in 1..n : ~LastOf(q[i], s)
  BY <1>2 DEF Carries
<1>7. \A i \in 1..(n + 1) : Chunk(a[i], s) => lo < a[i].chunk /\ a[i].chunk <= top
  BY <1>3, <1>4, <1>5, <1>6
<1>8. ASSUME NEW m \in Nat, lo < m, m <= top PROVE \E i \in 1..(n + 1) : Chunk(a[i], s) /\ a[i].chunk = m
  <2>1. CASE m <= hi
    <3>1. PICK i \in 1..n : Chunk(q[i], s) /\ q[i].chunk = m
      BY <1>6, <1>8, <2>1
    <3>2. i \in 1..(n + 1) /\ a[i] = q[i]
      BY <1>3, <3>1
    <3> QED BY <3>1, <3>2
  <2>2. CASE ~(m <= hi)
    <3>1. Chunk(f, s) /\ m = f.chunk
      BY <1>8, <2>2
    <3>2. n + 1 \in 1..(n + 1)
      OBVIOUS
    <3> QED BY <1>3, <3>1, <3>2
  <2> QED BY <2>1, <2>2
<1>9. ASSUME NEW i \in 1..(n + 1), NEW j \in 1..(n + 1), i < j PROVE i \in 1..n /\ a[i] = q[i]
  <2>1. i \in 1..n
    BY <1>9
  <2> QED BY <1>3, <2>1
<1>10. \A i, j \in 1..(n + 1) : i < j /\ Chunk(a[i], s) /\ Chunk(a[j], s) => a[i].chunk < a[j].chunk
  <2> SUFFICES ASSUME NEW i \in 1..(n + 1), NEW j \in 1..(n + 1), i < j, Chunk(a[i], s), Chunk(a[j], s)
               PROVE  a[i].chunk < a[j].chunk
    OBVIOUS
  <2>1. i \in 1..n /\ a[i] = q[i]
    BY <1>9
  <2>2. CASE j \in 1..n
    BY <1>3, <1>6, <2>1, <2>2
  <2>3. CASE j = n + 1
    <3>1. q[i].chunk <= hi /\ q[i].chunk \in Nat /\ a[j].chunk = hi + 1
      BY <1>3, <1>4, <1>6, <2>1, <2>3
    <3> QED BY <2>1, <3>1
  <2> QED BY <1>5, <2>2, <2>3
<1>11. \A i, j \in 1..(n + 1) : i < j /\ LastOf(a[i], s) => ~OfStream(a[j], s)
  BY <1>3, <1>5, <1>6, <1>9
<1> QED BY <1>1, <1>3, <1>7, <1>8, <1>10, <1>11 DEF Carries

LEMMA CarriesFront ==
    ASSUME NEW q \in Seq(Frames), q # <<>>, q[Len(q)].type = "eof", NEW s, NEW lo \in Nat, NEW hi \in Nat,
           Carries(q, s, lo, hi)
    PROVE  /\ SubSeq(q, 1, Len(q) - 1) \in Seq(Frames) /\ Len(SubSeq(q, 1, Len(q) - 1)) = Len(q) - 1
           /\ \A i \in 1..(Len(q) - 1) : SubSeq(q, 1, Len(q) - 1)[i] = q[i]
           /\ Carries(SubSeq(q, 1, Len(q) - 1), s, lo, hi)
<1>1. PICK n \in Nat : n = Len(q)
  OBVIOUS
<1>2. n >= 1 /\ n - 1 \in Nat /\ n - 1 <= n
  BY <1>1
<1>3. PICK b : b = SubSeq(q, 1, n - 1)
  OBVIOUS
<1>4. b \in Seq(Frames) /\ Len(b) = n - 1 /\ \A i \in 1..(n - 1) : b[i] = q[i]
  BY <1>1, <1>2, <1>3
<1>5. \A i \in 1..n : Chunk(q[i], s) => i \in 1..(n - 1)
  BY <1>1, <1>2 DEF Chunk
<1>6. \A i \in 1..(n - 1) : i \in 1..n
  BY <1>2
<1>7. /\ \A i \in 1..n : Chunk(q[i], s) => lo < q[i].chunk /\ q[i].chunk <= hi
      /\ \A m \in Nat : lo < m /\ m <= hi => \E i \in 1..n : Chunk(q[i], s) /\ q[i].chunk = m
      /\ \A i, j \in 1..n : i < j /\ Chunk(q[i], s) /\ Chunk(q[j], s) => q[i].chunk < q[j].chunk
      /\ \A i, j \in 1..n : i < j /\ LastOf(q[i], s) => ~OfStream(q[j], s)
  BY <1>1 DEF Carries
<1>8. /\ \A i \in 1..(n - 1) : Chunk(b[i], s) => lo < b[i].chunk /\ b[i].chunk <= hi
      /\ \A i, j \in 1..(n - 1) : i < j /\ Chunk(b[i], s) /\ Chunk(b[j], s) => b[i].chunk < b[j].chunk
      /\ \A i, j \in 1..(n - 1) : i < j /\ LastOf(b[i], s) => ~OfStream(b[j], s)
  BY <1>4, <1>6, <1>7
<1>9. ASSUME NEW m \in Nat, lo < m, m <= hi PROVE \E i \in 1..(n - 1) : Chunk(b[i], s) /\ b[i].chunk = m
  BY <1>4, <1>5, <1>7, <1>9
<1>10. Carries(b, s, lo, hi)
  BY <1>4, <1>8, <1>9 DEF Carries
<1> QED BY <1>1, <1>3, <1>4, <1>10

\* A stream has a slot: requests are opened at most once each.
LEMMA StreamsFit ==
    ASSUME DriverInv
    PROVE  /\ \A s \in 1..Len(opened) : s \in CdRequests
           /\ Len(opened) \in Nat
           /\ \A r \in CdRequests : ~Occurs(opened, r) => Len(opened) + 1 \in CdRequests
<1>1. opened \in Seq(CdRequests) /\ Distinct(opened)
  BY DEF DriverInv, DriverTypes, OnePlace
<1>2. PICK n \in Nat : n = Cardinality(CdRequests) /\ CdRequests = 1..n /\ IsFiniteSet(CdRequests)
  BY CdAssumption, FS_CardinalityType
<1>3. PICK l \in Nat : l = Len(opened)
  BY <1>1
<1>4. \A i \in 1..l : opened[i] \in CdRequests
  BY <1>1, <1>3
<1>5. IsFiniteSet(1..l) /\ Cardinality(1..l) = l
  <2>1. 1 \in Int /\ l \in Int
    OBVIOUS
  <2>2. IsFiniteSet(1..l) /\ Cardinality(1..l) = IF 1 > l THEN 0 ELSE l - 1 + 1
    BY <2>1, FS_Interval
  <2> QED BY <2>2
<1>6. ASSUME NEW T, IsFiniteSet(T), \A i \in 1..l : opened[i] \in T PROVE l <= Cardinality(T)
  <2> DEFINE f == [i \in 1..l |-> opened[i]]
  <2>1. f \in [1..l -> T] /\ \A i \in 1..l : f[i] = opened[i]
    BY <1>6
  <2> HIDE DEF f
  <2>2. ASSUME Cardinality(T) < l PROVE FALSE
    <3>1. \E x, y \in 1..l : x # y /\ f[x] = f[y]
      BY <1>5, <1>6, <2>1, <2>2, FS_PigeonHole
    <3>2. PICK x \in 1..l, y \in 1..l : x # y /\ f[x] = f[y]
      BY <3>1
    <3> QED BY <1>1, <1>3, <2>1, <3>2 DEF Distinct
  <2>3. Cardinality(T) \in Nat
    BY <1>6, FS_CardinalityType
  <2> QED BY <2>2, <2>3
<1>7. l <= n
  BY <1>2, <1>4, <1>6
<1>8. ASSUME NEW r \in CdRequests, ~Occurs(opened, r) PROVE l + 1 \in CdRequests
  <2>1. IsFiniteSet(CdRequests \ {r}) /\ Cardinality(CdRequests \ {r}) = n - 1
    BY <1>2, FS_RemoveElement
  <2>2. \A i \in 1..l : opened[i] \in CdRequests \ {r}
    BY <1>3, <1>4, <1>8 DEF Occurs
  <2>3. l <= n - 1
    BY <1>6, <2>1, <2>2
  <2>4. l + 1 \in 1..n
    BY <2>3
  <2> QED BY <1>2, <2>4
<1>9. \A s \in 1..l : s \in 1..n
  BY <1>7
<1> QED BY <1>2, <1>3, <1>8, <1>9

-----------------------------------------------------------------------------
(* The steps of the driver *)

\* Finish() with an error: nothing received changes, and no body ends.
LEMMA FinishTold ==
    ASSUME DriverTypes, NEW rs, Finish(rs, TRUE)
    PROVE  /\ user' \in [CdRequests -> Users]
           /\ \A r \in CdRequests : /\ user'[r].got = user[r].got
                                    /\ user'[r].body = "end" => user[r].body = "end"
                                    /\ user'[r].reply = "idle" => user[r].reply = "idle"
<1>1. user \in [CdRequests -> Users]
  BY DEF DriverTypes
<1>2. ASSUME NEW u \in Users
      PROVE  /\ Ended(u, TRUE) \in Users /\ Ended(u, TRUE).got = u.got
             /\ Ended(u, TRUE).body = "end" => u.body = "end"
             /\ Ended(u, TRUE).reply = "idle" => u.reply = "idle"
  BY DEF Ended, Users
<1>3. user' = [r \in CdRequests |-> IF r \in rs THEN Ended(user[r], TRUE) ELSE user[r]]
  BY DEF Finish
<1>4. \A r \in CdRequests : user[r] \in Users
  BY <1>1
<1>5. \A r \in CdRequests : user'[r] = IF r \in rs THEN Ended(user[r], TRUE) ELSE user[r]
  BY <1>3
<1> QED BY <1>2, <1>3, <1>4, <1>5

\* Nothing of a response is read or sent: streams may be given up, callers told.
LEMMA QuietResponses ==
    ASSUME DriverInv, opened' = opened, pend' \subseteq pend, Flight' = Flight \/ pend' = {},
           \A s \in CdRequests : srv'[s].state = srv[s].state /\ srv'[s].sent = srv[s].sent,
           \A r \in CdRequests : user'[r].got = user[r].got /\ (user'[r].body = "end" => user[r].body = "end")
    PROVE  \A s \in 1..Len(opened) : ResponseKept(s)'
<1> SUFFICES ASSUME NEW s \in 1..Len(opened) PROVE ResponseKept(s)'
  OBVIOUS
<1>1. ResponseKept(s) /\ opened[s] \in CdRequests /\ s \in CdRequests
  <2>1. opened \in Seq(CdRequests)
    BY DEF DriverInv, DriverTypes
  <2> QED BY <2>1, StreamsFit DEF DriverInv
<1>2. CASE s \in pend'
  BY <1>1, <1>2 DEF ResponseKept
<1>3. CASE s \notin pend'
  BY <1>1, <1>3 DEF ResponseKept
<1> QED BY <1>2, <1>3

LEMMA QuietUploads ==
    ASSUME DriverInv, opened' = opened, (bodies' = bodies /\ held' = held) \/ bodies' = {},
           \A s \in CdRequests : srv'[s].rx = srv[s].rx /\ srv'[s].rxend = srv[s].rxend, app' = app
    PROVE  \A s \in 1..Len(opened) : UploadKept(s)'
<1> SUFFICES ASSUME NEW s \in 1..Len(opened) PROVE UploadKept(s)'
  OBVIOUS
<1>1. UploadKept(s) /\ s \in CdRequests
  BY StreamsFit DEF DriverInv
<1> QED BY <1>1 DEF UploadKept

LEMMA QuietPlaces ==
    ASSUME DriverInv, opened' = opened, rxq' = rxq \/ rxq' = <<>>, deferred' = deferred \/ deferred' = <<>>,
           \A r \in CdRequests : user'[r].reply = "idle" => user[r].reply = "idle"
    PROVE  OnePlace'
<1>1. Distinct(<<>>) /\ \A r : ~Occurs(<<>>, r)
  BY DEF Distinct, Occurs
<1>2. OnePlace
  BY DEF DriverInv
<1> QED BY <1>1, <1>2 DEF OnePlace

LEMMA QuietUntouched ==
    ASSUME DriverInv, opened' = opened, Flight' = Flight \/ Flight' = <<>>,
           \A r \in CdRequests : user'[r].got = user[r].got /\ (user'[r].body = "end" => user[r].body = "end"),
           app' = app, srv' = srv
    PROVE  Untouched'
<1>1. Untouched
  BY DEF DriverInv
<1>2. \A i \in 1..Len(Flight') : Flight'[i].stream <= Len(opened')
  BY <1>1 DEF Untouched
<1> QED BY <1>1, <1>2 DEF Untouched

LEMMA SubmitStep ==
    ASSUME DriverInv, NEW r \in CdRequests, Submit(r)
    PROVE  DriverInv'
<1>1. /\ DriverTypes /\ OnePlace /\ user[r].reply = "idle" /\ user[r] \in Users
      /\ UNCHANGED <<drv, deferred, opened, pend, bodies, held, app, srv, wire, events>>
  BY DEF DriverInv, DriverTypes, Submit
<1>2. Flight' = Flight
  BY <1>1 DEF Flight
<1>3. PICK l \in {"gone", "waiting"} :
         /\ user' = [user EXCEPT ![r].reply = l]
         /\ rxq' = rxq \/ rxq' = Append(rxq, r)
  BY DEF Submit
<1>4. /\ user' \in [CdRequests -> Users]
      /\ user'[r].reply # "idle" /\ user'[r].got = user[r].got /\ user'[r].body = user[r].body
      /\ \A x \in CdRequests \ {r} : user'[x] = user[x]
  <2> DEFINE u == [user[r] EXCEPT !.reply = l]
  <2>1. u \in Users /\ u.reply = l /\ u.got = user[r].got /\ u.body = user[r].body
    BY <1>1 DEF Users
  <2>2. user' = [user EXCEPT ![r] = u] /\ user \in [CdRequests -> Users]
    BY <1>1, <1>3 DEF DriverTypes
  <2> HIDE DEF u
  <2> QED BY <1>3, <2>1, <2>2
<1>5. rxq \in Seq(CdRequests) /\ Append(rxq, r) \in Seq(CdRequests)
  BY <1>1 DEF DriverTypes
<1>6. DriverTypes'
  BY <1>1, <1>3, <1>4, <1>5 DEF DriverTypes
<1>7. OnePlace'
  <2>1. Distinct(rxq') /\ \A x \in CdRequests : Occurs(rxq', x) => Occurs(rxq, x) \/ x = r
    <3>1. Distinct(rxq) /\ ~Occurs(rxq, r)
      BY <1>1 DEF OnePlace
    <3>2. Distinct(Append(rxq, r)) /\ \A x : Occurs(Append(rxq, r), x) <=> Occurs(rxq, x) \/ x = r
      BY <1>5, <3>1, AppendOccurs
    <3> QED BY <1>3, <3>1, <3>2
  <2>2. PICK q : q = rxq'
    OBVIOUS
  <2> QED BY <1>1, <1>4, <2>1, <2>2 DEF OnePlace
<1>8. Untouched'
  BY <1>1, <1>2, <1>4, QuietUntouched
<1>9. \A s \in 1..Len(opened) : ResponseKept(s)' /\ UploadKept(s)'
  BY <1>1, <1>2, <1>4, QuietResponses, QuietUploads
<1> QED BY <1>1, <1>6, <1>7, <1>8, <1>9 DEF DriverInv

\* The request of a command, taken off its queue, gets a stream.
LEMMA OpenedStep ==
    ASSUME DriverInv, drv.pc \in {"cmds", "retry"}, NEW r \in CdRequests,
           ~Occurs(opened, r), ~Occurs(rxq', r), ~Occurs(deferred', r), user[r].reply # "idle",
           rxq' \in Seq(CdRequests), deferred' \in Seq(CdRequests), Distinct(rxq'), Distinct(deferred'),
           \A x \in CdRequests : (Occurs(rxq', x) => Occurs(rxq, x)) /\ (Occurs(deferred', x) => Occurs(deferred, x)),
           opened' = Append(opened, r),
           pend' = pend \union {Len(opened) + 1},
           bodies' = IF r \in CdUploads THEN bodies \union {Len(opened) + 1} ELSE bodies,
           srv' = [srv EXCEPT ![Len(opened) + 1].state = "asked", ![Len(opened) + 1].rxend = r \notin CdUploads],
           UNCHANGED <<drv, held, user, app, wire, events>>
    PROVE  DriverInv'
<1>1. PICK n \in CdRequests : n = Len(opened) + 1
  BY StreamsFit
<1>2. Len(opened) \in Nat /\ DriverTypes /\ OnePlace /\ Untouched /\ opened \in Seq(CdRequests)
  BY StreamsFit DEF DriverInv, DriverTypes
<1>3. n \in Nat /\ n > Len(opened) /\ n - 1 = Len(opened)
  BY <1>1, <1>2
<1>4. srv[n] \in Srvs /\ srv[n].rx = 0 /\ srv[n].sent = 0
  BY <1>2, <1>3 DEF DriverTypes, Untouched
<1>5. PICK fed \in BOOLEAN : fed = (r \notin CdUploads)
  OBVIOUS
<1> DEFINE h == [srv[n] EXCEPT !.state = "asked", !.rxend = fed]
<1>6. h \in Srvs /\ h.rx = 0 /\ h.sent = 0 /\ h.state = "asked" /\ h.rxend = fed
  BY <1>4 DEF Srvs
<1>7. srv' = [srv EXCEPT ![n] = h]
  BY <1>1, <1>2, <1>5 DEF DriverTypes
<1> HIDE DEF h
<1>8. srv'[n] = h /\ \A s \in CdRequests \ {n} : srv'[s] = srv[s]
  BY <1>2, <1>7 DEF DriverTypes
<1>9. /\ opened' \in Seq(CdRequests) /\ Len(opened') = n /\ opened'[n] = r
      /\ \A i \in 1..Len(opened) : opened'[i] = opened[i] /\ i \in 1..n /\ i # n
  BY <1>1, <1>2, <1>3, AppendFacts
<1>10. Flight = <<>> /\ Flight' = <<>>
  BY <1>2 DEF Flight, DriverTypes
<1>11. DriverTypes'
  <2>1. pend' \subseteq 1..Len(opened') /\ bodies' \subseteq 1..Len(opened') /\ held' \subseteq bodies'
    BY <1>1, <1>2, <1>3, <1>9 DEF DriverTypes
  <2>2. srv' \in [CdRequests -> Srvs]
    BY <1>2, <1>6, <1>7 DEF DriverTypes
  <2> QED BY <1>2, <1>9, <2>1, <2>2 DEF DriverTypes
<1>12. OnePlace'
  <2>1. Distinct(opened') /\ \A x \in CdRequests : Occurs(opened', x) <=> Occurs(opened, x) \/ x = r
    BY <1>2, AppendOccurs DEF OnePlace
  <2> QED BY <1>2, <2>1 DEF OnePlace
<1>13. Untouched'
  <2>1. \A x \in CdRequests : Occurs(opened, x) => Occurs(opened', x)
    BY <1>2, AppendOccurs DEF OnePlace
  <2>2. \A s \in CdRequests : s > Len(opened') => s # n /\ s > Len(opened)
    <3>1. \A s \in CdRequests : s \in Int
      <4>1. PICK m \in Nat : CdRequests = 1..m
        BY CdAssumption, FS_CardinalityType
      <4> QED BY <4>1
    <3>2. \A s \in Int : s > n => s # n /\ s > n - 1
      BY <1>3
    <3> QED BY <1>3, <1>9, <3>1, <3>2
  <2>3. \A i \in 1..Len(Flight') : Flight'[i].stream <= Len(opened')
    BY <1>10
  <2>4. \A s \in CdRequests : s > Len(opened') =>
           srv'[s].rx = 0 /\ ~srv'[s].rxend /\ srv'[s].state = "none" /\ srv'[s].sent = 0
    BY <1>2, <1>8, <2>2 DEF Untouched
  <2>5. \A x \in CdRequests : ~Occurs(opened', x) =>
           user'[x].got = 0 /\ user'[x].body # "end" /\ app'[x].made = app'[x].left
    BY <1>2, <2>1 DEF Untouched
  <2> QED BY <2>3, <2>4, <2>5 DEF Untouched
<1>14. ASSUME NEW s \in 1..Len(opened') PROVE ResponseKept(s)' /\ UploadKept(s)'
  <2>1. CASE s = n
    <3>1. n \in pend' /\ user[r].got = 0 /\ user[r].body # "end" /\ app[r].made = app[r].left
      BY <1>1, <1>2 DEF Untouched
    <3>2. Carries(<<>>, n, 0, 0)
      BY DEF Carries
    <3>3. ResponseKept(n)'
      <4>1. /\ user'[opened'[n]].got = 0 /\ srv'[n].sent = 0 /\ user'[opened'[n]].body # "end"
            /\ Flight' = <<>> /\ n \in pend'
        BY <1>6, <1>8, <1>9, <1>10, <3>1
      <4>2. /\ Carries(Flight', n, user'[opened'[n]].got, srv'[n].sent) /\ (\A i \in 1..Len(Flight') : FALSE)
            /\ user'[opened'[n]].got <= srv'[n].sent
        BY <3>2, <4>1
      <4> QED BY <4>1, <4>2 DEF ResponseKept
    <3>4. n \notin held /\ (r \in CdUploads => n \in bodies')
      BY <1>1, <1>2, <1>3 DEF DriverTypes
    <3>5. app[r].left \in Nat
      BY <1>2 DEF DriverTypes, Apps
    <3>6. UploadKept(n)'
      <4>1. /\ opened'[n] = r /\ app' = app /\ held' = held /\ srv'[n].rx = 0
            /\ r \in CdUploads => ~srv'[n].rxend
        BY <1>5, <1>6, <1>8, <1>9
      <4>2. app[r].left = app[r].left + 0 + 0
        BY <3>5
      <4> QED BY <3>1, <3>4, <4>1, <4>2 DEF UploadKept
    <3> QED BY <2>1, <3>3, <3>6
  <2>2. CASE s # n
    <3>1. s \in 1..Len(opened)
      BY <1>1, <1>2, <1>3, <1>9, <2>2
    <3>2. /\ ResponseKept(s) /\ UploadKept(s) /\ s \in CdRequests /\ opened'[s] = opened[s]
          /\ srv'[s] = srv[s]
      BY <1>8, <1>9, <2>2, <3>1, StreamsFit DEF DriverInv
    <3>3. (s \in pend' <=> s \in pend) /\ (s \in bodies' <=> s \in bodies)
      BY <1>1, <2>2
    <3>4. ResponseKept(s)'
      BY <1>10, <3>2, <3>3 DEF ResponseKept
    <3>5. UploadKept(s)'
      BY <3>2, <3>3 DEF UploadKept
    <3> QED BY <3>4, <3>5
  <2> QED BY <2>1, <2>2
<1> QED BY <1>11, <1>12, <1>13, <1>14 DEF DriverInv

\* A request leaves its queue without a stream, for the other queue or with an error.
LEMMA RefusedStep ==
    ASSUME DriverInv, drv.pc \in {"cmds", "retry"},
           rxq' \in Seq(CdRequests), deferred' \in Seq(CdRequests), Distinct(rxq'), Distinct(deferred'),
           \A x \in CdRequests :
              /\ Occurs(rxq', x) => Occurs(rxq, x)
              /\ Occurs(deferred', x) => (Occurs(rxq, x) \/ Occurs(deferred, x)) /\ ~Occurs(rxq', x),
           user' = user \/ \E rs : Finish(rs, TRUE),
           UNCHANGED <<drv, opened, pend, bodies, held, app, srv, wire, events>>
    PROVE  DriverInv'
<1>1. DriverTypes /\ OnePlace
  BY DEF DriverInv
<1>2. /\ user' \in [CdRequests -> Users]
      /\ \A r \in CdRequests : /\ user'[r].got = user[r].got
                               /\ user'[r].body = "end" => user[r].body = "end"
                               /\ user'[r].reply = "idle" => user[r].reply = "idle"
  BY <1>1, FinishTold DEF DriverTypes
<1>3. Flight' = Flight
  BY DEF Flight
<1>4. DriverTypes'
  BY <1>1, <1>2 DEF DriverTypes
<1>5. OnePlace'
  BY <1>1, <1>2 DEF OnePlace
<1>6. Untouched'
  BY <1>2, <1>3, QuietUntouched
<1>7. \A s \in 1..Len(opened) : ResponseKept(s)' /\ UploadKept(s)'
  BY <1>2, <1>3, QuietResponses, QuietUploads
<1> QED BY <1>4, <1>5, <1>6, <1>7 DEF DriverInv

LEMMA CommandStep ==
    ASSUME DriverInv, RetryDeferred \/ TakeCmd \/ TakeCmdFails
    PROVE  DriverInv'
<1>1. DriverTypes /\ OnePlace /\ rxq \in Seq(CdRequests) /\ deferred \in Seq(CdRequests)
  BY DEF DriverInv, DriverTypes
<1>2. ASSUME NEW q \in Seq(CdRequests), q # <<>>, Distinct(q), q = rxq \/ q = deferred
      PROVE  /\ Tail(q) \in Seq(CdRequests) /\ Head(q) \in CdRequests /\ Distinct(Tail(q))
             /\ Occurs(q, Head(q)) /\ ~Occurs(Tail(q), Head(q))
             /\ \A x : Occurs(Tail(q), x) => Occurs(q, x)
             /\ ~Occurs(opened, Head(q)) /\ user[Head(q)].reply # "idle"
             /\ q = rxq => ~Occurs(deferred, Head(q))
             /\ q = deferred => ~Occurs(rxq, Head(q))
  <2>1. /\ Tail(q) \in Seq(CdRequests) /\ Head(q) \in CdRequests
    BY <1>2, TailFacts
  <2>2. Distinct(Tail(q)) /\ Occurs(q, Head(q)) /\ \A r : Occurs(Tail(q), r) <=> Occurs(q, r) /\ r # Head(q)
    BY <1>2, TailOccurs
  <2> QED BY <1>1, <1>2, <2>1, <2>2 DEF OnePlace
<1>3. CASE RetryDeferred
  <2>1. /\ drv.pc \in {"cmds", "retry"} /\ deferred # <<>> /\ deferred' = Tail(deferred)
        /\ Handle(Head(deferred)) /\ UNCHANGED <<drv, rxq, held, app, wire, events>>
    BY <1>3 DEF RetryDeferred
  <2>2. Distinct(deferred) /\ Distinct(rxq)
    BY <1>1 DEF OnePlace
  <2>3. PICK r \in CdRequests :
           /\ r = Head(deferred) /\ ~Occurs(opened, r) /\ user[r].reply # "idle" /\ ~Occurs(rxq, r)
           /\ Tail(deferred) \in Seq(CdRequests) /\ Distinct(Tail(deferred)) /\ ~Occurs(Tail(deferred), r)
           /\ \A x : Occurs(Tail(deferred), x) => Occurs(deferred, x)
    BY <1>1, <1>2, <2>1, <2>2
  <2>4. CASE /\ opened' = Append(opened, r)
             /\ pend' = pend \union {Len(opened) + 1}
             /\ bodies' = IF r \in CdUploads THEN bodies \union {Len(opened) + 1} ELSE bodies
             /\ srv' = [srv EXCEPT ![Len(opened) + 1].state = "asked", ![Len(opened) + 1].rxend = r \notin CdUploads]
             /\ UNCHANGED user
    BY <1>1, <2>1, <2>2, <2>3, <2>4, OpenedStep
  <2>5. CASE Finish({r}, TRUE) /\ UNCHANGED <<opened, pend, bodies, srv>>
    <3>1. \A x \in CdRequests : Occurs(deferred, x) => ~Occurs(rxq, x)
      BY <1>1 DEF OnePlace
    <3> QED BY <1>1, <2>1, <2>2, <2>3, <2>5, <3>1, RefusedStep
  <2> QED BY <2>1, <2>3, <2>4, <2>5 DEF Handle
<1>4. CASE TakeCmd \/ TakeCmdFails
  <2>1. /\ drv.pc = "cmds" /\ rxq # <<>> /\ rxq' = Tail(rxq) /\ UNCHANGED <<drv, held, app, wire, events>>
    BY <1>4 DEF TakeCmd, TakeCmdFails
  <2>2. Distinct(deferred) /\ Distinct(rxq)
    BY <1>1 DEF OnePlace
  <2>3. PICK r \in CdRequests :
           /\ r = Head(rxq) /\ ~Occurs(opened, r) /\ user[r].reply # "idle" /\ ~Occurs(deferred, r) /\ Occurs(rxq, r)
           /\ Tail(rxq) \in Seq(CdRequests) /\ Distinct(Tail(rxq)) /\ ~Occurs(Tail(rxq), r)
           /\ \A x : Occurs(Tail(rxq), x) => Occurs(rxq, x)
    BY <1>1, <1>2, <2>1, <2>2
  <2>4. CASE /\ opened' = Append(opened, r)
             /\ pend' = pend \union {Len(opened) + 1}
             /\ bodies' = IF r \in CdUploads THEN bodies \union {Len(opened) + 1} ELSE bodies
             /\ srv' = [srv EXCEPT ![Len(opened) + 1].state = "asked", ![Len(opened) + 1].rxend = r \notin CdUploads]
             /\ UNCHANGED <<user, deferred>>
    BY <1>1, <2>1, <2>2, <2>3, <2>4, OpenedStep
  <2>5. \A x \in CdRequests : Occurs(deferred, x) => ~Occurs(Tail(rxq), x)
    BY <1>1, <2>3 DEF OnePlace
  <2>6. CASE Finish({r}, TRUE) /\ UNCHANGED <<deferred, opened, pend, bodies, srv>>
    BY <1>1, <2>1, <2>2, <2>3, <2>5, <2>6, RefusedStep
  <2>7. CASE deferred' = Append(deferred, r) /\ UNCHANGED <<user, opened, pend, bodies, srv>>
    <3>1. /\ deferred' \in Seq(CdRequests) /\ Distinct(deferred')
          /\ \A x : Occurs(deferred', x) <=> Occurs(deferred, x) \/ x = r
      BY <1>1, <2>2, <2>3, <2>7, AppendOccurs, AppendFacts
    <3> QED BY <1>1, <2>1, <2>2, <2>3, <2>5, <2>7, <3>1, RefusedStep
  <2> QED BY <1>4, <2>1, <2>3, <2>4, <2>6, <2>7 DEF TakeCmd, TakeCmdFails, Handle
<1> QED BY <1>3, <1>4

\* The driver goes on, gives up streams, or ends: nothing is read.
LEMMA GoesOn ==
    ASSUME DriverInv, drv' \in [pc : {"cmds", "poll", "events", "feed", "retry", "exit"}, goaway : BOOLEAN, closed : BOOLEAN],
           wire' = <<>>, events' = <<>>, opened' = opened, app' = app, srv' = srv,
           rxq' = rxq \/ rxq' = <<>>, deferred' = deferred \/ deferred' = <<>>,
           user' = user \/ \E rs : Finish(rs, TRUE),
           pend' \subseteq pend, Flight = <<>> \/ pend' = {},
           (bodies' = bodies /\ held' = held) \/ (bodies' = {} /\ held' = {})
    PROVE  DriverInv'
<1>1. DriverTypes /\ OnePlace
  BY DEF DriverInv
<1>2. /\ user' \in [CdRequests -> Users]
      /\ \A r \in CdRequests : /\ user'[r].got = user[r].got
                               /\ user'[r].body = "end" => user[r].body = "end"
                               /\ user'[r].reply = "idle" => user[r].reply = "idle"
  BY <1>1, FinishTold DEF DriverTypes
<1>3. Flight' = <<>>
  BY DEF Flight
<1>4. DriverTypes'
  <2>1. <<>> \in Seq(Frames) /\ <<>> \in Seq(CdRequests)
    OBVIOUS
  <2>2. pend' \subseteq 1..Len(opened) /\ bodies' \subseteq 1..Len(opened) /\ held' \subseteq bodies'
    BY <1>1 DEF DriverTypes
  <2> QED BY <1>1, <1>2, <2>1, <2>2 DEF DriverTypes
<1>5. OnePlace'
  BY <1>2, QuietPlaces
<1>6. Untouched'
  BY <1>2, <1>3, QuietUntouched
<1>7. \A s \in 1..Len(opened) : ResponseKept(s)'
  BY <1>2, <1>3, QuietResponses
<1>8. \A s \in 1..Len(opened) : UploadKept(s)'
  BY QuietUploads
<1> QED BY <1>4, <1>5, <1>6, <1>7, <1>8 DEF DriverInv

LEMMA RoundStep ==
    ASSUME DriverInv, EndCmds \/ EndEvents \/ CheckTimeouts \/ RoundEnds \/ PollFails
    PROVE  DriverInv'
<1>1. DriverTypes /\ drv \in [pc : {"cmds", "poll", "events", "feed", "retry", "exit"}, goaway : BOOLEAN, closed : BOOLEAN]
  BY DEF DriverInv, DriverTypes
<1>2. ASSUME NEW l \in {"cmds", "poll", "feed", "retry", "exit"}
      PROVE  [drv EXCEPT !.pc = l] \in [pc : {"cmds", "poll", "events", "feed", "retry", "exit"}, goaway : BOOLEAN, closed : BOOLEAN]
  BY <1>1
<1>3. CASE EndCmds \/ EndEvents
  <2>1. wire = <<>> /\ events = <<>> /\ Flight = <<>>
    BY <1>1, <1>3 DEF EndCmds, EndEvents, DriverTypes, Flight
  <2>2. \/ drv' = [drv EXCEPT !.pc = "poll"] \/ drv' = [drv EXCEPT !.pc = "feed"]
    BY <1>3 DEF EndCmds, EndEvents, CdGoto
  <2>3. UNCHANGED <<rxq, deferred, opened, pend, bodies, held, user, app, srv, wire, events>>
    BY <1>3 DEF EndCmds, EndEvents
  <2> QED BY <1>2, <2>1, <2>2, <2>3, GoesOn
<1>4. CASE CheckTimeouts
  <2>1. wire = <<>> /\ events = <<>> /\ Flight = <<>>
    BY <1>1, <1>4 DEF CheckTimeouts, DriverTypes, Flight
  <2>2. /\ drv' = [drv EXCEPT !.pc = "retry"] /\ (\E rs : Finish(rs, TRUE)) /\ pend' \subseteq pend
        /\ UNCHANGED <<rxq, deferred, opened, bodies, held, app, srv, wire, events>>
    BY <1>4 DEF CheckTimeouts, CdGoto
  <2> QED BY <1>2, <2>1, <2>2, GoesOn
<1>5. CASE Exit
  <2>1. /\ drv' = [drv EXCEPT !.pc = "exit"] /\ (\E rs : Finish(rs, TRUE))
        /\ rxq' = <<>> /\ deferred' = <<>> /\ pend' = {} /\ bodies' = {} /\ held' = {}
        /\ wire' = <<>> /\ events' = <<>> /\ UNCHANGED <<opened, app, srv>>
    BY <1>5 DEF Exit
  <2> QED BY <1>2, <2>1, GoesOn
<1>6. CASE RoundEnds /\ ~Exit
  <2>1. wire = <<>> /\ events = <<>> /\ Flight = <<>>
    BY <1>1, <1>6 DEF RoundEnds, DriverTypes, Flight
  <2>2. /\ drv' = [drv EXCEPT !.pc = "cmds"]
        /\ UNCHANGED <<rxq, deferred, opened, pend, bodies, held, user, app, srv, wire, events>>
    BY <1>6 DEF RoundEnds, CdGoto
  <2> QED BY <1>2, <2>1, <2>2, GoesOn
<1> QED BY <1>3, <1>4, <1>5, <1>6 DEF PollFails

LEMMA PollStep ==
    ASSUME DriverInv, Poll
    PROVE  DriverInv'
<1>1. /\ DriverTypes /\ Untouched /\ drv.pc = "poll" /\ wire \in Seq(Frames) /\ wire' = <<>>
      /\ UNCHANGED <<rxq, deferred, opened, pend, bodies, held, user, app, srv>>
  BY DEF DriverInv, DriverTypes, Poll
<1>2. drv' \in [pc : {"events"}, goaway : BOOLEAN, closed : BOOLEAN] /\ drv'.pc = "events"
  <2>1. drv \in [pc : {"cmds", "poll", "events", "feed", "retry", "exit"}, goaway : BOOLEAN, closed : BOOLEAN]
    BY <1>1 DEF DriverTypes
  <2>2. CASE AtEof
    BY <2>1, <2>2 DEF Poll
  <2>3. CASE ~AtEof
    BY <2>1, <2>3 DEF Poll
  <2> QED BY <2>2, <2>3
<1>3. Flight = wire /\ Flight' = events'
  BY <1>1, <1>2 DEF Flight
<1>4. /\ events' \in Seq(Frames) /\ Len(events') <= Len(wire) /\ Len(events') \in Nat
      /\ \A i \in 1..Len(events') : events'[i] = wire[i] /\ i \in 1..Len(wire)
      /\ \A s, lo, hi \in Nat : Carries(wire, s, lo, hi) => Carries(events', s, lo, hi)
  <2>1. CASE ~AtEof
    BY <1>1, <2>1 DEF Poll
  <2>2. CASE AtEof
    <3>1. PICK e : e = events'
      OBVIOUS
    <3>2. e = SubSeq(wire, 1, Len(wire) - 1) /\ wire # <<>> /\ wire[Len(wire)].type = "eof"
      BY <2>2, <3>1 DEF Poll, AtEof
    <3>3. PICK n \in Nat : n = Len(wire)
      BY <1>1
    <3>4. n >= 1
      BY <1>1, <3>2, <3>3
    <3>5. e \in Seq(Frames) /\ Len(e) = n - 1 /\ \A i \in 1..(n - 1) : e[i] = wire[i]
      BY <1>1, <3>2, <3>3, <3>4
    <3>6. \A s, lo, hi \in Nat : Carries(wire, s, lo, hi) => Carries(e, s, lo, hi)
      BY <1>1, <3>2, CarriesFront
    <3> QED BY <3>1, <3>3, <3>4, <3>5, <3>6
  <2> QED BY <2>1, <2>2
<1>5. DriverTypes'
  BY <1>1, <1>2, <1>4 DEF DriverTypes
<1>6. OnePlace'
  BY <1>1, QuietPlaces
<1>7. Untouched'
  <2>1. \A i \in 1..Len(Flight') : Flight'[i].stream <= Len(opened')
    BY <1>1, <1>3, <1>4 DEF Untouched
  <2> QED BY <1>1, <2>1 DEF Untouched
<1>8. ASSUME NEW s \in 1..Len(opened) PROVE ResponseKept(s)'
  <2>1. ResponseKept(s) /\ opened[s] \in CdRequests /\ s \in CdRequests /\ s \in Nat
    <3>1. opened \in Seq(CdRequests)
      BY <1>1 DEF DriverTypes
    <3> QED BY <3>1, StreamsFit DEF DriverInv
  <2>2. user[opened[s]].got \in Nat /\ srv[s].sent \in Nat
    BY <1>1, <2>1 DEF DriverTypes, Users, Srvs
  <2>3. CASE s \in pend
    <3>1. /\ user[opened[s]].body # "end" /\ user[opened[s]].got <= srv[s].sent
          /\ Carries(wire, s, user[opened[s]].got, srv[s].sent)
          /\ \A i \in 1..Len(wire) : LastOf(wire[i], s) =>
                srv[s].state = IF wire[i].type = "rst" THEN "reset" ELSE "ended"
      BY <1>3, <2>1, <2>3 DEF ResponseKept
    <3>2. Carries(events', s, user[opened[s]].got, srv[s].sent)
      BY <1>4, <2>1, <2>2, <3>1
    <3>3. \A i \in 1..Len(events') : LastOf(events'[i], s) =>
                srv[s].state = IF events'[i].type = "rst" THEN "reset" ELSE "ended"
      BY <1>4, <3>1
    <3> QED BY <1>1, <1>3, <2>3, <3>1, <3>2, <3>3 DEF ResponseKept
  <2>4. CASE s \notin pend
    BY <1>1, <2>1, <2>4 DEF ResponseKept
  <2> QED BY <2>3, <2>4
<1>9. \A s \in 1..Len(opened) : UploadKept(s)'
  BY <1>1, QuietUploads
<1> QED BY <1>1, <1>5, <1>6, <1>7, <1>8, <1>9 DEF DriverInv

\* drain_events(): one event is looked at, and what its stream's caller sees follows it.
LEMMA EventStep ==
    ASSUME DriverInv, drv.pc = "events", events # <<>>, Drained,
           drv' \in [pc : {"events"}, goaway : BOOLEAN, closed : BOOLEAN], drv'.pc = "events",
           user' \in [CdRequests -> Users], pend' \subseteq pend,
           \A r \in CdRequests :
              /\ user'[r].reply = "idle" => user[r].reply = "idle"
              /\ ~Occurs(opened, r) => user'[r] = user[r],
           \A s \in 1..Len(opened) :
              LET u == user[opened[s]]
                  v == user'[opened[s]] IN
              /\ s \in pend' => v.got = (IF Chunk(Event, s) THEN u.got + 1 ELSE u.got) /\ v.body # "end"
              /\ s \in pend \ pend' /\ v.body = "end" =>
                    /\ LastOf(Event, s) /\ Event.type # "rst"
                    /\ v.got = IF Chunk(Event, s) THEN u.got + 1 ELSE u.got
              /\ s \notin pend => v.got = u.got /\ (v.body = "end" => u.body = "end")
    PROVE  DriverInv'
<1>1. /\ DriverTypes /\ Untouched /\ OnePlace /\ events \in Seq(Frames) /\ opened \in Seq(CdRequests)
      /\ events' = Tail(events) /\ UNCHANGED <<rxq, deferred, opened, bodies, held, app, srv, wire>>
  BY DEF DriverInv, DriverTypes, Drained
<1>2. PICK t \in Seq(Frames) : t = events'
  BY <1>1, TailFacts
<1>3. PICK n \in Nat : n = Len(events)
  BY <1>1
<1>4. /\ n >= 1 /\ Event \in Frames /\ Event = events[1] /\ Len(t) = n - 1
      /\ \A i \in 1..(n - 1) : t[i] = events[i + 1] /\ i + 1 \in 1..n
  BY <1>1, <1>2, <1>3, TailFacts DEF Event
<1>5. Flight = events /\ Flight' = t
  BY <1>2 DEF Flight
<1>6. DriverTypes'
  BY <1>1, <1>2 DEF DriverTypes
<1>7. OnePlace'
  BY <1>1, QuietPlaces
<1>8. Untouched'
  <2>1. \A i \in 1..Len(Flight') : Flight'[i].stream <= Len(opened')
    BY <1>1, <1>3, <1>4, <1>5 DEF Untouched
  <2>2. \A r \in CdRequests : ~Occurs(opened', r) =>
           user'[r].got = 0 /\ user'[r].body # "end" /\ app'[r].made = app'[r].left
    BY <1>1 DEF Untouched
  <2> QED BY <1>1, <2>1, <2>2 DEF Untouched
<1>9. ASSUME NEW s \in 1..Len(opened) PROVE ResponseKept(s)'
  <2>1. ResponseKept(s) /\ opened[s] \in CdRequests /\ s \in CdRequests
    BY <1>1, StreamsFit DEF DriverInv
  <2>2. PICK lo \in Nat : lo = user[opened[s]].got
    BY <1>1, <2>1 DEF DriverTypes, Users
  <2>3. PICK hi \in Nat : hi = srv[s].sent
    BY <1>1, <2>1 DEF DriverTypes, Srvs
  <2>4. CASE s \notin pend
    BY <1>1, <2>1, <2>4 DEF ResponseKept
  <2>5. ASSUME s \in pend
        PROVE  /\ lo <= hi /\ Carries(events, s, lo, hi) /\ user[opened[s]].body # "end"
               /\ \A i \in 1..n : LastOf(events[i], s) =>
                     srv[s].state = IF events[i].type = "rst" THEN "reset" ELSE "ended"
    BY <1>3, <1>5, <2>1, <2>2, <2>3, <2>5 DEF ResponseKept
  <2>6. CASE s \in pend'
    <3>1. s \in pend
      BY <2>6
    <3>2. PICK lo2 \in Nat : lo2 = IF Chunk(Event, s) THEN lo + 1 ELSE lo
      OBVIOUS
    <3>3. user'[opened[s]].got = lo2 /\ user'[opened[s]].body # "end"
      BY <2>2, <2>6, <3>2
    <3>4. lo2 <= hi /\ Carries(t, s, lo2, hi)
      BY <1>1, <1>2, <2>5, <3>1, <3>2, CarriesTail DEF Event
    <3>5. \A i \in 1..Len(t) : LastOf(t[i], s) => srv[s].state = IF t[i].type = "rst" THEN "reset" ELSE "ended"
      BY <1>4, <2>5, <3>1
    <3> QED BY <1>1, <1>5, <2>3, <2>6, <3>3, <3>4, <3>5 DEF ResponseKept
  <2>7. CASE s \in pend /\ s \notin pend'
    <3>1. ASSUME user'[opened[s]].body = "end" PROVE srv[s].state = "ended" /\ user'[opened[s]].got = hi
      <4>1. /\ LastOf(Event, s) /\ Event.type # "rst"
            /\ user'[opened[s]].got = IF Chunk(Event, s) THEN lo + 1 ELSE lo
        BY <2>2, <2>7, <3>1
      <4>2. hi = IF Chunk(Event, s) THEN lo + 1 ELSE lo
        BY <1>1, <2>5, <2>7, <4>1, CarriesTail DEF Event
      <4>3. srv[s].state = "ended"
        BY <1>4, <2>5, <2>7, <4>1
      <4> QED BY <4>1, <4>2, <4>3
    <3> QED BY <1>1, <2>3, <2>7, <3>1 DEF ResponseKept
  <2> QED BY <2>4, <2>6, <2>7
<1>10. \A s \in 1..Len(opened) : UploadKept(s)'
  BY <1>1, QuietUploads
<1> QED BY <1>1, <1>6, <1>7, <1>8, <1>9, <1>10 DEF DriverInv

\* An event of a pending stream: one caller sees it.
LEMMA PendingStep ==
    ASSUME DriverInv, OnHeaders \/ OnData \/ OnTrailers \/ OnRst
    PROVE  DriverInv'
<1>1. PICK t \in pend : t = Event.stream
  BY DEF OnHeaders, OnData, OnTrailers, OnRst, Pending
<1>2. /\ drv.pc = "events" /\ events # <<>> /\ Drained /\ UNCHANGED drv
      /\ Event.type \in {"head", "headend", "data", "dataend", "trailers", "rst"}
  BY DEF OnHeaders, OnData, OnTrailers, OnRst, Pending
<1>3. DriverTypes /\ OnePlace /\ opened \in Seq(CdRequests) /\ user \in [CdRequests -> Users] /\ t \in 1..Len(opened)
  BY DEF DriverInv, DriverTypes
<1>4. drv' \in [pc : {"events"}, goaway : BOOLEAN, closed : BOOLEAN] /\ drv'.pc = "events"
  BY <1>2, <1>3 DEF DriverTypes
<1>5. PICK r \in CdRequests : r = opened[t]
  BY <1>3
<1>6. Request(Event.stream) = r
  BY <1>1, <1>5 DEF Request
<1>7. Occurs(opened, r) /\ user[r].reply # "idle"
  BY <1>3, <1>5 DEF OnePlace, Occurs
<1>8. \A s \in 1..Len(opened) : s # t => opened[s] # r
  BY <1>3, <1>5 DEF OnePlace, Distinct
<1>9. \A s : s # t => ~Chunk(Event, s)
  BY <1>1 DEF Chunk
<1>10. PICK u \in Users : u = user[r]
  BY <1>3
<1>11. user[r].body # "end"
  BY <1>1, <1>3, <1>5 DEF DriverInv, ResponseKept
<1>12. ASSUME NEW v \in Users, user' = [user EXCEPT ![r] = v], v.reply # "idle",
              pend' = pend \/ pend' = pend \ {t},
              t \in pend' => v.body # "end",
              (v.body # "end" /\ t \notin pend') \/ v.got = (IF Chunk(Event, t) THEN u.got + 1 ELSE u.got),
              v.body = "end" => LastOf(Event, t) /\ Event.type # "rst"
       PROVE  DriverInv'
  <2>1. user' \in [CdRequests -> Users] /\ user'[r] = v /\ \A x \in CdRequests \ {r} : user'[x] = user[x]
    BY <1>3, <1>12
  <2>2. pend' \subseteq pend /\ \A s \in pend \ pend' : s = t
    BY <1>12
  <2>3. \A x \in CdRequests :
          /\ user'[x].reply = "idle" => user[x].reply = "idle"
          /\ ~Occurs(opened, x) => user'[x] = user[x]
    BY <1>7, <1>12, <2>1
  <2>4. ASSUME NEW s \in 1..Len(opened)
        PROVE /\ s \in pend' => user'[opened[s]].got = (IF Chunk(Event, s) THEN user[opened[s]].got + 1 ELSE user[opened[s]].got)
                                 /\ user'[opened[s]].body # "end"
              /\ s \in pend \ pend' /\ user'[opened[s]].body = "end" =>
                    /\ LastOf(Event, s) /\ Event.type # "rst"
                    /\ user'[opened[s]].got = IF Chunk(Event, s) THEN user[opened[s]].got + 1 ELSE user[opened[s]].got
              /\ s \notin pend => user'[opened[s]].got = user[opened[s]].got
                                   /\ (user'[opened[s]].body = "end" => user[opened[s]].body = "end")
    <3>1. CASE s = t
      BY <1>1, <1>5, <1>10, <1>12, <2>1, <3>1
    <3>2. CASE s # t
      <4>1. opened[s] \in CdRequests /\ opened[s] # r
        BY <1>3, <1>8, <3>2
      <4>2. user'[opened[s]] = user[opened[s]] /\ ~Chunk(Event, s)
        BY <1>9, <2>1, <3>2, <4>1
      <4>3. s \in pend => s \in pend' /\ user[opened[s]].body # "end"
        BY <2>2, <3>2 DEF DriverInv, ResponseKept
      <4> QED BY <2>2, <4>2, <4>3
    <3> QED BY <3>1, <3>2
  <2> QED BY <1>2, <1>4, <2>1, <2>2, <2>3, <2>4, EventStep
<1>13. CASE OnHeaders
  <2>1. PICK b \in {"end", "open"} :
          /\ user' = [user EXCEPT ![r].reply = "head", ![r].body = b]
          /\ b = "end" => Event.type = "headend" /\ pend' = pend \ {t}
          /\ b = "open" => pend' = pend
    BY <1>1, <1>6, <1>13 DEF OnHeaders
  <2> DEFINE v == [u EXCEPT !.reply = "head", !.body = b]
  <2>2. user' = [user EXCEPT ![r] = v]
    BY <1>3, <1>10, <2>1
  <2>3. v \in Users /\ v.reply = "head" /\ v.body = b /\ v.got = u.got
    BY DEF Users
  <2>4. ~Chunk(Event, t) /\ (b = "end" => LastOf(Event, t))
    BY <1>1, <1>13, <2>1 DEF OnHeaders, Pending, Chunk, LastOf
  <2> HIDE DEF v
  <2> QED BY <1>12, <2>1, <2>2, <2>3, <2>4
<1>14. ASSUME Finish({r}, TRUE), pend' = pend \ {t} PROVE DriverInv'
  <2> DEFINE v == Ended(u, TRUE)
  <2>1. v \in Users /\ v.body # "end" /\ v.reply # "idle"
    BY <1>7, <1>10, <1>11 DEF Ended, Users
  <2>2. user' = [user EXCEPT ![r] = v]
    <3>1. \A x \in CdRequests : user'[x] = [user EXCEPT ![r] = v][x]
      BY <1>3, <1>10, <1>14 DEF Finish
    <3>2. user' = [x \in CdRequests |-> user'[x]]
      BY <1>14 DEF Finish
    <3> QED BY <1>3, <3>1, <3>2
  <2> HIDE DEF v
  <2> QED BY <1>12, <1>14, <2>1, <2>2
<1>15. CASE OnRst
  BY <1>1, <1>6, <1>14, <1>15 DEF OnRst
<1>16. CASE OnTrailers
  <2> DEFINE v == Ended(u, FALSE)
  <2>1. v \in Users /\ v.reply # "idle" /\ v.got = u.got
    BY <1>7, <1>10 DEF Ended, Users
  <2>2. user' = [user EXCEPT ![r] = v] /\ pend' = pend \ {t}
    <3>1. Finish({r}, FALSE) /\ pend' = pend \ {t}
      BY <1>1, <1>6, <1>16 DEF OnTrailers
    <3>2. \A x \in CdRequests : user'[x] = [user EXCEPT ![r] = v][x]
      BY <1>3, <1>10, <3>1 DEF Finish
    <3>3. user' = [x \in CdRequests |-> user'[x]]
      BY <3>1 DEF Finish
    <3> QED BY <1>3, <3>1, <3>2, <3>3
  <2>3. ~Chunk(Event, t) /\ LastOf(Event, t) /\ Event.type # "rst"
    BY <1>1, <1>16 DEF OnTrailers, Pending, Chunk, LastOf
  <2> HIDE DEF v
  <2> QED BY <1>12, <2>1, <2>2, <2>3
<1>17. CASE OnData
  <2>1. Chunk(Event, t) /\ Event.type # "rst"
    BY <1>1, <1>17 DEF OnData, Pending, Chunk
  <2>2. CASE /\ user' = [user EXCEPT ![r].got = @ + 1, ![r].body = IF Event.type = "dataend" THEN "end" ELSE @]
             /\ pend' = IF Event.type = "dataend" THEN pend \ {t} ELSE pend
    <3>1. PICK g \in Nat : g = u.got + 1
      BY DEF Users
    <3>2. PICK b \in {"none", "open", "end", "error"} : b = IF Event.type = "dataend" THEN "end" ELSE u.body
      BY DEF Users
    <3> DEFINE v == [u EXCEPT !.got = g, !.body = b]
    <3>3. user' = [user EXCEPT ![r] = v]
      BY <1>3, <1>10, <2>2, <3>1, <3>2
    <3>4. v \in Users /\ v.reply = u.reply /\ v.body = b /\ v.got = g
      BY DEF Users
    <3> HIDE DEF v
    <3>5. b = "end" => Event.type = "dataend" /\ LastOf(Event, t)
      BY <1>1, <1>10, <1>11, <3>2 DEF LastOf
    <3>6. pend' = pend \/ pend' = pend \ {t}
      BY <2>2
    <3>7. t \in pend' => b # "end"
      BY <2>2, <3>5
    <3> QED BY <1>7, <1>10, <1>12, <2>1, <3>1, <3>3, <3>4, <3>5, <3>6, <3>7
  <2>3. CASE Finish({r}, TRUE) /\ pend' = pend \ {t}
    BY <1>14, <2>3
  <2> QED BY <1>1, <1>6, <1>17, <2>2, <2>3 DEF OnData
<1> QED BY <1>13, <1>15, <1>16, <1>17

LEMMA OtherStep ==
    ASSUME DriverInv, OnGoaway \/ OnOther
    PROVE  DriverInv'
<1>1. DriverTypes /\ drv.pc = "events" /\ events # <<>> /\ Drained /\ opened \in Seq(CdRequests)
  BY DEF DriverInv, DriverTypes, OnGoaway, OnOther
<1>2. drv' \in [pc : {"events"}, goaway : BOOLEAN, closed : BOOLEAN] /\ drv'.pc = "events"
  BY <1>1 DEF OnGoaway, OnOther, DriverTypes
<1>3. pend' \subseteq pend /\ (user' = user \/ \E rs : Finish(rs, TRUE))
  BY DEF OnGoaway, OnOther
<1>4. user' \in [CdRequests -> Users] /\ (\A r \in CdRequests : ~Occurs(opened, r) => user'[r] = user[r])
      /\ \A r \in CdRequests : /\ user'[r].got = user[r].got
                               /\ user'[r].body = "end" => user[r].body = "end"
                               /\ user'[r].reply = "idle" => user[r].reply = "idle"
  <2>1. /\ user' \in [CdRequests -> Users]
        /\ \A r \in CdRequests : /\ user'[r].got = user[r].got
                                 /\ user'[r].body = "end" => user[r].body = "end"
                                 /\ user'[r].reply = "idle" => user[r].reply = "idle"
    BY <1>1, <1>3, FinishTold DEF DriverTypes
  <2>2. ASSUME NEW r \in CdRequests, ~Occurs(opened, r) PROVE user'[r] = user[r]
    <3>1. \A s \in pend : opened[s] # r
      BY <1>1, <2>2 DEF Occurs, DriverTypes
    <3>2. CASE OnGoaway
      <4>1. PICK dead \in SUBSET pend : Finish(Of(dead), TRUE)
        BY <3>2 DEF OnGoaway
      <4>2. r \notin Of(dead)
        BY <3>1, <4>1 DEF Of, Request
      <4> QED BY <4>1, <4>2 DEF Finish
    <3>3. CASE OnOther
      BY <3>3 DEF OnOther
    <3> QED BY <3>2, <3>3
  <2> QED BY <2>1, <2>2
<1>5. ASSUME NEW s \in pend PROVE ~Chunk(Event, s) /\ user[opened[s]].body # "end"
  <2>1. s \in 1..Len(opened)
    BY <1>1 DEF DriverTypes
  <2> QED BY <2>1 DEF OnGoaway, OnOther, Chunk, DriverInv, ResponseKept
<1>6. \A s \in 1..Len(opened) : opened[s] \in CdRequests
  BY <1>1
<1>7. \A s \in 1..Len(opened) :
         /\ user'[opened[s]].got = user[opened[s]].got
         /\ user'[opened[s]].body = "end" => user[opened[s]].body = "end"
  BY <1>4, <1>6
<1> QED BY <1>1, <1>2, <1>3, <1>4, <1>5, <1>7, EventStep

\* Feeding a body: one stream's upload moves, responses stay.
LEMMA FeedStep ==
    ASSUME DriverInv, NEW s \in 1..Len(opened), NEW r \in CdRequests, r = opened[s],
           NEW a \in Apps, NEW h \in Srvs, app' = [app EXCEPT ![r] = a], srv' = [srv EXCEPT ![s] = h],
           h.state = srv[s].state, h.sent = srv[s].sent, drv.pc = "feed",
           bodies' \subseteq bodies, held' \subseteq bodies', bodies' \ {s} = bodies \ {s}, held' \ {s} = held \ {s},
           r \in CdUploads =>
              /\ s \in bodies' => ~h.rxend /\ a.made = a.left + h.rx + (IF s \in held' THEN 1 ELSE 0)
              /\ h.rxend => s \notin bodies' /\ ~a.open /\ h.rx = a.made,
           UNCHANGED <<drv, rxq, deferred, opened, pend, user, wire, events>>
    PROVE  DriverInv'
<1>1. DriverTypes /\ Untouched /\ OnePlace /\ s \in CdRequests /\ opened \in Seq(CdRequests) /\ Len(opened) \in Nat
  BY StreamsFit DEF DriverInv, DriverTypes
<1>2. /\ app'[r] = a /\ (\A x \in CdRequests \ {r} : app'[x] = app[x])
      /\ srv'[s] = h /\ (\A x \in CdRequests \ {s} : srv'[x] = srv[x])
  BY <1>1 DEF DriverTypes
<1>3. DriverTypes'
  <2>1. bodies' \subseteq 1..Len(opened')
    BY <1>1 DEF DriverTypes
  <2> QED BY <1>1, <2>1 DEF DriverTypes
<1>4. OnePlace'
  BY QuietPlaces
<1>5. Flight' = Flight
  BY DEF Flight
<1>6. Occurs(opened, r) /\ ~(s > Len(opened))
  BY <1>1 DEF Occurs
<1>7. Untouched'
  BY <1>1, <1>2, <1>5, <1>6 DEF Untouched
<1>8. \A x \in 1..Len(opened) : ResponseKept(x)'
  <2>1. \A x \in CdRequests : srv'[x].state = srv[x].state /\ srv'[x].sent = srv[x].sent
    BY <1>2
  <2> QED BY <1>5, <2>1, QuietResponses
<1>9. ASSUME NEW x \in 1..Len(opened) PROVE UploadKept(x)'
  <2>1. CASE x = s
    BY <1>2, <2>1 DEF UploadKept
  <2>2. CASE x # s
    <3>1. UploadKept(x) /\ x \in CdRequests /\ opened[x] \in CdRequests /\ opened[x] # r
      BY <1>1, <2>2, StreamsFit DEF DriverInv, OnePlace, Distinct
    <3>2. srv'[x] = srv[x] /\ app'[opened[x]] = app[opened[x]] /\ (x \in bodies' <=> x \in bodies) /\ (x \in held' <=> x \in held)
      BY <1>2, <2>2, <3>1
    <3> QED BY <3>1, <3>2 DEF UploadKept
  <2> QED BY <2>1, <2>2
<1> QED BY <1>3, <1>4, <1>7, <1>8, <1>9 DEF DriverInv

LEMMA FeedSteps ==
    ASSUME DriverInv, NEW s \in 1..Len(opened), FeedBody(s) \/ FeedEnd(s) \/ FeedFails(s)
    PROVE  DriverInv'
<1>1. /\ DriverTypes /\ s \in CdRequests /\ opened \in Seq(CdRequests) /\ UploadKept(s) /\ s \in bodies
      /\ drv.pc = "feed" /\ UNCHANGED <<drv, rxq, deferred, opened, pend, user, wire, events>>
  BY StreamsFit DEF DriverInv, DriverTypes, FeedBody, FeedEnd, FeedFails
<1>2. PICK r \in CdRequests : r = opened[s]
  <2>1. opened \in Seq(CdRequests)
    BY <1>1
  <2>2. opened[s] \in CdRequests
    BY ONLY <2>1, s \in 1..Len(opened)
  <2> QED BY <2>2
<1>3. Request(s) = r
  BY <1>2 DEF Request
<1>4. PICK h \in Srvs : h = srv[s]
  BY <1>1 DEF DriverTypes
<1>5. PICK a \in Apps : a = app[r]
  BY <1>1 DEF DriverTypes
<1>6. srv = [srv EXCEPT ![s] = h] /\ app = [app EXCEPT ![r] = a]
  BY <1>1, <1>4, <1>5 DEF DriverTypes
<1>7. r \in CdUploads => ~h.rxend /\ a.made = a.left + h.rx + (IF s \in held THEN 1 ELSE 0)
  BY <1>1, <1>2, <1>4, <1>5 DEF UploadKept
<1>8. a.made \in Nat /\ a.left \in Nat /\ h.rx \in Nat /\ held \subseteq bodies
  BY <1>1 DEF Apps, Srvs, DriverTypes
<1>9. PICK n \in Nat : n = h.rx + 1
  BY <1>8
<1> DEFINE g == [h EXCEPT !.rx = n]
<1>10. g \in Srvs /\ g.rx = n /\ g.state = h.state /\ g.sent = h.sent /\ g.rxend = h.rxend
  BY DEF Srvs
<1>11. [srv EXCEPT ![s].rx = @ + 1] = [srv EXCEPT ![s] = g]
  BY <1>1, <1>4, <1>9 DEF DriverTypes
<1> HIDE DEF g
<1>12. CASE s \in held /\ srv' = [srv EXCEPT ![s].rx = @ + 1] /\ held' = held \ {s} /\ UNCHANGED <<app, bodies>>
  <2>1. r \in CdUploads => ~g.rxend /\ a.made = a.left + g.rx + 0
    BY <1>7, <1>8, <1>9, <1>10, <1>12
  <2>2. /\ s \notin held' /\ bodies' \subseteq bodies /\ held' \subseteq bodies'
        /\ bodies' \ {s} = bodies \ {s} /\ held' \ {s} = held \ {s}
    BY <1>8, <1>12
  <2>3. /\ srv' = [srv EXCEPT ![s] = g] /\ app' = [app EXCEPT ![r] = a]
        /\ g.state = srv[s].state /\ g.sent = srv[s].sent
    BY <1>4, <1>6, <1>10, <1>11, <1>12
  <2>4. r \in CdUploads =>
          /\ s \in bodies' => ~g.rxend /\ a.made = a.left + g.rx + (IF s \in held' THEN 1 ELSE 0)
          /\ g.rxend => s \notin bodies' /\ ~a.open /\ g.rx = a.made
    BY <2>1, <2>2
  <2> QED BY <1>1, <1>2, <1>5, <1>10, <2>2, <2>3, <2>4, FeedStep
<1>13. CASE s \notin held /\ app[r].left > 0 /\ app' = [app EXCEPT ![r].left = @ - 1] /\ UNCHANGED bodies
            /\ ((srv' = [srv EXCEPT ![s].rx = @ + 1] /\ UNCHANGED held) \/ (Hold(s) /\ UNCHANGED srv))
  <2>1. PICK m \in Nat : m = a.left - 1
    BY <1>5, <1>8, <1>13
  <2> DEFINE b == [a EXCEPT !.left = m]
  <2>2. b \in Apps /\ b.left = m /\ b.made = a.made /\ b.open = a.open
    BY DEF Apps
  <2>3. app' = [app EXCEPT ![r] = b]
    BY <1>1, <1>5, <1>13, <2>1 DEF DriverTypes
  <2> HIDE DEF b
  <2>4. r \in CdUploads => ~h.rxend /\ a.made = a.left + h.rx
    <3>1. r \in CdUploads => ~h.rxend /\ a.made = a.left + h.rx + 0
      BY <1>7, <1>13
    <3> QED BY <1>8, <3>1
  <2>5. CASE srv' = [srv EXCEPT ![s].rx = @ + 1] /\ UNCHANGED held
    <3>1. r \in CdUploads => ~g.rxend /\ b.made = b.left + g.rx + 0
      BY <1>8, <1>9, <1>10, <2>1, <2>2, <2>4
    <3>2. /\ s \notin held' /\ bodies' \subseteq bodies /\ held' \subseteq bodies'
          /\ bodies' \ {s} = bodies \ {s} /\ held' \ {s} = held \ {s}
      BY <1>8, <1>13, <2>5
    <3>3. srv' = [srv EXCEPT ![s] = g] /\ g.state = srv[s].state /\ g.sent = srv[s].sent
      BY <1>4, <1>10, <1>11, <2>5
    <3>4. r \in CdUploads =>
            /\ s \in bodies' => ~g.rxend /\ b.made = b.left + g.rx + (IF s \in held' THEN 1 ELSE 0)
            /\ g.rxend => s \notin bodies' /\ ~b.open /\ g.rx = b.made
      BY <3>1, <3>2
    <3> QED BY <1>1, <1>2, <1>10, <2>2, <2>3, <3>2, <3>3, <3>4, FeedStep
  <2>6. CASE Hold(s) /\ UNCHANGED srv
    <3>1. r \in CdUploads => ~h.rxend /\ b.made = b.left + h.rx + 1
      BY <1>8, <2>1, <2>2, <2>4
    <3>2. /\ s \in held' /\ bodies' \subseteq bodies /\ held' \subseteq bodies'
          /\ bodies' \ {s} = bodies \ {s} /\ held' \ {s} = held \ {s}
      BY <1>1, <1>8, <1>13, <2>6 DEF Hold
    <3>3. srv' = [srv EXCEPT ![s] = h] /\ h.state = srv[s].state /\ h.sent = srv[s].sent
      BY <1>4, <1>6, <2>6
    <3>4. r \in CdUploads =>
            /\ s \in bodies' => ~h.rxend /\ b.made = b.left + h.rx + (IF s \in held' THEN 1 ELSE 0)
            /\ h.rxend => s \notin bodies' /\ ~b.open /\ h.rx = b.made
      BY <3>1, <3>2
    <3> QED BY <1>1, <1>2, <1>4, <2>2, <2>3, <3>2, <3>3, <3>4, FeedStep
  <2> QED BY <1>13, <2>5, <2>6
<1>14. CASE FeedEnd(s)
  <2>1. s \notin held /\ a.left = 0 /\ ~a.open /\ srv' = [srv EXCEPT ![s].rxend = TRUE] /\ bodies' = bodies \ {s}
        /\ UNCHANGED <<held, app>>
    BY <1>3, <1>5, <1>14 DEF FeedEnd
  <2> DEFINE e == [h EXCEPT !.rxend = TRUE]
  <2>2. e \in Srvs /\ e.rx = h.rx /\ e.state = h.state /\ e.sent = h.sent /\ e.rxend = TRUE
    BY DEF Srvs
  <2>3. srv' = [srv EXCEPT ![s] = e]
    BY <1>1, <1>4, <2>1 DEF DriverTypes
  <2> HIDE DEF e
  <2>4. r \in CdUploads => e.rx = a.made
    <3>1. r \in CdUploads => a.made = a.left + h.rx + 0
      BY <1>7, <2>1
    <3> QED BY <1>8, <2>1, <2>2, <3>1
  <2>5. /\ s \notin bodies' /\ bodies' \subseteq bodies /\ held' \subseteq bodies'
        /\ bodies' \ {s} = bodies \ {s} /\ held' \ {s} = held \ {s}
    BY <1>8, <2>1
  <2>6. app' = [app EXCEPT ![r] = a] /\ e.state = srv[s].state /\ e.sent = srv[s].sent
    BY <1>4, <1>6, <2>1, <2>2
  <2>7. r \in CdUploads =>
          /\ s \in bodies' => ~e.rxend /\ a.made = a.left + e.rx + (IF s \in held' THEN 1 ELSE 0)
          /\ e.rxend => s \notin bodies' /\ ~a.open /\ e.rx = a.made
    BY <2>1, <2>4, <2>5
  <2> QED BY <1>1, <1>2, <1>5, <2>2, <2>3, <2>5, <2>6, <2>7, FeedStep
<1>15. CASE FeedFails(s)
  <2>1. bodies' = bodies \ {s} /\ held' = held \ {s} /\ UNCHANGED <<app, srv>>
    BY <1>15 DEF FeedFails
  <2>2. /\ s \notin bodies' /\ bodies' \subseteq bodies /\ held' \subseteq bodies'
        /\ bodies' \ {s} = bodies \ {s} /\ held' \ {s} = held \ {s}
    BY <1>8, <2>1
  <2>3. /\ srv' = [srv EXCEPT ![s] = h] /\ app' = [app EXCEPT ![r] = a]
        /\ h.state = srv[s].state /\ h.sent = srv[s].sent
    BY <1>4, <1>6, <2>1
  <2>4. r \in CdUploads =>
          /\ s \in bodies' => ~h.rxend /\ a.made = a.left + h.rx + (IF s \in held' THEN 1 ELSE 0)
          /\ h.rxend => s \notin bodies' /\ ~a.open /\ h.rx = a.made
    BY <1>7, <2>2
  <2> QED BY <1>1, <1>2, <1>4, <1>5, <2>2, <2>3, <2>4, FeedStep
<1>16. CASE FeedBody(s)
  BY <1>3, <1>12, <1>13, <1>16 DEF FeedBody
<1> QED BY <1>14, <1>15, <1>16

LEMMA ProduceStep ==
    ASSUME DriverInv, NEW r \in CdRequests, Produce(r)
    PROVE  DriverInv'
<1>1. /\ DriverTypes /\ Untouched /\ opened \in Seq(CdRequests) /\ app[r].open
      /\ UNCHANGED <<drv, rxq, deferred, opened, pend, bodies, held, user, srv, wire, events>>
  BY DEF DriverInv, DriverTypes, Produce
<1>2. PICK a \in Apps : a = app[r]
  BY <1>1 DEF DriverTypes
<1>3. a.made \in Nat /\ a.left \in Nat
  BY DEF Apps
<1>4. PICK b \in Apps :
        /\ app' = [app EXCEPT ![r] = b]
        /\ (b.made = a.made /\ b.left = a.left) \/ (b.made = a.made + 1 /\ b.left = a.left + 1)
  <2>1. PICK m \in Nat, l \in Nat : m = a.made + 1 /\ l = a.left + 1
    BY <1>3
  <2>2. CASE app' = [app EXCEPT ![r].made = @ + 1, ![r].left = @ + 1]
    <3> DEFINE b == [a EXCEPT !.made = m, !.left = l]
    <3>1. app' = [app EXCEPT ![r] = b]
      BY <1>1, <1>2, <2>1, <2>2 DEF DriverTypes
    <3>2. b \in Apps /\ b.made = m /\ b.left = l
      BY DEF Apps
    <3> QED BY <2>1, <3>1, <3>2
  <2>3. CASE app' = [app EXCEPT ![r].open = FALSE]
    <3> DEFINE b == [a EXCEPT !.open = FALSE]
    <3>1. app' = [app EXCEPT ![r] = b]
      BY <1>1, <1>2, <2>3 DEF DriverTypes
    <3>2. b \in Apps /\ b.made = a.made /\ b.left = a.left
      BY DEF Apps
    <3> QED BY <3>1, <3>2
  <2> QED BY <2>2, <2>3 DEF Produce
<1>5. app'[r] = b /\ \A x \in CdRequests \ {r} : app'[x] = app[x]
  BY <1>1, <1>4 DEF DriverTypes
<1>6. DriverTypes'
  BY <1>1, <1>4 DEF DriverTypes
<1>7. Flight' = Flight
  BY <1>1 DEF Flight
<1>8. OnePlace'
  BY <1>1, QuietPlaces
<1>9. Untouched'
  <2>1. a.made = a.left => b.made = b.left
    BY <1>3, <1>4
  <2> QED BY <1>1, <1>2, <1>5, <1>7, <2>1 DEF Untouched
<1>10. \A s \in 1..Len(opened) : ResponseKept(s)'
  BY <1>1, <1>7, QuietResponses
<1>11. ASSUME NEW s \in 1..Len(opened) PROVE UploadKept(s)'
  <2>1. UploadKept(s) /\ opened[s] \in CdRequests /\ s \in CdRequests
    BY <1>1, StreamsFit DEF DriverInv
  <2>2. CASE opened[s] # r
    BY <1>1, <1>5, <2>1, <2>2 DEF UploadKept
  <2>3. CASE opened[s] = r
    <3>1. r \in CdUploads => ~srv[s].rxend
      BY <1>1, <2>1, <2>3 DEF UploadKept
    <3>2. srv[s].rx \in Nat
      BY <1>1, <2>1 DEF DriverTypes, Srvs
    <3>3. ASSUME r \in CdUploads, s \in bodies
          PROVE  b.made = b.left + srv[s].rx + (IF s \in held THEN 1 ELSE 0)
      <4>1. a.made = a.left + srv[s].rx + (IF s \in held THEN 1 ELSE 0)
        BY <1>2, <2>1, <2>3, <3>3 DEF UploadKept
      <4>2. PICK x \in Nat : x = (IF s \in held THEN 1 ELSE 0)
        OBVIOUS
      <4>3. b.made = b.left + srv[s].rx + x
        BY <1>3, <1>4, <3>2, <4>1, <4>2
      <4> QED BY <4>2, <4>3
    <3> QED BY <1>1, <1>5, <2>3, <3>1, <3>3 DEF UploadKept
  <2> QED BY <2>2, <2>3
<1> QED BY <1>1, <1>6, <1>8, <1>9, <1>10, <1>11 DEF DriverInv

\* A frame arrives: behind all others, the next chunk of its stream if it is one, and
\* never behind the end of its stream.
LEMMA ArrivesStep ==
    ASSUME DriverInv, drv.pc = "poll", NEW f \in Frames, wire' = Append(wire, f), f.stream <= Len(opened),
           srv' \in [CdRequests -> Srvs],
           \A x \in CdRequests : srv'[x].rx = srv[x].rx /\ srv'[x].rxend = srv[x].rxend,
           \A x \in CdRequests : x > Len(opened) => srv'[x] = srv[x],
           \A x \in 1..Len(opened) :
              \/ ~OfStream(f, x) /\ srv'[x] = srv[x]
              \/ /\ srv[x].state \notin {"ended", "reset"}
                 /\ IF Chunk(f, x) THEN srv'[x].sent = srv[x].sent + 1 /\ f.chunk = srv'[x].sent
                                   ELSE srv'[x].sent = srv[x].sent
                 /\ LastOf(f, x) => srv'[x].state = IF f.type = "rst" THEN "reset" ELSE "ended",
           UNCHANGED <<drv, rxq, deferred, opened, pend, bodies, held, user, app, events>>
    PROVE  DriverInv'
<1>1. DriverTypes /\ Untouched /\ opened \in Seq(CdRequests) /\ Len(opened) \in Nat /\ wire \in Seq(Frames)
  BY StreamsFit DEF DriverInv, DriverTypes
<1>2. PICK w : w = Append(wire, f)
  OBVIOUS
<1>3. PICK n \in Nat : n = Len(wire)
  BY <1>1
<1>4. w \in Seq(Frames) /\ Len(w) = n + 1 /\ w[n + 1] = f /\ \A i \in 1..n : w[i] = wire[i]
  BY <1>1, <1>2, <1>3, AppendFacts
<1>5. Flight = wire /\ Flight' = w /\ wire' = w
  BY <1>2 DEF Flight
<1>6. \A i \in 1..(n + 1) : i \in 1..n \/ i = n + 1
  OBVIOUS
<1>7. DriverTypes'
  BY <1>1, <1>4, <1>5 DEF DriverTypes
<1>8. OnePlace'
  BY QuietPlaces
<1>9. Untouched'
  <2>1. \A i \in 1..n : wire[i].stream <= Len(opened)
    BY <1>1, <1>3, <1>5 DEF Untouched
  <2>2. \A i \in 1..(n + 1) : w[i].stream <= Len(opened)
    BY <1>4, <1>6, <2>1
  <2>3. \A i \in 1..Len(Flight') : Flight'[i].stream <= Len(opened')
    BY <1>4, <1>5, <2>2
  <2>4. \A s \in CdRequests : s > Len(opened') =>
          srv'[s].rx = 0 /\ ~srv'[s].rxend /\ srv'[s].state = "none" /\ srv'[s].sent = 0
    BY <1>1 DEF Untouched
  <2>5. \A r \in CdRequests : ~Occurs(opened', r) =>
          user'[r].got = 0 /\ user'[r].body # "end" /\ app'[r].made = app'[r].left
    BY <1>1 DEF Untouched
  <2> QED BY <2>3, <2>4, <2>5 DEF Untouched
<1>10. ASSUME NEW s \in 1..Len(opened) PROVE ResponseKept(s)'
  <2>1. s \in CdRequests /\ ResponseKept(s)
    BY <1>1, StreamsFit DEF DriverInv
  <2>2. PICK r \in CdRequests : r = opened[s]
    <3>1. opened \in Seq(CdRequests)
      BY <1>1
    <3>2. opened[s] \in CdRequests
      BY ONLY <3>1, s \in 1..Len(opened)
    <3> QED BY <3>2
  <2>3. user[r].got \in Nat /\ srv[s].sent \in Nat /\ srv'[s].sent \in Nat
    <3>1. user[r] \in Users /\ srv[s] \in Srvs /\ srv'[s] \in Srvs
      BY <1>1, <2>1 DEF DriverTypes
    <3> QED BY <3>1 DEF Users, Srvs
  <2>4. /\ OfStream(f, s) \/ (~Chunk(f, s) /\ ~LastOf(f, s))
        /\ (~OfStream(f, s) /\ srv'[s] = srv[s])
           \/ (/\ srv[s].state \notin {"ended", "reset"}
               /\ IF Chunk(f, s) THEN srv'[s].sent = srv[s].sent + 1 /\ f.chunk = srv'[s].sent
                                 ELSE srv'[s].sent = srv[s].sent
               /\ LastOf(f, s) => srv'[s].state = IF f.type = "rst" THEN "reset" ELSE "ended")
    BY DEF OfStream, Chunk, LastOf
  <2>5. CASE s \in pend
    <3>1. /\ user[r].body # "end" /\ user[r].got <= srv[s].sent
          /\ Carries(wire, s, user[r].got, srv[s].sent)
          /\ \A i \in 1..n : LastOf(wire[i], s) =>
                srv[s].state = IF wire[i].type = "rst" THEN "reset" ELSE "ended"
      BY <1>3, <1>5, <2>1, <2>2, <2>5 DEF ResponseKept
    <3>2. srv[s].state \notin {"ended", "reset"} => \A i \in 1..n : ~LastOf(wire[i], s)
      BY <3>1
    <3>3. OfStream(f, s) => \A i \in 1..Len(wire) : ~LastOf(wire[i], s)
      BY <1>3, <2>4, <3>2
    <3>4. IF Chunk(f, s) THEN srv'[s].sent = srv[s].sent + 1 /\ f.chunk = srv'[s].sent ELSE srv'[s].sent = srv[s].sent
      BY <2>4
    <3>5. Carries(w, s, user[r].got, srv'[s].sent)
      BY <1>1, <1>2, <2>3, <3>1, <3>3, <3>4, CarriesAppend
    <3>6. user[r].got <= srv'[s].sent
      BY <2>3, <3>1, <3>4
    <3>7. ASSUME NEW i \in 1..(n + 1), LastOf(w[i], s)
          PROVE  srv'[s].state = IF w[i].type = "rst" THEN "reset" ELSE "ended"
      <4>1. CASE i \in 1..n
        <5>1. w[i] = wire[i]
          BY <1>4, <4>1
        <5>2. srv'[s] = srv[s]
          BY <2>4, <3>2, <3>7, <4>1, <5>1
        <5> QED BY <3>1, <3>7, <4>1, <5>1, <5>2
      <4>2. CASE i = n + 1
        BY <1>4, <2>4, <3>7, <4>2
      <4> QED BY <1>6, <4>1, <4>2
    <3> QED BY <1>4, <1>5, <2>2, <2>5, <3>1, <3>5, <3>6, <3>7 DEF ResponseKept
  <2>6. CASE s \notin pend
    <3>1. user[r].body = "end" => srv[s].state = "ended" /\ user[r].got = srv[s].sent
      BY <2>1, <2>2, <2>6 DEF ResponseKept
    <3>2. user[r].body = "end" => srv'[s] = srv[s]
      BY <2>4, <3>1
    <3> QED BY <2>2, <2>6, <3>1, <3>2 DEF ResponseKept
  <2> QED BY <2>5, <2>6
<1>11. \A s \in 1..Len(opened) : UploadKept(s)'
  BY QuietUploads
<1> QED BY <1>7, <1>8, <1>9, <1>10, <1>11 DEF DriverInv

LEMMA FrameStep ==
    ASSUME DriverInv, NEW s \in 1..Len(opened), ServerSends(s)
    PROVE  DriverInv'
<1>1. /\ DriverTypes /\ s \in CdRequests /\ Len(opened) \in Nat /\ drv.pc = "poll"
      /\ UNCHANGED <<drv, rxq, deferred, opened, pend, bodies, held, user, app, events>>
  BY StreamsFit DEF DriverInv, ServerSends
<1>2. PICK t \in {"head", "headend", "data", "dataend", "trailers", "rst"} :
        /\ CASE t \in {"head", "headend"} -> srv[s].state = "asked" /\ s \in pend
             [] t = "rst" -> srv[s].state \in {"asked", "head"} /\ s \in pend
             [] t \in {"data", "dataend"} -> srv[s].state = "head" /\ srv[s].sent < CdChunks
             [] OTHER -> srv[s].state = "head"
        /\ srv' = [srv EXCEPT ![s].state = CASE t = "head" -> "head"
                                             [] t \in {"headend", "dataend", "trailers"} -> "ended"
                                             [] t = "rst" -> "reset"
                                             [] OTHER -> @,
                              ![s].sent = IF t \in {"data", "dataend"} THEN @ + 1 ELSE @]
        /\ wire' = Append(wire, Frame(t, s, srv'[s].sent))
  BY DEF ServerSends
<1>3. PICK h \in Srvs : h = srv[s]
  BY <1>1 DEF DriverTypes
<1>4. h.sent \in Nat /\ h.state \in {"none", "asked", "head", "ended", "reset"}
  BY DEF Srvs
<1>5. PICK m \in Nat : m = IF t \in {"data", "dataend"} THEN h.sent + 1 ELSE h.sent
  BY <1>4
<1>6. PICK p \in {"none", "asked", "head", "ended", "reset"} :
        p = CASE t = "head" -> "head"
              [] t \in {"headend", "dataend", "trailers"} -> "ended"
              [] t = "rst" -> "reset"
              [] OTHER -> h.state
  BY <1>2, <1>4
<1> DEFINE g == [h EXCEPT !.state = p, !.sent = m]
<1>7. g \in Srvs /\ g.state = p /\ g.sent = m /\ g.rx = h.rx /\ g.rxend = h.rxend
  BY DEF Srvs
<1>8. srv' = [srv EXCEPT ![s] = g]
  BY <1>1, <1>2, <1>3, <1>5, <1>6 DEF DriverTypes
<1> HIDE DEF g
<1>9. /\ srv' \in [CdRequests -> Srvs] /\ srv'[s] = g
      /\ \A x \in CdRequests \ {s} : srv'[x] = srv[x]
  BY <1>1, <1>7, <1>8 DEF DriverTypes
<1>10. PICK f \in Frames : f = Frame(t, s, m)
  <2>1. s \in Nat
    BY <1>1
  <2> QED BY <2>1 DEF Frame, Frames
<1>11. f.type = t /\ f.stream = s /\ f.chunk = m
  BY <1>10 DEF Frame
<1>12. wire' = Append(wire, f) /\ f.stream <= Len(opened)
  <2>1. srv'[s].sent = m
    BY <1>7, <1>9
  <2>2. wire' = Append(wire, Frame(t, s, m))
    BY <1>2, <2>1
  <2> QED BY <1>1, <1>10, <1>11, <2>2
<1>13. h.state \notin {"ended", "reset"}
  BY <1>2, <1>3
<1>14. ASSUME NEW x \in 1..Len(opened)
       PROVE  \/ ~OfStream(f, x) /\ srv'[x] = srv[x]
              \/ /\ srv[x].state \notin {"ended", "reset"}
                 /\ IF Chunk(f, x) THEN srv'[x].sent = srv[x].sent + 1 /\ f.chunk = srv'[x].sent
                                   ELSE srv'[x].sent = srv[x].sent
                 /\ LastOf(f, x) => srv'[x].state = IF f.type = "rst" THEN "reset" ELSE "ended"
  <2>1. CASE x # s
    <3>1. x \in CdRequests
      BY <1>1, StreamsFit
    <3> QED BY <1>9, <1>11, <2>1, <3>1 DEF OfStream
  <2>2. CASE x = s
    <3>1. IF Chunk(f, s) THEN m = h.sent + 1 ELSE m = h.sent
      BY <1>5, <1>11 DEF Chunk
    <3>2. LastOf(f, s) => p = IF f.type = "rst" THEN "reset" ELSE "ended"
      BY <1>6, <1>11 DEF LastOf
    <3> QED BY <1>3, <1>7, <1>9, <1>11, <1>13, <2>2, <3>1, <3>2
  <2> QED BY <2>1, <2>2
<1>15. \A x \in CdRequests : srv'[x].rx = srv[x].rx /\ srv'[x].rxend = srv[x].rxend
  BY <1>3, <1>7, <1>9
<1>16. \A x \in CdRequests : x > Len(opened) => srv'[x] = srv[x]
  BY <1>1, <1>9
<1> QED BY <1>1, <1>9, <1>12, <1>14, <1>15, <1>16, ArrivesStep

LEMMA StopStep ==
    ASSUME DriverInv, ServerStops
    PROVE  DriverInv'
<1>1. /\ DriverTypes /\ Len(opened) \in Nat /\ drv.pc = "poll" /\ srv \in [CdRequests -> Srvs]
      /\ UNCHANGED <<drv, rxq, deferred, opened, pend, bodies, held, user, app, srv, events>>
  BY StreamsFit DEF DriverInv, DriverTypes, ServerStops
<1>2. PICK t \in {"goaway", "eof", "bad"}, last \in 0..Len(opened) : wire' = Append(wire, Frame(t, last, 0))
  BY DEF ServerStops
<1>3. PICK f \in Frames : f = Frame(t, last, 0)
  <2>1. last \in Nat
    BY <1>1
  <2> QED BY <2>1 DEF Frame, Frames
<1>4. f.type = t /\ f.stream = last
  BY <1>3 DEF Frame
<1>5. wire' = Append(wire, f) /\ f.stream <= Len(opened)
  BY <1>1, <1>2, <1>3, <1>4
<1>6. \A x \in 1..Len(opened) : ~OfStream(f, x) /\ srv'[x] = srv[x]
  BY <1>1, <1>4 DEF OfStream
<1> QED BY <1>1, <1>5, <1>6, ArrivesStep

LEMMA DriverStart ==
    CdInit => DriverInv
<1> SUFFICES ASSUME CdInit PROVE DriverInv
  OBVIOUS
<1>1. Len(opened) = 0 /\ Len(rxq) = 0 /\ Len(deferred) = 0 /\ Flight = <<>>
  BY DEF CdInit, Flight
<1>2. DriverTypes
  <2>1. user \in [CdRequests -> Users]
    BY DEF CdInit, Users
  <2>2. app \in [CdRequests -> Apps]
    BY DEF CdInit, Apps
  <2>3. srv \in [CdRequests -> Srvs]
    BY DEF CdInit, Srvs, Streams
  <2>4. /\ drv \in [pc : {"cmds", "poll", "events", "feed", "retry", "exit"}, goaway : BOOLEAN, closed : BOOLEAN]
        /\ rxq \in Seq(CdRequests) /\ deferred \in Seq(CdRequests) /\ opened \in Seq(CdRequests)
        /\ wire \in Seq(Frames) /\ events \in Seq(Frames)
    BY DEF CdInit
  <2> QED BY <2>1, <2>2, <2>3, <2>4 DEF CdInit, DriverTypes
<1>3. \A i \in 1..0 : FALSE
  OBVIOUS
<1>4. \A r : ~Occurs(opened, r) /\ ~Occurs(rxq, r) /\ ~Occurs(deferred, r)
  BY <1>1, <1>3 DEF Occurs
<1>5. OnePlace
  BY <1>1, <1>3, <1>4 DEF OnePlace, Distinct
<1>6. Untouched
  BY <1>1, <1>3 DEF CdInit, Untouched, Streams
<1> QED BY <1>1, <1>2, <1>3, <1>5, <1>6 DEF DriverInv

LEMMA DriverNext ==
    ASSUME DriverInv, [CdNext]_cdvars
    PROVE  DriverInv'
<1>1. CASE UNCHANGED cdvars
  <2>1. UNCHANGED <<drv, rxq, deferred, opened, pend, bodies, held, user, app, srv, wire, events>>
    BY <1>1 DEF cdvars
  <2>2. Flight' = Flight
    BY <2>1 DEF Flight
  <2> QED BY <2>1, <2>2, QuietPlaces, QuietUntouched, QuietResponses, QuietUploads DEF DriverInv, DriverTypes
<1>2. CASE Driver
  BY <1>2, CommandStep, RoundStep, PollStep, PendingStep, OtherStep, FeedSteps DEF Driver
<1>3. CASE ServerStops
  BY <1>3, StopStep
<1>4. CASE \E r \in CdRequests : Submit(r) \/ Produce(r)
  BY <1>4, SubmitStep, ProduceStep
<1>5. CASE \E s \in 1..Len(opened) : ServerSends(s)
  BY <1>5, FrameStep
<1> QED BY <1>1, <1>2, <1>3, <1>4, <1>5 DEF CdNext

LEMMA BodiesWhole ==
    ASSUME DriverInv
    PROVE  NoTruncation
<1> SUFFICES ASSUME NEW s \in 1..Len(opened)
             PROVE  LET r == Request(s) IN
                    /\ user[r].body = "end" => srv[s].state = "ended" /\ user[r].got = srv[s].sent
                    /\ srv[s].rxend /\ r \in CdUploads => srv[s].rx = app[r].made
  BY DEF NoTruncation
<1>1. ResponseKept(s) /\ UploadKept(s)
  BY DEF DriverInv
<1> QED BY <1>1 DEF ResponseKept, UploadKept, Request

(* driver() of h2.rs, for any requests, stream limit, deferral limit and     *)
(* bounds: a caller's body ends only with the end the server sent and after  *)
(* every chunk of it, and a streamed request body that the server sees end   *)
(* has every chunk the application produced.                                 *)
THEOREM BodiesStayWhole == CdSpec => []NoTruncation
<1>1. CdInit => DriverInv
  BY DriverStart
<1>2. DriverInv /\ [CdNext]_cdvars => DriverInv'
  BY DriverNext
<1>3. DriverInv => NoTruncation
  BY BodiesWhole
<1> QED BY <1>1, <1>2, <1>3, PTL DEF CdSpec

-----------------------------------------------------------------------------
(***************************************************************************)
(* StreamHonest for every script, every timeout and any interleaving of    *)
(* the threads.  Every frame under way is half of the message that its     *)
(* place in the stream says, counted from what the client has returned;    *)
(* FlowOf relates the five places it can be in.                            *)
(***************************************************************************)
GMsg == {"m1", "m2", "big", "up", "down"}
GPiece == GMsg \X {"head", "rest", "error"}

\* Piece p of a stream of messages, two to a message.
IsPiece(sent, p, x) ==
  \E j \in 1..Len(sent) : sent[j] # "big" /\ ((p = 2 * j - 1 /\ x = <<sent[j], "head">>) \/ (p = 2 * j /\ x = <<sent[j], "rest">>))

Pieces(sent, from, seq) == \A i \in 1..Len(seq) : IsPiece(sent, from + i, seq[i])
NoError(seq, n) == \A k \in 1..n : seq[k][2] # "error"
PiecesToError(sent, from, seq) == \A i \in 1..Len(seq) : NoError(seq, i) => IsPiece(sent, from + i, seq[i])

GotOf(sent, got) == Len(got) <= Len(sent) /\ \A i \in 1..Len(got) : got[i] = sent[i] /\ got[i] # "big"
MsgsOf(sent, msgs) == Len(msgs) <= Len(sent) /\ \A i \in 1..Len(msgs) : msgs[i] = sent[Len(sent) - Len(msgs) + i]

FlowOf(sent, msgs, got, buf, q, body, rx, done) ==
  /\ sent \in Seq(GMsg) /\ msgs \in Seq(GMsg) /\ got \in Seq(GMsg)
  /\ buf \in Seq(GPiece) /\ q \in Seq(GPiece) /\ body \in Seq(GPiece)
  /\ GotOf(sent, got) /\ MsgsOf(sent, msgs) /\ Len(buf) <= 2
  /\ Pieces(sent, 2 * Len(got), buf) /\ Pieces(sent, 2 * Len(got) + Len(buf), q)
  /\ PiecesToError(sent, 2 * Len(got) + Len(buf) + Len(q), body)
  /\ rx /\ NoError(body, Len(body)) => 2 * Len(got) + Len(buf) + Len(q) + Len(body) = 2 * (Len(sent) - Len(msgs))
  /\ done => 2 * Len(got) + Len(buf) + Len(q) = 2 * Len(sent)

\* A queue read from the front and written at the back.
LEMMA HeadTail ==
  ASSUME NEW S, NEW s \in Seq(S), s # <<>>
  PROVE  /\ Head(s) \in S /\ Head(s) = s[1] /\ Tail(s) \in Seq(S) /\ Len(s) \in Nat \ {0} /\ Len(Tail(s)) = Len(s) - 1
         /\ \A i \in 1..Len(Tail(s)) : i + 1 \in 1..Len(s) /\ Tail(s)[i] = s[i + 1]
<1>1. PICK n \in Nat : n = Len(s)
  OBVIOUS
<1>2. n # 0
  BY <1>1
<1>3. Head(s) = s[1] /\ s[1] \in S /\ Tail(s) \in Seq(S) /\ Len(Tail(s)) = n - 1
  BY <1>1, <1>2
<1>4. \A i \in 1..(n - 1) : i + 1 \in 1..n /\ Tail(s)[i] = s[i + 1]
  BY <1>1, <1>2, <1>3
<1> QED BY <1>1, <1>2, <1>3, <1>4

LEMMA AppendIs ==
  ASSUME NEW S, NEW s \in Seq(S), NEW e \in S
  PROVE  /\ Append(s, e) \in Seq(S) /\ Len(s) \in Nat /\ Len(Append(s, e)) = Len(s) + 1 /\ Append(s, e)[Len(s) + 1] = e
         /\ \A i \in 1..Len(s) : Append(s, e)[i] = s[i]
  OBVIOUS

LEMMA PieceLater ==
  ASSUME NEW sent \in Seq(GMsg), NEW m \in GMsg, NEW p, NEW x, IsPiece(sent, p, x)
  PROVE  IsPiece(Append(sent, m), p, x)
<1>1. PICK j \in 1..Len(sent) : sent[j] # "big" /\ ((p = 2 * j - 1 /\ x = <<sent[j], "head">>) \/ (p = 2 * j /\ x = <<sent[j], "rest">>))
  BY DEF IsPiece
<1>2. Len(sent) \in Nat /\ Len(Append(sent, m)) = Len(sent) + 1 /\ Append(sent, m)[j] = sent[j]
  BY AppendIs
<1>3. j \in 1..Len(Append(sent, m))
  BY ONLY <1>2, j \in 1..Len(sent)
<1>4. Append(sent, m)[j] # "big" /\ ((p = 2 * j - 1 /\ x = <<Append(sent, m)[j], "head">>) \/ (p = 2 * j /\ x = <<Append(sent, m)[j], "rest">>))
  BY ONLY <1>1, <1>2
<1> QED BY ONLY <1>3, <1>4 DEF IsPiece

\* A piece is at most one message's past the last.
LEMMA PieceOf ==
  ASSUME NEW sent \in Seq(GMsg), NEW t \in Nat, NEW x, NEW y, IsPiece(sent, 2 * t + 1, x), IsPiece(sent, 2 * t + 2, y)
  PROVE  t + 1 \in 1..Len(sent) /\ x[1] = sent[t + 1] /\ sent[t + 1] # "big"
<1>0. PICK n \in Nat : n = Len(sent)
  OBVIOUS
<1>1. PICK j \in 1..n : sent[j] # "big" /\ ((2 * t + 1 = 2 * j - 1 /\ x = <<sent[j], "head">>) \/ (2 * t + 1 = 2 * j /\ x = <<sent[j], "rest">>))
  BY <1>0 DEF IsPiece
<1>2. 2 * t + 1 # 2 * j
  OBVIOUS
<1>3. 2 * t + 1 = 2 * j - 1 /\ x = <<sent[j], "head">>
  BY ONLY <1>1, <1>2
<1>4. j = t + 1
  BY ONLY <1>3, t \in Nat, j \in 1..n, n \in Nat
<1> QED BY <1>0, <1>1, <1>3, <1>4

\* tx.send()
LEMMA FlowSend ==
  ASSUME NEW sent, NEW msgs, NEW got, NEW buf, NEW q, NEW body, NEW rx, NEW m \in GMsg, FlowOf(sent, msgs, got, buf, q, body, rx, FALSE)
  PROVE  FlowOf(Append(sent, m), Append(msgs, m), got, buf, q, body, rx, FALSE)
<1>1. sent \in Seq(GMsg) /\ msgs \in Seq(GMsg) /\ got \in Seq(GMsg) /\ buf \in Seq(GPiece) /\ q \in Seq(GPiece) /\ body \in Seq(GPiece) /\ Len(buf) <= 2
  BY DEF FlowOf
<1>2. PICK n \in Nat, k \in Nat, t \in Nat, b \in Nat, c \in Nat, d \in Nat :
        n = Len(sent) /\ k = Len(msgs) /\ t = Len(got) /\ b = Len(buf) /\ c = Len(q) /\ d = Len(body)
  BY <1>1, SMTT(60)
<1>3. PICK sent2 \in Seq(GMsg), msgs2 \in Seq(GMsg) : sent2 = Append(sent, m) /\ msgs2 = Append(msgs, m)
  BY <1>1, AppendIs
<1>4. /\ Len(sent2) = n + 1 /\ sent2[n + 1] = m /\ (\A i \in 1..n : sent2[i] = sent[i])
      /\ Len(msgs2) = k + 1 /\ msgs2[k + 1] = m /\ (\A i \in 1..k : msgs2[i] = msgs[i])
  BY <1>1, <1>2, <1>3, AppendIs
<1>5. \A p, x : IsPiece(sent, p, x) => IsPiece(sent2, p, x)
  BY <1>1, <1>3, PieceLater
<1>6. GotOf(sent2, got)
  <2>1. t <= n /\ \A i \in 1..t : got[i] = sent[i] /\ got[i] # "big"
    BY <1>2 DEF FlowOf, GotOf
  <2>2. t <= n + 1 /\ \A i \in 1..t : got[i] = sent2[i] /\ got[i] # "big"
    BY ONLY <1>4, <2>1, t \in Nat, n \in Nat
  <2> QED BY ONLY <1>2, <1>4, <2>2 DEF GotOf
<1>7. MsgsOf(sent2, msgs2)
  <2>1. k <= n /\ \A i \in 1..k : msgs[i] = sent[n - k + i]
    BY <1>2 DEF FlowOf, MsgsOf
  <2>2. ASSUME NEW i \in 1..(k + 1) PROVE msgs2[i] = sent2[(n + 1) - (k + 1) + i]
    <3>1. (n + 1) - (k + 1) + i = n - k + i
      OBVIOUS
    <3>2. CASE i = k + 1
      <4>1. n - k + i = n + 1
        BY ONLY <3>2, n \in Nat, k \in Nat
      <4> QED BY ONLY <1>4, <3>1, <3>2, <4>1
    <3>3. CASE i # k + 1
      <4>1. i \in 1..k /\ n - k + i \in 1..n
        BY ONLY <2>1, <3>3, n \in Nat, k \in Nat, i \in 1..(k + 1)
      <4> QED BY ONLY <1>4, <2>1, <3>1, <4>1
    <3> QED BY <3>2, <3>3
  <2>3. k + 1 <= n + 1
    BY ONLY <2>1, n \in Nat, k \in Nat
  <2> QED BY ONLY <1>4, <2>2, <2>3 DEF MsgsOf
<1>8. Pieces(sent2, 2 * Len(got), buf) /\ Pieces(sent2, 2 * Len(got) + Len(buf), q) /\ PiecesToError(sent2, 2 * Len(got) + Len(buf) + Len(q), body)
  BY <1>5 DEF FlowOf, Pieces, PiecesToError
<1>9. rx /\ NoError(body, Len(body)) => 2 * Len(got) + Len(buf) + Len(q) + Len(body) = 2 * (Len(sent2) - Len(msgs2))
  <2>1. (n + 1) - (k + 1) = n - k
    OBVIOUS
  <2> QED BY <1>2, <1>4, <2>1 DEF FlowOf
<1>10. FlowOf(sent2, msgs2, got, buf, q, body, rx, FALSE)
  BY ONLY <1>1, <1>6, <1>7, <1>8, <1>9, sent2 \in Seq(GMsg), msgs2 \in Seq(GMsg) DEF FlowOf
<1> QED BY ONLY <1>3, <1>10

\* One sequence begins another exactly when they agree that far.
LEMMA PrefixIs ==
  ASSUME NEW S, NEW s \in Seq(S), NEW t \in Seq(S)
  PROVE  IsPrefix(s, t) <=> \A i \in 1..Len(s) : i <= Len(t) /\ t[i] = s[i]
<1>1. PICK n \in Nat, m \in Nat : n = Len(s) /\ m = Len(t)
  OBVIOUS
<1>2. SubSeq(s, 1, n) = s
  BY <1>1
<1>3. ASSUME IsPrefix(s, t), NEW i \in 1..n PROVE i <= m /\ t[i] = s[i]
  <2>1. n <= m /\ s = SubSeq(t, 1, n)
    BY <1>1, <1>2, <1>3 DEF IsPrefix
  <2>2. SubSeq(t, 1, n)[i] = t[i]
    BY ONLY <1>1, <2>1, t \in Seq(S), i \in 1..n, n \in Nat, m \in Nat
  <2> QED BY <2>1, <2>2
<1>4. ASSUME \A i \in 1..n : i <= m /\ t[i] = s[i] PROVE IsPrefix(s, t)
  <2>1. n <= m
    <3>1. CASE n = 0
      BY <3>1
    <3>2. CASE n # 0
      BY <1>4, <3>2
    <3> QED BY <3>1, <3>2
  <2>2. SubSeq(t, 1, n) \in Seq(S) /\ Len(SubSeq(t, 1, n)) = n /\ \A i \in 1..n : SubSeq(t, 1, n)[i] = t[i]
    BY ONLY <1>1, <2>1, t \in Seq(S), n \in Nat, m \in Nat
  <2>3. PICK u \in Seq(S) : u = SubSeq(t, 1, n)
    BY <2>2
  <2>4. Len(u) = Len(s) /\ \A i \in 1..Len(u) : u[i] = s[i]
    BY ONLY <1>1, <1>4, <2>2, <2>3
  <2>5. u = s
    BY ONLY <2>4, u \in Seq(S), s \in Seq(S)
  <2> QED BY <1>1, <1>2, <2>1, <2>3, <2>5 DEF IsPrefix
<1> QED BY <1>1, <1>3, <1>4

LEMMA MsgsTail ==
  ASSUME NEW sent \in Seq(GMsg), NEW msgs \in Seq(GMsg), MsgsOf(sent, msgs), msgs # <<>>
  PROVE  /\ MsgsOf(sent, Tail(msgs)) /\ Tail(msgs) \in Seq(GMsg) /\ Len(Tail(msgs)) = Len(msgs) - 1 /\ Len(msgs) >= 1 /\ Len(msgs) <= Len(sent)
         /\ Head(msgs) = sent[Len(sent) - Len(msgs) + 1] /\ Head(msgs) \in GMsg
<1>1. PICK n \in Nat, k \in Nat : n = Len(sent) /\ k = Len(msgs)
  OBVIOUS
<1>2. PICK rest \in Seq(GMsg) : rest = Tail(msgs)
  BY HeadTail
<1>3. /\ k # 0 /\ Head(msgs) = msgs[1] /\ Head(msgs) \in GMsg /\ Len(rest) = k - 1
      /\ \A i \in 1..(k - 1) : i + 1 \in 1..k /\ rest[i] = msgs[i + 1]
  BY <1>1, <1>2, HeadTail
<1>4. k <= n /\ \A i \in 1..k : msgs[i] = sent[n - k + i]
  BY <1>1 DEF MsgsOf
<1>5. ASSUME NEW i \in 1..(k - 1) PROVE rest[i] = sent[n - (k - 1) + i]
  <2>1. i + 1 \in 1..k /\ n - (k - 1) + i = n - k + (i + 1)
    BY <1>3
  <2> QED BY ONLY <1>3, <1>4, <2>1, i \in 1..(k - 1)
<1>6. k >= 1 /\ k - 1 <= n /\ 1 \in 1..k
  BY ONLY <1>3, <1>4, n \in Nat, k \in Nat
<1>7. MsgsOf(sent, rest)
  BY ONLY <1>1, <1>3, <1>5, <1>6 DEF MsgsOf
<1> QED BY ONLY <1>1, <1>2, <1>3, <1>4, <1>6, <1>7

\* frame_outbound() of a message that fits, and of one that does not.
LEMMA FlowFrame ==
  ASSUME NEW sent, NEW msgs, NEW got, NEW buf, NEW q, NEW body, NEW done, FlowOf(sent, msgs, got, buf, q, body, TRUE, done), msgs # <<>>
  PROVE  FlowOf(sent, Tail(msgs), got, buf, q, body \o FrameOutbound(Head(msgs)), TRUE, done)
<1>1. sent \in Seq(GMsg) /\ msgs \in Seq(GMsg) /\ got \in Seq(GMsg) /\ buf \in Seq(GPiece) /\ q \in Seq(GPiece) /\ body \in Seq(GPiece) /\ Len(buf) <= 2
  BY DEF FlowOf
<1>2. PICK n \in Nat, k \in Nat, t \in Nat, b \in Nat, c \in Nat, d \in Nat :
        n = Len(sent) /\ k = Len(msgs) /\ t = Len(got) /\ b = Len(buf) /\ c = Len(q) /\ d = Len(body)
  BY <1>1, SMTT(60)
<1>3. PICK m \in GMsg, rest \in Seq(GMsg) : m = Head(msgs) /\ rest = Tail(msgs)
  BY <1>1, HeadTail
<1>4. MsgsOf(sent, msgs)
  BY DEF FlowOf
<1>5. MsgsOf(sent, rest) /\ Len(rest) = k - 1 /\ k >= 1 /\ k <= n /\ m = sent[n - k + 1]
  BY ONLY <1>1, <1>2, <1>3, <1>4, MsgsTail, msgs # <<>>
<1>6. PICK from \in Nat : from = 2 * t + b + c
  OBVIOUS
<1>7. \A i \in 1..d : NoError(body, i) => IsPiece(sent, from + i, body[i])
  BY <1>2, <1>6 DEF FlowOf, PiecesToError
<1>8. NoError(body, d) => from + d = 2 * (n - k)
  BY <1>2, <1>6 DEF FlowOf
<1>9. PICK all : all = body \o FrameOutbound(m)
  OBVIOUS
<1>10. /\ all \in Seq(GPiece) /\ PiecesToError(sent, from, all)
       /\ NoError(all, Len(all)) => from + Len(all) = 2 * (n - (k - 1))
  <2>1. CASE m = "big"
    <3>1. PICK x \in GPiece : x = <<m, "error">>
      BY DEF GPiece
    <3>2. <<x>> \in Seq(GPiece) /\ Len(<<x>>) = 1 /\ <<x>>[1] = x /\ x[2] = "error"
      BY <3>1
    <3>3. all = body \o <<x>>
      BY <1>9, <2>1, <3>1 DEF FrameOutbound
    <3>4. all \in Seq(GPiece) /\ Len(all) = d + 1 /\ (\A i \in 1..d : all[i] = body[i]) /\ all[d + 1] = x
      BY ONLY <1>1, <1>2, <3>3, <3>2
    <3>5. ~NoError(all, d + 1)
      <4>1. d + 1 \in 1..(d + 1)
        OBVIOUS
      <4> QED BY ONLY <3>2, <3>4, <4>1 DEF NoError
    <3>6. ASSUME NEW i \in 1..(d + 1), NoError(all, i) PROVE IsPiece(sent, from + i, all[i])
      <4>1. i # d + 1
        BY <3>5, <3>6
      <4>2. i \in 1..d
        BY ONLY <4>1, d \in Nat, i \in 1..(d + 1)
      <4>3. \A j \in 1..i : j \in 1..d
        BY ONLY <4>2, d \in Nat
      <4>4. NoError(body, i)
        BY ONLY <3>4, <3>6, <4>3 DEF NoError
      <4> QED BY ONLY <1>7, <3>4, <4>2, <4>4
    <3> QED BY ONLY <3>4, <3>5, <3>6 DEF PiecesToError
  <2>2. CASE m # "big"
    <3>1. PICK x \in GPiece, y \in GPiece : x = <<m, "head">> /\ y = <<m, "rest">>
      BY DEF GPiece
    <3>2. <<x, y>> \in Seq(GPiece) /\ Len(<<x, y>>) = 2 /\ <<x, y>>[1] = x /\ <<x, y>>[2] = y
      OBVIOUS
    <3>3. all = body \o <<x, y>>
      BY <1>9, <2>2, <3>1 DEF FrameOutbound
    <3>4. all \in Seq(GPiece) /\ Len(all) = d + 2 /\ (\A i \in 1..d : all[i] = body[i]) /\ all[d + 1] = x /\ all[d + 2] = y
      BY ONLY <1>1, <1>2, <3>3, <3>2
    <3>5. ASSUME NEW i \in 1..(d + 2), i >= d, NoError(all, i) PROVE NoError(body, d)
      <4>1. \A j \in 1..d : j \in 1..i
        BY ONLY <3>5, d \in Nat, i \in 1..(d + 2)
      <4> QED BY ONLY <3>4, <3>5, <4>1 DEF NoError
    <3>6. PICK j \in 1..n : j = n - k + 1
      BY <1>5
    <3>7. sent[j] = m
      BY ONLY <1>5, <3>6
    <3>8. ASSUME NEW i \in 1..(d + 2), NoError(all, i) PROVE IsPiece(sent, from + i, all[i])
      <4>1. CASE i <= d
        <5>1. i \in 1..d /\ \A g \in 1..i : g \in 1..d
          BY ONLY <4>1, d \in Nat, i \in 1..(d + 2)
        <5>2. NoError(body, i)
          BY ONLY <3>4, <3>8, <5>1 DEF NoError
        <5> QED BY ONLY <1>7, <3>4, <5>1, <5>2
      <4>2. CASE i = d + 1
        <5>1. i >= d
          BY ONLY <4>2, d \in Nat
        <5>2. from + d = 2 * (n - k)
          BY ONLY <1>8, <3>5, <3>8, <5>1, i \in 1..(d + 2)
        <5>3. from + i = 2 * j - 1
          BY ONLY <3>6, <4>2, <5>2, from \in Nat, d \in Nat, n \in Nat, k \in Nat
        <5>4. all[i] = <<sent[j], "head">> /\ sent[j] # "big"
          BY ONLY <2>2, <3>1, <3>4, <3>7, <4>2
        <5> QED BY ONLY <1>2, <5>3, <5>4, j \in 1..n DEF IsPiece
      <4>3. CASE i = d + 2
        <5>1. i >= d
          BY ONLY <4>3, d \in Nat
        <5>2. from + d = 2 * (n - k)
          BY ONLY <1>8, <3>5, <3>8, <5>1, i \in 1..(d + 2)
        <5>3. from + i = 2 * j
          BY ONLY <3>6, <4>3, <5>2, from \in Nat, d \in Nat, n \in Nat, k \in Nat
        <5>4. all[i] = <<sent[j], "rest">> /\ sent[j] # "big"
          BY ONLY <2>2, <3>1, <3>4, <3>7, <4>3
        <5> QED BY ONLY <1>2, <5>3, <5>4, j \in 1..n DEF IsPiece
      <4>4. i <= d \/ i = d + 1 \/ i = d + 2
        BY ONLY d \in Nat, i \in 1..(d + 2)
      <4> QED BY <4>1, <4>2, <4>3, <4>4
    <3>9. ASSUME NoError(all, d + 2) PROVE from + (d + 2) = 2 * (n - (k - 1))
      <4>1. d + 2 \in 1..(d + 2) /\ d + 2 >= d
        OBVIOUS
      <4>2. from + d = 2 * (n - k)
        BY ONLY <1>8, <3>5, <3>9, <4>1
      <4> QED BY ONLY <4>2, from \in Nat, d \in Nat, n \in Nat, k \in Nat
    <3> QED BY ONLY <3>4, <3>8, <3>9 DEF PiecesToError
  <2> QED BY <2>1, <2>2
<1>11. FlowOf(sent, rest, got, buf, q, all, TRUE, done)
  <2>1. GotOf(sent, got) /\ Pieces(sent, 2 * Len(got), buf) /\ Pieces(sent, 2 * Len(got) + Len(buf), q)
        /\ (done => 2 * Len(got) + Len(buf) + Len(q) = 2 * Len(sent))
    BY DEF FlowOf
  <2>2. PiecesToError(sent, 2 * Len(got) + Len(buf) + Len(q), all)
    BY ONLY <1>2, <1>6, <1>10
  <2>3. NoError(all, Len(all)) => 2 * Len(got) + Len(buf) + Len(q) + Len(all) = 2 * (Len(sent) - Len(rest))
    BY ONLY <1>2, <1>5, <1>6, <1>10
  <2> QED BY ONLY <1>1, <1>5, <1>10, <2>1, <2>2, <2>3, rest \in Seq(GMsg) DEF FlowOf
<1> QED BY ONLY <1>3, <1>9, <1>11

\* The framing thread finds nobody to forward to; the receiver is dropped.
LEMMA FlowLost ==
  ASSUME NEW sent, NEW msgs, NEW got, NEW buf, NEW q, NEW body, NEW rx, NEW done, FlowOf(sent, msgs, got, buf, q, body, rx, done)
  PROVE  /\ FlowOf(sent, msgs, got, buf, q, <<>>, FALSE, done)
         /\ rx = FALSE /\ msgs # <<>> => FlowOf(sent, Tail(msgs), got, buf, q, body, rx, done)
         /\ rx /\ body = <<>> /\ msgs = <<>> => FlowOf(sent, msgs, got, buf, q, body, FALSE, TRUE)
<1>1. <<>> \in Seq(GPiece) /\ Len(<<>>) = 0 /\ <<>> \in Seq(GMsg)
  OBVIOUS
<1>2. FlowOf(sent, msgs, got, buf, q, <<>>, FALSE, done)
  <2>1. \A from : PiecesToError(sent, from, <<>>)
    BY <1>1 DEF PiecesToError
  <2> QED BY <1>1, <2>1 DEF FlowOf
<1>3. ASSUME rx = FALSE, msgs # <<>> PROVE FlowOf(sent, Tail(msgs), got, buf, q, body, rx, done)
  BY <1>3, MsgsTail DEF FlowOf
<1>4. ASSUME rx, body = <<>>, msgs = <<>> PROVE FlowOf(sent, msgs, got, buf, q, body, FALSE, TRUE)
  <2>1. NoError(body, Len(body))
    BY <1>1, <1>4 DEF NoError
  <2>2. 2 * Len(got) + Len(buf) + Len(q) + Len(body) = 2 * (Len(sent) - Len(msgs))
    BY <1>4, <2>1 DEF FlowOf
  <2>3. sent \in Seq(GMsg) /\ got \in Seq(GMsg) /\ buf \in Seq(GPiece) /\ q \in Seq(GPiece)
    BY DEF FlowOf
  <2>4. PICK n \in Nat, t \in Nat, b \in Nat, c \in Nat : n = Len(sent) /\ t = Len(got) /\ b = Len(buf) /\ c = Len(q)
    BY <2>3
  <2>5. 2 * t + b + c + 0 = 2 * (n - 0)
    BY ONLY <1>1, <1>4, <2>2, <2>4
  <2>6. 2 * t + b + c = 2 * n
    BY ONLY <2>5, n \in Nat, t \in Nat, b \in Nat, c \in Nat
  <2> QED BY <1>4, <2>4, <2>6 DEF FlowOf
<1> QED BY <1>2, <1>3, <1>4

\* DATA that reaches the client's channel.
LEMMA FlowDeliver ==
  ASSUME NEW sent, NEW msgs, NEW got, NEW buf, NEW q, NEW body, NEW rx, FlowOf(sent, msgs, got, buf, q, body, rx, FALSE),
         body # <<>>, Head(body)[2] # "error"
  PROVE  FlowOf(sent, msgs, got, buf, Append(q, Head(body)), Tail(body), rx, FALSE)
<1>1. sent \in Seq(GMsg) /\ msgs \in Seq(GMsg) /\ got \in Seq(GMsg) /\ buf \in Seq(GPiece) /\ q \in Seq(GPiece) /\ body \in Seq(GPiece)
  BY DEF FlowOf
<1>2. PICK n \in Nat, k \in Nat, t \in Nat, b \in Nat, c \in Nat, d \in Nat :
        n = Len(sent) /\ k = Len(msgs) /\ t = Len(got) /\ b = Len(buf) /\ c = Len(q) /\ d = Len(body)
  BY <1>1
<1>3. PICK x \in GPiece, rest \in Seq(GPiece) : x = Head(body) /\ rest = Tail(body)
  BY <1>1, HeadTail
<1>4. x = body[1] /\ x[2] # "error" /\ Len(rest) = d - 1 /\ d # 0 /\ \A i \in 1..(d - 1) : i + 1 \in 1..d /\ rest[i] = body[i + 1]
  BY <1>1, <1>2, <1>3, HeadTail
<1>5. PICK q2 \in Seq(GPiece) : q2 = Append(q, x)
  BY <1>1, AppendIs
<1>6. Len(q2) = c + 1 /\ q2[c + 1] = x /\ \A i \in 1..c : q2[i] = q[i]
  BY ONLY <1>1, <1>2, <1>5, AppendIs, x \in GPiece
<1>7. PICK from \in Nat : from = 2 * t + b
  OBVIOUS
<1>8. (\A i \in 1..c : IsPiece(sent, from + i, q[i])) /\ \A i \in 1..d : NoError(body, i) => IsPiece(sent, (from + c) + i, body[i])
  BY <1>2, <1>7 DEF FlowOf, Pieces, PiecesToError
<1>9. ASSUME NEW i \in 1..(c + 1) PROVE IsPiece(sent, from + i, q2[i])
  <2>1. CASE i = c + 1
    <3>1. NoError(body, 1)
      BY <1>4 DEF NoError
    <3>2. 1 \in 1..d /\ (from + c) + 1 = from + i
      BY ONLY <1>4, <2>1, d \in Nat, c \in Nat, from \in Nat
    <3> QED BY ONLY <1>4, <1>6, <1>8, <2>1, <3>1, <3>2
  <2>2. CASE i # c + 1
    <3>1. i \in 1..c
      BY ONLY <2>2, c \in Nat, i \in 1..(c + 1)
    <3> QED BY ONLY <1>6, <1>8, <3>1
  <2> QED BY <2>1, <2>2
<1>10. \A i \in 1..(d - 1) : NoError(rest, i) => NoError(body, i + 1)
  <2>1. ASSUME NEW i \in 1..(d - 1), NoError(rest, i), NEW j \in 1..(i + 1) PROVE body[j][2] # "error"
    <3>1. CASE j = 1
      BY ONLY <1>4, <3>1
    <3>2. CASE j # 1
      <4>1. PICK g \in 1..i : j = g + 1
        BY ONLY <3>2, i \in 1..(d - 1), j \in 1..(i + 1), d \in Nat
      <4>2. g \in 1..(d - 1)
        BY ONLY g \in 1..i, i \in 1..(d - 1), d \in Nat
      <4>3. rest[g] = body[j] /\ rest[g][2] # "error"
        BY ONLY <1>4, <2>1, <4>1, <4>2, g \in 1..i DEF NoError
      <4> QED BY ONLY <4>3
    <3> QED BY <3>1, <3>2
  <2> QED BY ONLY <2>1 DEF NoError
<1>11. ASSUME NEW i \in 1..(d - 1), NoError(rest, i) PROVE IsPiece(sent, (from + (c + 1)) + i, rest[i])
  <2>1. i + 1 \in 1..d /\ rest[i] = body[i + 1] /\ NoError(body, i + 1)
    BY ONLY <1>4, <1>10, <1>11, i \in 1..(d - 1)
  <2>2. (from + (c + 1)) + i = (from + c) + (i + 1)
    BY ONLY from \in Nat, c \in Nat, i \in 1..(d - 1), d \in Nat
  <2> QED BY ONLY <1>8, <2>1, <2>2
<1>12. ASSUME NoError(rest, d - 1), rx PROVE (from + (c + 1)) + (d - 1) = 2 * (n - k)
  <2>1. NoError(body, d)
    <3>1. CASE d = 1
      BY ONLY <1>4, <3>1 DEF NoError
    <3>2. CASE d # 1
      <4>1. d - 1 \in 1..(d - 1) /\ (d - 1) + 1 = d
        BY ONLY <1>4, <3>2, d \in Nat
      <4> QED BY ONLY <1>10, <1>12, <4>1
    <3> QED BY <3>1, <3>2
  <2>2. 2 * t + b + c + d = 2 * (n - k)
    BY <1>2, <1>12, <2>1 DEF FlowOf
  <2> QED BY ONLY <1>7, <2>2, t \in Nat, b \in Nat, c \in Nat, d \in Nat, n \in Nat, k \in Nat
<1>13. FlowOf(sent, msgs, got, buf, q2, rest, rx, FALSE)
  <2>1. GotOf(sent, got) /\ MsgsOf(sent, msgs) /\ Len(buf) <= 2 /\ Pieces(sent, 2 * Len(got), buf)
    BY DEF FlowOf
  <2>2. Pieces(sent, 2 * Len(got) + Len(buf), q2)
    BY ONLY <1>2, <1>6, <1>7, <1>9 DEF Pieces
  <2>3. PiecesToError(sent, 2 * Len(got) + Len(buf) + Len(q2), rest)
    BY ONLY <1>2, <1>4, <1>6, <1>7, <1>11 DEF PiecesToError
  <2>4. rx /\ NoError(rest, Len(rest)) => 2 * Len(got) + Len(buf) + Len(q2) + Len(rest) = 2 * (Len(sent) - Len(msgs))
    BY ONLY <1>2, <1>4, <1>6, <1>7, <1>12
  <2> QED BY ONLY <1>1, <2>1, <2>2, <2>3, <2>4, rest \in Seq(GPiece), q2 \in Seq(GPiece) DEF FlowOf
<1> QED BY ONLY <1>3, <1>5, <1>13

\* next_message() takes a chunk from the channel.
LEMMA FlowRead ==
  ASSUME NEW sent, NEW msgs, NEW got, NEW buf, NEW q, NEW body, NEW rx, NEW done, FlowOf(sent, msgs, got, buf, q, body, rx, done),
         q # <<>>, Len(buf) < 2
  PROVE  FlowOf(sent, msgs, got, Append(buf, Head(q)), Tail(q), body, rx, done)
<1>1. sent \in Seq(GMsg) /\ msgs \in Seq(GMsg) /\ got \in Seq(GMsg) /\ buf \in Seq(GPiece) /\ q \in Seq(GPiece) /\ body \in Seq(GPiece)
  BY DEF FlowOf
<1>2. PICK n \in Nat, k \in Nat, t \in Nat, b \in Nat, c \in Nat, d \in Nat :
        n = Len(sent) /\ k = Len(msgs) /\ t = Len(got) /\ b = Len(buf) /\ c = Len(q) /\ d = Len(body)
  BY <1>1
<1>3. PICK x \in GPiece, rest \in Seq(GPiece) : x = Head(q) /\ rest = Tail(q)
  BY <1>1, HeadTail
<1>4. x = q[1] /\ Len(rest) = c - 1 /\ c # 0 /\ \A i \in 1..(c - 1) : i + 1 \in 1..c /\ rest[i] = q[i + 1]
  BY <1>1, <1>2, <1>3, HeadTail
<1>5. PICK buf2 \in Seq(GPiece) : buf2 = Append(buf, x)
  BY <1>1, AppendIs
<1>6. Len(buf2) = b + 1 /\ buf2[b + 1] = x /\ (\A i \in 1..b : buf2[i] = buf[i]) /\ b + 1 <= 2
  <2>1. Len(buf2) = b + 1 /\ buf2[b + 1] = x /\ \A i \in 1..b : buf2[i] = buf[i]
    BY ONLY <1>1, <1>2, <1>5, AppendIs, x \in GPiece
  <2>2. b < 2
    BY <1>2
  <2> QED BY ONLY <2>1, <2>2, b \in Nat
<1>7. PICK from \in Nat : from = 2 * t
  OBVIOUS
<1>8. (\A i \in 1..b : IsPiece(sent, from + i, buf[i])) /\ \A i \in 1..c : IsPiece(sent, (from + b) + i, q[i])
  BY <1>2, <1>7 DEF FlowOf, Pieces
<1>9. ASSUME NEW i \in 1..(b + 1) PROVE IsPiece(sent, from + i, buf2[i])
  <2>1. CASE i = b + 1
    <3>1. 1 \in 1..c /\ (from + b) + 1 = from + i
      BY ONLY <1>4, <2>1, b \in Nat, c \in Nat, from \in Nat
    <3> QED BY ONLY <1>4, <1>6, <1>8, <2>1, <3>1
  <2>2. CASE i # b + 1
    <3>1. i \in 1..b
      BY ONLY <2>2, b \in Nat, i \in 1..(b + 1)
    <3> QED BY ONLY <1>6, <1>8, <3>1
  <2> QED BY <2>1, <2>2
<1>10. ASSUME NEW i \in 1..(c - 1) PROVE IsPiece(sent, (from + (b + 1)) + i, rest[i])
  <2>1. i + 1 \in 1..c /\ rest[i] = q[i + 1]
    BY ONLY <1>4, i \in 1..(c - 1)
  <2>2. (from + (b + 1)) + i = (from + b) + (i + 1)
    BY ONLY from \in Nat, b \in Nat, i \in 1..(c - 1), c \in Nat
  <2> QED BY ONLY <1>8, <2>1, <2>2
<1>11. from + (b + 1) + (c - 1) = from + b + c
  OBVIOUS
<1>12. FlowOf(sent, msgs, got, buf2, rest, body, rx, done)
  <2>1. GotOf(sent, got) /\ MsgsOf(sent, msgs) /\ PiecesToError(sent, from + b + c, body)
        /\ (rx /\ NoError(body, d) => from + b + c + d = 2 * (n - k)) /\ (done => from + b + c = 2 * n)
    BY <1>2, <1>7 DEF FlowOf
  <2>2. Pieces(sent, 2 * Len(got), buf2) /\ Pieces(sent, 2 * Len(got) + Len(buf2), rest)
    BY ONLY <1>2, <1>4, <1>6, <1>7, <1>9, <1>10 DEF Pieces
  <2>3. 2 * Len(got) + Len(buf2) + Len(rest) = from + b + c
    BY ONLY <1>2, <1>4, <1>6, <1>7, <1>11
  <2> QED BY ONLY <1>1, <1>2, <1>6, <2>1, <2>2, <2>3, rest \in Seq(GPiece), buf2 \in Seq(GPiece) DEF FlowOf
<1> QED BY ONLY <1>3, <1>5, <1>12

\* next_message() returns the message of a whole frame.
LEMMA FlowTake ==
  ASSUME NEW sent, NEW msgs, NEW got, NEW buf, NEW q, NEW body, NEW rx, NEW done, FlowOf(sent, msgs, got, buf, q, body, rx, done),
         Len(buf) >= 2
  PROVE  FlowOf(sent, msgs, Append(got, buf[1][1]), SubSeq(buf, 3, Len(buf)), q, body, rx, done)
<1>1. sent \in Seq(GMsg) /\ msgs \in Seq(GMsg) /\ got \in Seq(GMsg) /\ buf \in Seq(GPiece) /\ q \in Seq(GPiece) /\ body \in Seq(GPiece)
  BY DEF FlowOf
<1>2. PICK n \in Nat, k \in Nat, t \in Nat, c \in Nat, d \in Nat :
        n = Len(sent) /\ k = Len(msgs) /\ t = Len(got) /\ c = Len(q) /\ d = Len(body)
  BY <1>1
<1>3. Len(buf) = 2
  <2>1. Len(buf) <= 2 /\ Len(buf) \in Nat
    BY <1>1 DEF FlowOf
  <2>2. PICK b \in Nat : b = Len(buf)
    BY <2>1
  <2>3. b <= 2 /\ b >= 2
    BY ONLY <2>1, <2>2, Len(buf) >= 2
  <2> QED BY ONLY <2>2, <2>3, b \in Nat
<1>4. IsPiece(sent, 2 * t + 1, buf[1]) /\ IsPiece(sent, 2 * t + 2, buf[2])
  <2>1. \A i \in 1..2 : IsPiece(sent, 2 * t + i, buf[i])
    BY <1>2, <1>3 DEF FlowOf, Pieces
  <2> QED BY <2>1
<1>5. t + 1 \in 1..n /\ buf[1][1] = sent[t + 1] /\ sent[t + 1] # "big"
  BY ONLY <1>1, <1>2, <1>4, PieceOf, t \in Nat
<1>6. PICK m \in GMsg : m = buf[1][1]
  <2>1. sent[t + 1] \in GMsg
    BY ONLY <1>1, <1>2, <1>5
  <2> QED BY ONLY <1>5, <2>1
<1>7. PICK got2 \in Seq(GMsg) : got2 = Append(got, m)
  BY <1>1, AppendIs
<1>8. Len(got2) = t + 1 /\ got2[t + 1] = m /\ \A i \in 1..t : got2[i] = got[i]
  BY ONLY <1>1, <1>2, <1>7, AppendIs, m \in GMsg
<1>9. PICK none \in Seq(GPiece) : none = SubSeq(buf, 3, Len(buf)) /\ Len(none) = 0
  <2>1. SubSeq(buf, 3, 2) \in Seq(GPiece) /\ Len(SubSeq(buf, 3, 2)) = 0
    BY ONLY <1>1, <1>3
  <2> QED BY ONLY <1>3, <2>1
<1>10. GotOf(sent, got2)
  <2>1. \A i \in 1..t : got[i] = sent[i] /\ got[i] # "big"
    BY <1>2 DEF FlowOf, GotOf
  <2>2. \A i \in 1..(t + 1) : i \in 1..t \/ i = t + 1
    OBVIOUS
  <2>3. \A i \in 1..(t + 1) : got2[i] = sent[i] /\ got2[i] # "big"
    BY ONLY <1>5, <1>6, <1>8, <2>1, <2>2
  <2>4. t + 1 <= n
    BY ONLY <1>5, t \in Nat, n \in Nat
  <2> QED BY ONLY <1>2, <1>8, <2>3, <2>4 DEF GotOf
<1>11. 2 * (t + 1) + 0 = 2 * t + 2 /\ 2 * (t + 1) = 2 * t + 2
  OBVIOUS
<1>12. FlowOf(sent, msgs, got2, none, q, body, rx, done)
  <2>1. MsgsOf(sent, msgs) /\ Pieces(sent, 2 * t + 2, q) /\ PiecesToError(sent, 2 * t + 2 + c, body)
        /\ (rx /\ NoError(body, d) => 2 * t + 2 + c + d = 2 * (n - k)) /\ (done => 2 * t + 2 + c = 2 * n)
    BY <1>2, <1>3 DEF FlowOf
  <2>2. Pieces(sent, 2 * Len(got2), none)
    BY ONLY <1>9 DEF Pieces
  <2>3. 2 * Len(got2) + Len(none) = 2 * t + 2
    BY ONLY <1>8, <1>9, <1>11
  <2>4. Len(none) <= 2
    BY ONLY <1>9
  <2> QED BY ONLY <1>1, <1>2, <1>10, <2>1, <2>2, <2>3, <2>4, got2 \in Seq(GMsg), none \in Seq(GPiece) DEF FlowOf
<1> QED BY ONLY <1>6, <1>7, <1>9, <1>12

GCodes == {"OK", "DEADLINE", "INTERNAL", "SERVICE"}

GTypes ==
  /\ gcall.timeout \in {NoTimeout} \cup Nat /\ gnow \in Nat
  /\ ghand \in [pc : {"parse", "collect", "look", "wait", "done", "gaveup"}, deadline : Int]
  /\ gserve \in [pc : {"idle", "run", "send", "end"}, i : Nat, last : Int, snap : {"up", "down"}, result : {GNone} \cup GCodes]
  /\ gframe \in [pc : {"idle", "run", "end"}, started : BOOLEAN]
  /\ gbody \in [q : Seq(GPiece), rx : BOOLEAN] /\ gcancel \in BOOLEAN
  /\ gresp \in {GNone, "stream", "DEADLINE", "INTERNAL", "SERVICE"}
  /\ gchan \in [q : Seq(GPiece), end : {GNone, "eof", "error"}, trailers : {GNone, "OK"}]
  /\ gcli \in [st : {"head", "read", "left", "BROKEN", "TRUNCATED", "UNKNOWN"} \cup GCodes, buf : Seq(GPiece), got : Seq(GMsg)]
  /\ ghealth \in [status : {"up", "down"}, version : Int]

FlowInv == FlowOf(gsent, gmsgs, gcli.got, gcli.buf, gchan.q, gbody.q, gbody.rx, gchan.trailers = "OK")

\* Before the threads: nothing is sent.  While nothing is answered the receiver lives.
HandInv ==
  /\ ghand.pc \in {"parse", "collect"} => gserve.pc = "idle" /\ gframe.pc = "idle"
  /\ ghand.pc \in {"parse", "collect", "look", "wait"} => gresp = GNone /\ gbody.rx
  /\ ghand.pc = "parse" => gnow = 0
  /\ gserve.pc = "end" <=> gserve.result # GNone
  /\ ~gframe.started => Len(gmsgs) = Len(gsent)

\* With the receiver alive the framing thread ends last, and only then a flag is seen.
FrameInv ==
  /\ gcancel /\ gbody.rx => gframe.pc = "end"
  /\ gframe.pc = "end" /\ gbody.rx => gmsgs = <<>> /\ gserve.pc = "end"
  /\ ~gbody.rx => gbody.q = <<>>
  /\ gchan.trailers = "OK" => gserve.pc = "end" /\ gchan.end = "eof" /\ ~gbody.rx
  /\ gresp # "stream" => gchan.end = GNone

\* Where a status comes from.
CodeInv ==
  /\ gserve.result = "DEADLINE" => GExpired
  /\ gresp = "DEADLINE" => GExpired \/ gcall.timeout = 0
  /\ gresp = "SERVICE" => gserve.result = "SERVICE" /\ gsent = <<>>
  /\ gcli.st = "DEADLINE" => gresp = "DEADLINE"
  /\ gcli.st = "SERVICE" => gresp = "SERVICE"
  /\ gcli.st = "OK" /\ gcall.kind = "stream" => gchan.trailers = "OK" /\ gcli.got = gsent

GInv == GTypes /\ FlowInv /\ HandInv /\ FrameInv /\ CodeInv

LEMMA GrpcInitial == GInit => GInv
<1> SUFFICES ASSUME GInit PROVE GInv
  OBVIOUS
<1>0. <<>> \in Seq(GMsg) /\ <<>> \in Seq(GPiece) /\ Len(<<>>) = 0
  OBVIOUS
<1>1. GTypes
  <2>1. gcall.timeout \in {NoTimeout} \cup Nat
    BY GAssumption DEF GInit
  <2>2. NoTimeout \in Int /\ -1 \in Int
    BY DEF NoTimeout
  <2>3. ghand \in [pc : {"parse", "collect", "look", "wait", "done", "gaveup"}, deadline : Int]
    BY <2>2 DEF GInit
  <2>4. gserve \in [pc : {"idle", "run", "send", "end"}, i : Nat, last : Int, snap : {"up", "down"}, result : {GNone} \cup GCodes]
    BY <2>2 DEF GInit
  <2>5. gbody \in [q : Seq(GPiece), rx : BOOLEAN] /\ gcancel \in BOOLEAN /\ gframe \in [pc : {"idle", "run", "end"}, started : BOOLEAN]
    BY <1>0 DEF GInit
  <2>6. gchan \in [q : Seq(GPiece), end : {GNone, "eof", "error"}, trailers : {GNone, "OK"}]
    BY <1>0 DEF GInit
  <2>7. gcli \in [st : {"head", "read", "left", "BROKEN", "TRUNCATED", "UNKNOWN"} \cup GCodes, buf : Seq(GPiece), got : Seq(GMsg)]
    BY <1>0 DEF GInit
  <2> QED BY <2>1, <2>3, <2>4, <2>5, <2>6, <2>7 DEF GInit, GTypes
<1>2. FlowInv
  <2>1. FlowOf(<<>>, <<>>, <<>>, <<>>, <<>>, <<>>, TRUE, FALSE)
    BY ONLY <1>0 DEF FlowOf, GotOf, MsgsOf, Pieces, PiecesToError
  <2>2. gsent = <<>> /\ gmsgs = <<>> /\ gcli.got = <<>> /\ gcli.buf = <<>> /\ gchan.q = <<>> /\ gbody.q = <<>> /\ gbody.rx = TRUE
        /\ (gchan.trailers = "OK") = FALSE
    BY DEF GInit, GNone
  <2> QED BY ONLY <2>1, <2>2 DEF FlowInv
<1>3. HandInv
  BY DEF GInit, HandInv, GNone
<1>4. FrameInv
  BY DEF GInit, FrameInv, GNone
<1>5. CodeInv
  BY DEF GInit, CodeInv, GNone, GCodes
<1> QED BY <1>1, <1>2, <1>3, <1>4, <1>5 DEF GInv

\* A deadline that has passed when it is read was zero from the start.
LEMMA ParsedPositive ==
  ASSUME NEW d \in Nat, d # 0
  PROVE  ParseTimeout(GrpcTimeout(d)) \in Nat \ {0}
<1>0. GMinute \in Nat \ {0} /\ GHour \in Nat \ {0}
  BY GAssumption
<1>1. PICK a \in Nat, b \in Nat : a = d \div GHour /\ b = d \div GMinute
  BY <1>0
<1>2. CASE a > 0
  <2>1. GrpcTimeout(d) = <<a, "H">>
    BY <1>1, <1>2 DEF GrpcTimeout
  <2> QED BY <1>2, <2>1 DEF ParseTimeout
<1>3. CASE ~(a > 0) /\ b > 0
  <2>1. a = 0
    BY <1>3
  <2>2. GrpcTimeout(d) = <<b, "M">>
    BY <1>1, <1>3, <2>1 DEF GrpcTimeout
  <2>3. ParseTimeout(GrpcTimeout(d)) = b * GMinute
    BY <2>2 DEF ParseTimeout
  <2>4. \A x, y \in Nat \ {0} : x * y \in Nat \ {0}
    OBVIOUS
  <2>5. b \in Nat \ {0}
    BY <1>3
  <2> QED BY ONLY <1>0, <2>3, <2>4, <2>5
<1>4. CASE ~(a > 0) /\ ~(b > 0)
  <2>1. GrpcTimeout(d) = <<d, "S">>
    BY <1>1, <1>4 DEF GrpcTimeout
  <2> QED BY <2>1 DEF ParseTimeout
<1> QED BY <1>2, <1>3, <1>4

\* An answer in the head drops the receiver of the body.
LEMMA AnswerKeeps ==
  ASSUME GInv, NEW code \in {"DEADLINE", "INTERNAL", "SERVICE"}, NEW pc \in {"done", "gaveup"}, ErrorResponse(code, pc),
         ghand.pc \in {"parse", "collect", "look", "wait"}, gcancel' \in BOOLEAN,
         UNCHANGED <<gcall, gnow, gserve, gmsgs, gframe, gchan, gcli, ghealth, gsent>>,
         code = "DEADLINE" => GExpired \/ gcall.timeout = 0, code = "SERVICE" => gserve.result = "SERVICE" /\ gsent = <<>>
  PROVE  GInv'
<1>0. gresp = GNone /\ ghand' = [ghand EXCEPT !.pc = pc] /\ gresp' = code /\ gbody' = [q |-> <<>>, rx |-> FALSE] /\ <<>> \in Seq(GPiece)
  BY DEF GInv, HandInv, ErrorResponse
<1>1. GTypes'
  BY <1>0 DEF GInv, GTypes
<1>2. FlowInv'
  <2>1. FlowOf(gsent, gmsgs, gcli.got, gcli.buf, gchan.q, <<>>, FALSE, gchan.trailers = "OK")
    BY FlowLost DEF GInv, FlowInv
  <2>2. gbody'.q = <<>> /\ gbody'.rx = FALSE
    BY <1>0
  <2> QED BY ONLY <2>1, <2>2, UNCHANGED <<gsent, gmsgs, gcli, gchan>> DEF FlowInv
<1>3. ghand'.pc = pc /\ ghand'.deadline = ghand.deadline /\ ~gbody'.rx /\ gbody'.q = <<>>
  BY <1>0 DEF GInv, GTypes
<1>4. HandInv'
  BY <1>0, <1>3 DEF GInv, HandInv
<1>5. FrameInv'
  BY <1>0, <1>3 DEF GInv, FrameInv, GNone
<1>6. CodeInv'
  BY <1>0, <1>3 DEF GInv, CodeInv, GExpired, GNone
<1> QED BY <1>1, <1>2, <1>4, <1>5, <1>6 DEF GInv

LEMMA ParseKeeps ==
  ASSUME GInv, GParse
  PROVE  GInv'
<1>1. PICK d : d = IF gcall.timeout = NoTimeout THEN NoTimeout ELSE gnow + ParseTimeout(GrpcTimeout(gcall.timeout))
  OBVIOUS
<1>2. /\ ghand.pc = "parse" /\ UNCHANGED <<gcall, gnow, gserve, gmsgs, gframe, gcancel, gchan, gcli, ghealth, gsent>>
      /\ IF d # NoTimeout /\ gnow >= d THEN ErrorResponse("DEADLINE", "done")
         ELSE ghand' = [pc |-> "collect", deadline |-> d] /\ UNCHANGED <<gresp, gbody>>
  BY <1>1 DEF GParse
<1>3. gnow = 0 /\ gcall.timeout \in {NoTimeout} \cup Nat
  BY <1>2 DEF GInv, HandInv, GTypes
<1>4. d \in Int /\ (d # NoTimeout /\ gnow >= d => gcall.timeout = 0)
  <2>1. CASE gcall.timeout = NoTimeout
    BY <1>1, <2>1 DEF NoTimeout
  <2>2. CASE gcall.timeout = 0
    <3>0. 0 \div GHour = 0 /\ 0 \div GMinute = 0
      BY GAssumption
    <3>1. GrpcTimeout(0) = <<1, "n">>
      BY <3>0 DEF GrpcTimeout
    <3>2. ParseTimeout(<<1, "n">>) = 0
      BY DEF ParseTimeout
    <3>3. d = 0 + 0
      BY <1>1, <1>3, <2>2, <3>1, <3>2 DEF NoTimeout
    <3> QED BY <2>2, <3>3
  <2>3. CASE gcall.timeout \in Nat /\ gcall.timeout # 0
    <3>1. PICK p \in Nat \ {0} : p = ParseTimeout(GrpcTimeout(gcall.timeout))
      BY <2>3, ParsedPositive
    <3>2. d = 0 + p
      BY <1>1, <1>3, <2>3, <3>1 DEF NoTimeout
    <3> QED BY <1>3, <3>2
  <2> QED BY <1>3, <2>1, <2>2, <2>3
<1>5. CASE d # NoTimeout /\ gnow >= d
  <2>1. ErrorResponse("DEADLINE", "done") /\ gcancel' \in BOOLEAN /\ UNCHANGED <<gcall, gnow, gserve, gmsgs, gframe, gchan, gcli, ghealth, gsent>>
    BY <1>2, <1>5 DEF GInv, GTypes
  <2> QED BY <1>2, <1>4, <1>5, <2>1, AnswerKeeps
<1>6. CASE ~(d # NoTimeout /\ gnow >= d)
  <2>1. ghand' = [pc |-> "collect", deadline |-> d] /\ UNCHANGED <<gresp, gbody>>
    BY <1>2, <1>6
  <2>2. ghand'.pc = "collect"
    BY <2>1
  <2>3. GTypes'
    BY <1>2, <1>4, <2>1 DEF GInv, GTypes
  <2>4. FlowInv'
    BY <1>2, <2>1 DEF GInv, FlowInv
  <2>5. HandInv' /\ FrameInv'
    BY <1>2, <2>1, <2>2 DEF GInv, HandInv, FrameInv
  <2>6. CodeInv'
    <3>1. gresp = GNone /\ gserve.result = GNone
      BY <1>2 DEF GInv, HandInv
    <3> QED BY <1>2, <2>1, <3>1 DEF GInv, CodeInv, GNone
  <2> QED BY <2>3, <2>4, <2>5, <2>6 DEF GInv
<1> QED BY <1>5, <1>6

\* The receiver lives until the threads are started.
LEMMA CollectKeeps ==
  ASSUME GInv, GCollect
  PROVE  GInv'
<1>1. ghand.pc = "collect" /\ gserve.pc = "idle" /\ gframe.pc = "idle" /\ gserve.result = GNone /\ gresp = GNone /\ gbody.rx
      /\ UNCHANGED <<gcall, gnow, gmsgs, gcancel, gchan, gcli, ghealth, gsent>>
  BY DEF GInv, HandInv, GCollect
<1>2. CASE ~Decodes(gcall.body)
  <2>1. ErrorResponse("INTERNAL", "done") /\ UNCHANGED <<gserve, gframe>> /\ gcancel' \in BOOLEAN
    BY <1>1, <1>2 DEF GCollect, GInv, GTypes
  <2> QED BY <1>1, <2>1, AnswerKeeps
<1>3. CASE Decodes(gcall.body)
  <2>1. /\ gserve' = [gserve EXCEPT !.pc = "run"] /\ gframe' = [gframe EXCEPT !.pc = "run"]
        /\ ghand' = [ghand EXCEPT !.pc = "look"] /\ UNCHANGED <<gresp, gbody>>
    BY <1>3 DEF GCollect
  <2>2. GTypes'
    BY <1>1, <2>1 DEF GInv, GTypes
  <2>3. /\ gserve'.pc = "run" /\ gserve'.result = GNone /\ gframe'.pc = "run" /\ gframe'.started = gframe.started
        /\ ghand'.pc = "look" /\ ghand'.deadline = ghand.deadline
    BY <1>1, <2>1 DEF GInv, GTypes
  <2>4. FlowInv'
    BY <1>1, <2>1 DEF GInv, FlowInv
  <2>5. gcancel = FALSE
    BY <1>1 DEF GInv, FrameInv, GTypes
  <2>6. HandInv'
    BY <1>1, <2>1, <2>3 DEF GInv, HandInv
  <2>7. FrameInv'
    BY <1>1, <2>1, <2>3, <2>5 DEF GInv, FrameInv
  <2>8. CodeInv'
    <3>1. gcli.st # "OK" \/ gcall.kind # "stream"
      BY <1>1 DEF GInv, CodeInv, FrameInv
    <3> QED BY <1>1, <2>1, <2>3, <3>1 DEF GInv, CodeInv, GNone
  <2> QED BY <2>2, <2>4, <2>6, <2>7, <2>8 DEF GInv
<1> QED BY <1>2, <1>3

\* What the handler answers with the body's receiver alive.
LEMMA HandMoves ==
  ASSUME GInv, NEW pc \in {"wait", "done"}, ghand.pc \in {"look", "wait"}, ghand' = [ghand EXCEPT !.pc = pc],
         gresp' \in {GNone, "stream"}, pc = "wait" => gresp' = GNone,
         UNCHANGED <<gcall, gnow, gserve, gmsgs, gframe, gbody, gcancel, gchan, gcli, ghealth, gsent>>
  PROVE  GInv'
<1>1. ghand'.pc = pc /\ ghand'.deadline = ghand.deadline /\ gresp = GNone /\ gbody.rx
  BY DEF GInv, GTypes, HandInv
<1>2. GTypes'
  BY DEF GInv, GTypes
<1>3. FlowInv'
  BY DEF GInv, FlowInv
<1>4. HandInv'
  BY <1>1 DEF GInv, HandInv
<1>5. FrameInv'
  BY <1>1 DEF GInv, FrameInv, GNone
<1>6. CodeInv'
  BY <1>1 DEF GInv, CodeInv, GExpired, GNone
<1> QED BY <1>2, <1>3, <1>4, <1>5, <1>6 DEF GInv

LEMMA LookKeeps ==
  ASSUME GInv, GLook
  PROVE  GInv'
<1>1. ghand.pc = "look" /\ UNCHANGED <<gcall, gnow, gserve, gmsgs, gframe, gcancel, gchan, gcli, ghealth, gsent>> /\ gcancel' \in BOOLEAN
  BY DEF GLook, GInv, GTypes
<1>2. CASE GExpired
  <2>1. ErrorResponse("DEADLINE", "done")
    BY <1>2 DEF GLook
  <2> QED BY <1>1, <1>2, <2>1, AnswerKeeps
<1>3. CASE ~GExpired
  <2>1. ghand' = [ghand EXCEPT !.pc = "wait"] /\ UNCHANGED <<gresp, gbody>> /\ gresp = GNone
    BY <1>1, <1>3 DEF GLook, GInv, HandInv
  <2> QED BY <1>1, <2>1, HandMoves
<1> QED BY <1>2, <1>3

LEMMA WaitKeeps ==
  ASSUME GInv, GWait
  PROVE  GInv'
<1>1. ghand.pc = "wait" /\ UNCHANGED <<gcall, gnow, gserve, gmsgs, gframe, gchan, gcli, ghealth, gsent>> /\ gcancel' \in BOOLEAN
  BY DEF GWait, GiveUp, GInv, GTypes
<1>2. gbody.rx /\ gresp = GNone
  BY <1>1 DEF GInv, HandInv
<1>3. CASE gresp' = "stream" /\ ghand' = [ghand EXCEPT !.pc = "done"] /\ UNCHANGED <<gbody, gcancel>>
  BY <1>1, <1>3, HandMoves
<1>4. CASE ~gframe.started /\ gserve.pc = "end" /\ gframe.pc = "end" /\ gserve.result # "OK" /\ ErrorResponse(gserve.result, "done")
  <2>1. gserve.result \in {"DEADLINE", "INTERNAL", "SERVICE"}
    BY <1>4 DEF GInv, HandInv, GTypes, GCodes
  <2>2. gsent = <<>>
    <3>1. gmsgs = <<>> /\ Len(gmsgs) = Len(gsent) /\ gsent \in Seq(GMsg)
      BY <1>2, <1>4 DEF GInv, FrameInv, HandInv, FlowInv, FlowOf
    <3> QED BY <3>1
  <2>3. gserve.result = "DEADLINE" => GExpired \/ gcall.timeout = 0
    BY DEF GInv, CodeInv
  <2> QED BY <1>1, <1>4, <2>1, <2>2, <2>3, AnswerKeeps
<1>5. CASE GExpired /\ ErrorResponse("DEADLINE", "gaveup")
  BY <1>1, <1>5, AnswerKeeps
<1>6. \/ gresp' = "stream" /\ ghand' = [ghand EXCEPT !.pc = "done"] /\ UNCHANGED <<gbody, gcancel>>
      \/ ~gframe.started /\ gserve.pc = "end" /\ gframe.pc = "end" /\ gserve.result # "OK" /\ ErrorResponse(gserve.result, "done")
      \/ GExpired /\ ErrorResponse("DEADLINE", "gaveup")
  BY DEF GWait
<1> QED BY ONLY <1>3, <1>4, <1>5, <1>6

\* The serve thread goes on or returns.
LEMMA ServeMoves ==
  ASSUME GInv, gserve.pc \in {"run", "send"},
         gserve' \in [pc : {"run", "send", "end"}, i : Nat, last : Int, snap : {"up", "down"}, result : {GNone} \cup GCodes],
         gserve'.pc = "end" <=> gserve'.result # GNone, gserve'.result = "DEADLINE" => GExpired,
         gcancel' = gcancel \/ (gcancel' = TRUE /\ gframe.pc = "end"),
         UNCHANGED <<gcall, gnow, ghand, gmsgs, gframe, gbody, gresp, gchan, gcli, ghealth, gsent>>
  PROVE  GInv'
<1>1. GTypes'
  <2>1. gserve' \in [pc : {"idle", "run", "send", "end"}, i : Nat, last : Int, snap : {"up", "down"}, result : {GNone} \cup GCodes]
    OBVIOUS
  <2>2. gcancel' \in BOOLEAN
    BY DEF GInv, GTypes
  <2> QED BY <2>1, <2>2 DEF GInv, GTypes
<1>2. FlowInv'
  BY DEF GInv, FlowInv
<1>3. HandInv'
  BY DEF GInv, HandInv
<1>4. gframe.pc = "end" => ~gbody.rx
  BY DEF GInv, FrameInv
<1>5. gchan.trailers # "OK" /\ gresp # "SERVICE"
  BY DEF GInv, FrameInv, HandInv, CodeInv, GNone
<1>6. FrameInv'
  BY <1>4, <1>5 DEF GInv, FrameInv
<1>7. CodeInv'
  BY <1>5 DEF GInv, CodeInv, GExpired
<1> QED BY <1>1, <1>2, <1>3, <1>6, <1>7 DEF GInv

LEMMA SendKeeps ==
  ASSUME GInv, NEW m \in GMsg, NEW after, NEW r \in {"OK", "INTERNAL"}, gserve.pc \in {"run", "send"}, ServeSend(m, after, r),
         after \in [pc : {"run"}, i : Nat, last : Int, snap : {"up", "down"}, result : {GNone}],
         UNCHANGED <<gcall, gnow, ghand, gframe, gbody, gresp, gchan, gcli, ghealth>>
  PROVE  GInv'
<1>1. CASE gframe.pc = "end"
  <2>1. gcancel' = TRUE /\ gserve' = [gserve EXCEPT !.pc = "end", !.result = r] /\ UNCHANGED <<gmsgs, gsent>>
    BY <1>1 DEF ServeSend, ServeReturns
  <2>2. gserve' \in [pc : {"run", "send", "end"}, i : Nat, last : Int, snap : {"up", "down"}, result : {GNone} \cup GCodes]
        /\ gserve'.pc = "end" /\ gserve'.result = r
    BY <2>1 DEF GInv, GTypes, GCodes
  <2>3. gserve'.pc = "end" <=> gserve'.result # GNone
    BY <2>2 DEF GNone
  <2> QED BY <1>1, <2>1, <2>2, <2>3, ServeMoves
<1>2. CASE gframe.pc # "end"
  <2>1. gmsgs' = Append(gmsgs, m) /\ gsent' = Append(gsent, m) /\ gserve' = after /\ UNCHANGED gcancel
    BY <1>2 DEF ServeSend
  <2>2. gserve'.pc = "run" /\ gserve'.result = GNone
    BY <2>1
  <2>3. GTypes'
    BY <2>1 DEF GInv, GTypes
  <2>4. gchan.trailers # "OK" /\ gresp # "SERVICE" /\ gserve.result = GNone
    BY DEF GInv, FrameInv, HandInv, CodeInv, GNone
  <2>5. FlowInv'
    <3>1. FlowOf(gsent, gmsgs, gcli.got, gcli.buf, gchan.q, gbody.q, gbody.rx, FALSE)
      BY <2>4 DEF GInv, FlowInv
    <3>2. FlowOf(Append(gsent, m), Append(gmsgs, m), gcli.got, gcli.buf, gchan.q, gbody.q, gbody.rx, FALSE)
      BY ONLY <3>1, FlowSend, m \in GMsg
    <3>3. (gchan'.trailers = "OK") = FALSE
      BY <2>4
    <3> QED BY ONLY <2>1, <3>2, <3>3, UNCHANGED <<gcli, gchan, gbody>> DEF FlowInv
  <2>6. HandInv'
    <3>1. gsent \in Seq(GMsg) /\ gmsgs \in Seq(GMsg)
      BY DEF GInv, FlowInv, FlowOf
    <3>2. Len(gsent') = Len(gsent) + 1 /\ Len(gmsgs') = Len(gmsgs) + 1
      BY <2>1, <3>1, AppendIs
    <3> QED BY <2>2, <3>2 DEF GInv, HandInv
  <2>7. FrameInv'
    BY <1>2, <2>1, <2>4 DEF GInv, FrameInv
  <2>8. CodeInv'
    BY <2>2, <2>4 DEF GInv, CodeInv, GExpired, GNone
  <2> QED BY <2>3, <2>5, <2>6, <2>7, <2>8 DEF GInv
<1> QED BY <1>1, <1>2

\* serve() of a script
LEMMA ServeStepKeeps ==
  ASSUME GInv, ServeStep
  PROVE  GInv'
<1>1. gserve.pc = "run" /\ UNCHANGED <<gcall, gnow, ghand, gframe, gbody, gresp, gchan, gcli, ghealth>> /\ gserve.result = GNone
      /\ gserve \in [pc : {"idle", "run", "send", "end"}, i : Nat, last : Int, snap : {"up", "down"}, result : {GNone} \cup GCodes]
  BY DEF ServeStep, GInv, GTypes, HandInv
<1>2. CASE \E r \in GCodes : ServeReturns(r) /\ (r = "DEADLINE" => GExpired) /\ UNCHANGED <<gmsgs, gsent, gcancel>>
  <2>1. PICK r \in GCodes : ServeReturns(r) /\ (r = "DEADLINE" => GExpired) /\ UNCHANGED <<gmsgs, gsent, gcancel>>
    BY <1>2
  <2>2. gserve' \in [pc : {"run", "send", "end"}, i : Nat, last : Int, snap : {"up", "down"}, result : {GNone} \cup GCodes]
        /\ gserve'.pc = "end" /\ gserve'.result = r
    BY <1>1, <2>1 DEF ServeReturns
  <2>3. gserve'.pc = "end" <=> gserve'.result # GNone
    BY <2>2 DEF GNone, GCodes
  <2> QED BY <1>1, <2>1, <2>2, <2>3, ServeMoves
<1>3. CASE Proceeds /\ UNCHANGED <<gmsgs, gsent, gcancel>>
  <2>1. gserve' \in [pc : {"run", "send", "end"}, i : Nat, last : Int, snap : {"up", "down"}, result : {GNone} \cup GCodes]
        /\ gserve'.pc = "run" /\ gserve'.result = GNone
    BY <1>1, <1>3 DEF Proceeds
  <2>2. (gserve'.pc = "end" <=> gserve'.result # GNone) /\ gserve'.result # "DEADLINE"
    BY <2>1 DEF GNone
  <2> QED BY <1>1, <1>3, <2>1, <2>2, ServeMoves
<1>4. CASE \E m \in {"m1", "m2", "big"} : ServeSend(m, [gserve EXCEPT !.i = @ + 1], "INTERNAL")
  <2>1. PICK m \in {"m1", "m2", "big"} : ServeSend(m, [gserve EXCEPT !.i = @ + 1], "INTERNAL")
    BY <1>4
  <2>2. m \in GMsg /\ [gserve EXCEPT !.i = @ + 1] \in [pc : {"run"}, i : Nat, last : Int, snap : {"up", "down"}, result : {GNone}]
    BY <1>1 DEF GMsg
  <2> QED BY <1>1, <2>1, <2>2, SendKeeps
<1>5. \/ \E r \in GCodes : ServeReturns(r) /\ (r = "DEADLINE" => GExpired) /\ UNCHANGED <<gmsgs, gsent, gcancel>>
      \/ Proceeds /\ UNCHANGED <<gmsgs, gsent, gcancel>>
      \/ \E m \in {"m1", "m2", "big"} : ServeSend(m, [gserve EXCEPT !.i = @ + 1], "INTERNAL")
  <2>1. "OK" \in GCodes /\ "DEADLINE" \in GCodes /\ "SERVICE" \in GCodes /\ "INTERNAL" \in GCodes
    BY DEF GCodes
  <2> QED BY <2>1 DEF ServeStep
<1> QED BY ONLY <1>2, <1>3, <1>4, <1>5

\* watch()
LEMMA WatchKeeps ==
  ASSUME GInv, WatchLook \/ WatchSend
  PROVE  GInv'
<1>1. /\ UNCHANGED <<gcall, gnow, ghand, gframe, gbody, gresp, gchan, gcli, ghealth>> /\ gserve.pc \in {"run", "send"} /\ gserve.result = GNone
      /\ ghealth \in [status : {"up", "down"}, version : Int]
      /\ gserve \in [pc : {"idle", "run", "send", "end"}, i : Nat, last : Int, snap : {"up", "down"}, result : {GNone} \cup GCodes]
  BY DEF WatchLook, WatchSend, GRunning, GInv, GTypes, HandInv
<1>2. CASE WatchLook
  <2>1. UNCHANGED <<gmsgs, gsent, gcancel>>
    BY <1>2 DEF WatchLook
  <2>2. /\ gserve' \in [pc : {"run", "send", "end"}, i : Nat, last : Int, snap : {"up", "down"}, result : {GNone} \cup GCodes]
        /\ (gserve'.pc = "end" <=> gserve'.result # GNone) /\ gserve'.result # "DEADLINE"
    <3>1. CASE gcancel
      <4>1. gserve' = [gserve EXCEPT !.pc = "end", !.result = "OK"]
        BY <1>2, <3>1 DEF WatchLook, ServeReturns
      <4> QED BY <1>1, <4>1 DEF GCodes, GNone
    <3>2. CASE ~gcancel
      <4>1. gserve' = [gserve EXCEPT !.pc = "send", !.snap = ghealth.status, !.last = ghealth.version]
        BY <1>2, <3>2 DEF WatchLook
      <4> QED BY <1>1, <4>1 DEF GNone
    <3> QED BY <3>1, <3>2
  <2> QED BY <1>1, <2>1, <2>2, ServeMoves
<1>3. CASE WatchSend
  <2>1. ServeSend(gserve.snap, [gserve EXCEPT !.pc = "run"], "OK")
    BY <1>3 DEF WatchSend
  <2>2. gserve.snap \in GMsg /\ [gserve EXCEPT !.pc = "run"] \in [pc : {"run"}, i : Nat, last : Int, snap : {"up", "down"}, result : {GNone}]
    BY <1>1 DEF GMsg
  <2> QED BY <1>1, <2>1, <2>2, SendKeeps
<1> QED BY <1>2, <1>3

\* The framing thread
LEMMA FrameMessageKeeps ==
  ASSUME GInv, FrameMessage
  PROVE  GInv'
<1>1. gframe.pc = "run" /\ gmsgs # <<>> /\ gmsgs' = Tail(gmsgs) /\ UNCHANGED <<gcall, gnow, ghand, gserve, gresp, gchan, gcli, ghealth, gsent>>
  BY DEF FrameMessage
<1>2. ghand.pc \notin {"parse", "collect"}
  BY <1>1 DEF GInv, HandInv
<1>3. gsent \in Seq(GMsg) /\ gmsgs \in Seq(GMsg) /\ MsgsOf(gsent, gmsgs)
  BY DEF GInv, FlowInv, FlowOf
<1>4. gsent # <<>>
  <2>1. Len(gmsgs) >= 1 /\ Len(gmsgs) <= Len(gsent)
    BY ONLY <1>1, <1>3, MsgsTail
  <2>2. Len(gsent) # 0
    BY <1>3, <2>1
  <2> QED BY <2>2
<1>5. gresp # "SERVICE"
  BY <1>4 DEF GInv, CodeInv
<1>6. CASE gbody.rx
  <2>1. gbody' = [gbody EXCEPT !.q = @ \o FrameOutbound(Head(gmsgs))] /\ gframe' = [gframe EXCEPT !.started = TRUE] /\ UNCHANGED gcancel
    BY <1>6 DEF FrameMessage
  <2>2. FlowOf(gsent, gmsgs, gcli.got, gcli.buf, gchan.q, gbody.q, TRUE, gchan.trailers = "OK")
    <3>1. gbody.rx = TRUE
      BY <1>6 DEF GInv, GTypes
    <3> QED BY <3>1 DEF GInv, FlowInv
  <2>3. FlowOf(gsent, Tail(gmsgs), gcli.got, gcli.buf, gchan.q, gbody.q \o FrameOutbound(Head(gmsgs)), TRUE, gchan.trailers = "OK")
    BY ONLY <1>1, <2>2, FlowFrame
  <2>4. gbody.q \o FrameOutbound(Head(gmsgs)) \in Seq(GPiece)
    BY <2>3 DEF FlowOf
  <2>5. gbody'.q = gbody.q \o FrameOutbound(Head(gmsgs)) /\ gbody'.rx = TRUE /\ gframe'.pc = "run" /\ gframe'.started
    BY <1>1, <1>6, <2>1 DEF GInv, GTypes
  <2>6. FlowInv'
    BY ONLY <1>1, <2>3, <2>5 DEF FlowInv
  <2>7. GTypes'
    <3>1. gbody \in [q : Seq(GPiece), rx : BOOLEAN] /\ gframe \in [pc : {"idle", "run", "end"}, started : BOOLEAN]
      BY DEF GInv, GTypes
    <3>2. gbody' \in [q : Seq(GPiece), rx : BOOLEAN] /\ gframe' \in [pc : {"idle", "run", "end"}, started : BOOLEAN]
      BY ONLY <2>1, <2>4, <3>1
    <3> QED BY <1>1, <2>1, <3>2 DEF GInv, GTypes
  <2>8. HandInv'
    BY <1>1, <1>2, <2>5 DEF GInv, HandInv
  <2>9. FrameInv'
    BY <1>1, <1>6, <2>1, <2>5 DEF GInv, FrameInv
  <2>10. CodeInv'
    BY <1>1 DEF GInv, CodeInv, GExpired
  <2> QED BY <2>6, <2>7, <2>8, <2>9, <2>10 DEF GInv
<1>7. CASE ~gbody.rx
  <2>1. gframe' = [pc |-> "end", started |-> TRUE] /\ gcancel' = TRUE /\ UNCHANGED gbody
    BY <1>7 DEF FrameMessage
  <2>2. FlowInv'
    <3>1. FlowOf(gsent, gmsgs, gcli.got, gcli.buf, gchan.q, gbody.q, gbody.rx, gchan.trailers = "OK") /\ gbody.rx = FALSE
      BY <1>7 DEF GInv, FlowInv, GTypes
    <3>2. FlowOf(gsent, Tail(gmsgs), gcli.got, gcli.buf, gchan.q, gbody.q, gbody.rx, gchan.trailers = "OK")
      BY ONLY <1>1, <3>1, FlowLost
    <3> QED BY ONLY <1>1, <2>1, <3>2 DEF FlowInv
  <2>3. GTypes'
    BY <1>1, <2>1 DEF GInv, GTypes
  <2>4. HandInv' /\ FrameInv'
    BY <1>1, <1>2, <1>7, <2>1 DEF GInv, HandInv, FrameInv
  <2>5. CodeInv'
    BY <1>1 DEF GInv, CodeInv, GExpired
  <2> QED BY <2>2, <2>3, <2>4, <2>5 DEF GInv
<1> QED BY <1>6, <1>7

LEMMA FrameIdleKeeps ==
  ASSUME GInv, FrameIdle
  PROVE  GInv'
<1>1. gframe.pc = "run" /\ gmsgs = <<>> /\ (gcancel \/ gserve.pc = "end") /\ gframe' = [gframe EXCEPT !.pc = "end"]
      /\ UNCHANGED <<gcall, gnow, ghand, gserve, gmsgs, gbody, gcancel, gresp, gchan, gcli, ghealth, gsent>>
  BY DEF FrameIdle, FrameEnds
<1>2. gframe'.pc = "end" /\ gframe'.started = gframe.started
  BY <1>1 DEF GInv, GTypes
<1>3. GTypes'
  <2>1. gframe \in [pc : {"idle", "run", "end"}, started : BOOLEAN]
    BY DEF GInv, GTypes
  <2>2. gframe' \in [pc : {"idle", "run", "end"}, started : BOOLEAN]
    BY ONLY <1>1, <2>1
  <2> QED BY <1>1, <2>2 DEF GInv, GTypes
<1>4. FlowInv'
  BY <1>1 DEF GInv, FlowInv
<1>5. HandInv' /\ FrameInv'
  BY <1>1, <1>2 DEF GInv, HandInv, FrameInv
<1>6. CodeInv'
  BY <1>1 DEF GInv, CodeInv, GExpired
<1> QED BY <1>3, <1>4, <1>5, <1>6 DEF GInv

\* The exchange
LEMMA DeliverKeeps ==
  ASSUME GInv, Deliver
  PROVE  GInv'
<1>1. gresp = "stream" /\ gchan.end = GNone /\ gbody.rx /\ UNCHANGED <<gcall, gnow, ghand, gserve, gmsgs, gframe, gcancel, gresp, gcli, ghealth, gsent>>
      /\ gchan.trailers # "OK" /\ gbody.rx = TRUE
  BY DEF Deliver, GInv, FrameInv, GTypes, GNone
<1>2. FlowOf(gsent, gmsgs, gcli.got, gcli.buf, gchan.q, gbody.q, TRUE, FALSE)
  <2>1. (gchan.trailers = "OK") = FALSE
    BY <1>1
  <2> QED BY <1>1, <2>1 DEF GInv, FlowInv
<1>3. gchan \in [q : Seq(GPiece), end : {GNone, "eof", "error"}, trailers : {GNone, "OK"}] /\ gbody \in [q : Seq(GPiece), rx : BOOLEAN]
  BY DEF GInv, GTypes
<1>4. ghand.pc \notin {"parse", "collect", "look", "wait"}
  BY <1>1 DEF GInv, HandInv, GNone
<1>5. CASE gbody.q # <<>> /\ Head(gbody.q)[2] # "error"
           /\ gchan' = [gchan EXCEPT !.q = Append(@, Head(gbody.q))] /\ gbody' = [gbody EXCEPT !.q = Tail(@)]
  <2>1. FlowOf(gsent, gmsgs, gcli.got, gcli.buf, Append(gchan.q, Head(gbody.q)), Tail(gbody.q), TRUE, FALSE)
    BY ONLY <1>2, <1>5, FlowDeliver
  <2>2. Append(gchan.q, Head(gbody.q)) \in Seq(GPiece) /\ Tail(gbody.q) \in Seq(GPiece)
    BY <2>1 DEF FlowOf
  <2>3. /\ gchan' \in [q : Seq(GPiece), end : {GNone, "eof", "error"}, trailers : {GNone, "OK"}] /\ gbody' \in [q : Seq(GPiece), rx : BOOLEAN]
        /\ gchan'.q = Append(gchan.q, Head(gbody.q)) /\ gchan'.end = gchan.end /\ gchan'.trailers = gchan.trailers
        /\ gbody'.q = Tail(gbody.q) /\ gbody'.rx = TRUE
    BY ONLY <1>1, <1>3, <1>5, <2>2
  <2>4. FlowInv'
    <3>1. (gchan'.trailers = "OK") = FALSE
      BY <1>1, <2>3
    <3> QED BY ONLY <1>1, <2>1, <2>3, <3>1 DEF FlowInv
  <2>5. GTypes'
    BY <1>1, <2>3 DEF GInv, GTypes
  <2>6. HandInv' /\ FrameInv'
    BY <1>1, <1>4, <2>3 DEF GInv, HandInv, FrameInv
  <2>7. CodeInv'
    BY <1>1, <2>3 DEF GInv, CodeInv, GExpired
  <2> QED BY <2>4, <2>5, <2>6, <2>7 DEF GInv
<1>6. CASE gchan' = [gchan EXCEPT !.end = "error"] /\ gbody' = [q |-> <<>>, rx |-> FALSE]
  <2>1. FlowOf(gsent, gmsgs, gcli.got, gcli.buf, gchan.q, <<>>, FALSE, FALSE)
    BY ONLY <1>2, FlowLost
  <2>2. /\ gchan' \in [q : Seq(GPiece), end : {GNone, "eof", "error"}, trailers : {GNone, "OK"}] /\ gbody' \in [q : Seq(GPiece), rx : BOOLEAN]
        /\ gchan'.q = gchan.q /\ gchan'.trailers = gchan.trailers /\ gbody'.q = <<>> /\ gbody'.rx = FALSE
    BY ONLY <1>3, <1>6
  <2>3. FlowInv'
    <3>1. (gchan'.trailers = "OK") = FALSE
      BY <1>1, <2>2
    <3> QED BY ONLY <1>1, <2>1, <2>2, <3>1 DEF FlowInv
  <2>4. GTypes'
    BY <1>1, <2>2 DEF GInv, GTypes
  <2>5. HandInv' /\ FrameInv'
    BY <1>1, <1>4, <2>2 DEF GInv, HandInv, FrameInv
  <2>6. CodeInv'
    BY <1>1, <2>2 DEF GInv, CodeInv, GExpired
  <2> QED BY <2>3, <2>4, <2>5, <2>6 DEF GInv
<1>7. CASE gbody.q = <<>> /\ gframe.pc = "end" /\ gchan' = [gchan EXCEPT !.end = "eof", !.trailers = "OK"] /\ gbody' = [gbody EXCEPT !.rx = FALSE]
  <2>1. gmsgs = <<>> /\ gserve.pc = "end"
    BY <1>1, <1>7 DEF GInv, FrameInv
  <2>2. FlowOf(gsent, gmsgs, gcli.got, gcli.buf, gchan.q, gbody.q, FALSE, TRUE)
    BY ONLY <1>2, <1>7, <2>1, FlowLost
  <2>3. /\ gchan' \in [q : Seq(GPiece), end : {GNone, "eof", "error"}, trailers : {GNone, "OK"}] /\ gbody' \in [q : Seq(GPiece), rx : BOOLEAN]
        /\ gchan'.q = gchan.q /\ gchan'.end = "eof" /\ gchan'.trailers = "OK" /\ gbody'.q = gbody.q /\ gbody'.rx = FALSE
    BY ONLY <1>3, <1>7
  <2>4. FlowInv'
    <3>1. (gchan'.trailers = "OK") = TRUE
      BY <2>3
    <3> QED BY ONLY <1>1, <2>2, <2>3, <3>1 DEF FlowInv
  <2>5. GTypes'
    BY <1>1, <2>3 DEF GInv, GTypes
  <2>6. HandInv' /\ FrameInv'
    BY <1>1, <1>4, <1>7, <2>1, <2>3 DEF GInv, HandInv, FrameInv
  <2>7. CodeInv'
    BY <1>1, <2>3 DEF GInv, CodeInv, GExpired
  <2> QED BY <2>4, <2>5, <2>6, <2>7 DEF GInv
<1> QED BY <1>5, <1>6, <1>7 DEF Deliver

LEMMA BreakKeeps ==
  ASSUME GInv, GBreak
  PROVE  GInv'
<1>1. gresp = "stream" /\ gchan.end = GNone /\ gbody' = [q |-> <<>>, rx |-> FALSE]
      /\ UNCHANGED <<gcall, gnow, ghand, gserve, gmsgs, gframe, gcancel, gresp, gcli, ghealth, gsent>>
  BY DEF GBreak
<1>2. PICK how \in {"eof", "error"} : gchan' = [gchan EXCEPT !.end = how]
  BY DEF GBreak
<1>3. gchan \in [q : Seq(GPiece), end : {GNone, "eof", "error"}, trailers : {GNone, "OK"}] /\ <<>> \in Seq(GPiece)
  BY DEF GInv, GTypes
<1>4. ghand.pc \notin {"parse", "collect", "look", "wait"} /\ gchan.trailers # "OK"
  BY <1>1 DEF GInv, HandInv, FrameInv, GNone
<1>5. /\ gchan' \in [q : Seq(GPiece), end : {GNone, "eof", "error"}, trailers : {GNone, "OK"}] /\ gbody' \in [q : Seq(GPiece), rx : BOOLEAN]
      /\ gchan'.q = gchan.q /\ gchan'.trailers = gchan.trailers /\ gbody'.q = <<>> /\ gbody'.rx = FALSE
  BY ONLY <1>1, <1>2, <1>3
<1>6. FlowInv'
  <2>1. FlowOf(gsent, gmsgs, gcli.got, gcli.buf, gchan.q, <<>>, FALSE, gchan.trailers = "OK")
    BY FlowLost DEF GInv, FlowInv
  <2> QED BY ONLY <1>1, <1>5, <2>1 DEF FlowInv
<1>7. GTypes'
  BY <1>1, <1>5 DEF GInv, GTypes
<1>8. HandInv' /\ FrameInv'
  BY <1>1, <1>4, <1>5 DEF GInv, HandInv, FrameInv
<1>9. CodeInv'
  BY <1>1, <1>5 DEF GInv, CodeInv, GExpired
<1> QED BY <1>6, <1>7, <1>8, <1>9 DEF GInv

\* A turn of next_message() that ends the stream, or leaves it.
LEMMA CliMoves ==
  ASSUME GInv, NEW st \in {"read", "left", "BROKEN", "TRUNCATED", "UNKNOWN"} \cup GCodes, gcli' = [gcli EXCEPT !.st = st],
         st = "DEADLINE" => gresp = "DEADLINE", st = "SERVICE" => gresp = "SERVICE",
         st = "OK" => gchan.trailers = "OK" /\ gcli.got = gsent,
         UNCHANGED <<gcall, gnow, ghand, gserve, gmsgs, gframe, gbody, gcancel, gresp, gchan, ghealth, gsent>>
  PROVE  GInv'
<1>1. gcli \in [st : {"head", "read", "left", "BROKEN", "TRUNCATED", "UNKNOWN"} \cup GCodes, buf : Seq(GPiece), got : Seq(GMsg)]
  BY DEF GInv, GTypes
<1>2. /\ gcli' \in [st : {"head", "read", "left", "BROKEN", "TRUNCATED", "UNKNOWN"} \cup GCodes, buf : Seq(GPiece), got : Seq(GMsg)]
      /\ gcli'.st = st /\ gcli'.buf = gcli.buf /\ gcli'.got = gcli.got
  BY <1>1
<1>3. GTypes'
  BY <1>2 DEF GInv, GTypes
<1>4. FlowInv'
  BY <1>2 DEF GInv, FlowInv
<1>5. HandInv' /\ FrameInv'
  BY DEF GInv, HandInv, FrameInv
<1>6. CodeInv'
  BY <1>2 DEF GInv, CodeInv, GExpired
<1> QED BY <1>3, <1>4, <1>5, <1>6 DEF GInv

LEMMA NextMessageKeeps ==
  ASSUME GInv, NextMessage
  PROVE  GInv'
<1>1. gcli.st \in {"head", "read"} /\ gresp # GNone
      /\ UNCHANGED <<gcall, gnow, ghand, gserve, gmsgs, gframe, gbody, gcancel, gresp, ghealth, gsent>>
  BY DEF NextMessage
<1>2. gcli \in [st : {"head", "read", "left", "BROKEN", "TRUNCATED", "UNKNOWN"} \cup GCodes, buf : Seq(GPiece), got : Seq(GMsg)]
      /\ gchan \in [q : Seq(GPiece), end : {GNone, "eof", "error"}, trailers : {GNone, "OK"}]
      /\ gresp \in {"stream", "DEADLINE", "INTERNAL", "SERVICE"}
  BY <1>1 DEF GInv, GTypes
<1>3. FlowOf(gsent, gmsgs, gcli.got, gcli.buf, gchan.q, gbody.q, gbody.rx, gchan.trailers = "OK")
  BY DEF GInv, FlowInv
<1>4. CASE GEnded("read") /\ UNCHANGED gchan
  BY <1>1, <1>4, CliMoves DEF GEnded, GCodes
<1>5. CASE /\ gcli.st = "read" /\ Len(gcli.buf) >= 2
           /\ gcli' = [st |-> IF gcall.kind = "call" THEN "OK" ELSE "read",
                       buf |-> SubSeq(gcli.buf, 3, Len(gcli.buf)), got |-> Append(gcli.got, gcli.buf[1][1])]
           /\ UNCHANGED gchan
  <2>1. FlowOf(gsent, gmsgs, Append(gcli.got, gcli.buf[1][1]), SubSeq(gcli.buf, 3, Len(gcli.buf)), gchan.q, gbody.q, gbody.rx, gchan.trailers = "OK")
    BY ONLY <1>3, <1>5, FlowTake
  <2>2. Append(gcli.got, gcli.buf[1][1]) \in Seq(GMsg) /\ SubSeq(gcli.buf, 3, Len(gcli.buf)) \in Seq(GPiece)
    BY <2>1 DEF FlowOf
  <2>3. PICK st \in {"OK", "read"} : st = IF gcall.kind = "call" THEN "OK" ELSE "read"
    OBVIOUS
  <2>4. PICK buf \in Seq(GPiece), got \in Seq(GMsg) : buf = SubSeq(gcli.buf, 3, Len(gcli.buf)) /\ got = Append(gcli.got, gcli.buf[1][1])
    BY <2>2
  <2>5. gcli' = [st |-> st, buf |-> buf, got |-> got]
    BY ONLY <1>5, <2>3, <2>4
  <2>6. /\ gcli' \in [st : {"head", "read", "left", "BROKEN", "TRUNCATED", "UNKNOWN"} \cup GCodes, buf : Seq(GPiece), got : Seq(GMsg)]
        /\ gcli'.st = st /\ gcli'.buf = buf /\ gcli'.got = got
    BY <2>5 DEF GCodes
  <2>7. FlowInv'
    BY ONLY <1>1, <1>5, <2>1, <2>4, <2>6 DEF FlowInv
  <2>8. GTypes'
    BY <1>1, <1>5, <2>6 DEF GInv, GTypes
  <2>9. HandInv' /\ FrameInv'
    BY <1>1, <1>5 DEF GInv, HandInv, FrameInv
  <2>10. CodeInv'
    BY <1>1, <1>5, <2>3, <2>6 DEF GInv, CodeInv, GExpired
  <2> QED BY <2>7, <2>8, <2>9, <2>10 DEF GInv
<1>6. CASE /\ gcli.st = "read" /\ Len(gcli.buf) < 2 /\ gchan.q # <<>>
           /\ gcli' = [gcli EXCEPT !.buf = Append(@, Head(gchan.q))] /\ gchan' = [gchan EXCEPT !.q = Tail(@)]
  <2>1. FlowOf(gsent, gmsgs, gcli.got, Append(gcli.buf, Head(gchan.q)), Tail(gchan.q), gbody.q, gbody.rx, gchan.trailers = "OK")
    BY ONLY <1>3, <1>6, FlowRead
  <2>2. Append(gcli.buf, Head(gchan.q)) \in Seq(GPiece) /\ Tail(gchan.q) \in Seq(GPiece)
    BY <2>1 DEF FlowOf
  <2>3. /\ gcli' \in [st : {"head", "read", "left", "BROKEN", "TRUNCATED", "UNKNOWN"} \cup GCodes, buf : Seq(GPiece), got : Seq(GMsg)]
        /\ gcli'.st = "read" /\ gcli'.buf = Append(gcli.buf, Head(gchan.q)) /\ gcli'.got = gcli.got
        /\ gchan' \in [q : Seq(GPiece), end : {GNone, "eof", "error"}, trailers : {GNone, "OK"}]
        /\ gchan'.q = Tail(gchan.q) /\ gchan'.end = gchan.end /\ gchan'.trailers = gchan.trailers
    BY ONLY <1>2, <1>6, <2>2
  <2>4. FlowInv'
    BY ONLY <1>1, <2>1, <2>3 DEF FlowInv
  <2>5. GTypes'
    BY <1>1, <2>3 DEF GInv, GTypes
  <2>6. HandInv' /\ FrameInv'
    BY <1>1, <2>3 DEF GInv, HandInv, FrameInv
  <2>7. CodeInv'
    BY <1>1, <2>3 DEF GInv, CodeInv, GExpired
  <2> QED BY <2>4, <2>5, <2>6, <2>7 DEF GInv
<1>7. CASE /\ gcli.st = "read" /\ Len(gcli.buf) < 2 /\ gchan.q = <<>>
           /\ IF gchan.end = "error" THEN GEnded("BROKEN")
              ELSE IF gcli.buf # <<>> THEN GEnded("TRUNCATED")
              ELSE IF gcall.kind = "call" /\ FinishCode = "OK" THEN GEnded("INTERNAL")
              ELSE GFinish
           /\ UNCHANGED gchan
  <2>1. CASE GEnded("BROKEN") \/ GEnded("TRUNCATED") \/ GEnded("INTERNAL")
    BY <1>1, <1>7, <2>1, CliMoves DEF GEnded, GCodes
  <2>2. CASE gcli.buf = <<>> /\ GFinish
    <3>1. PICK st : st = FinishCode
      OBVIOUS
    <3>2. /\ st \in {"read", "left", "BROKEN", "TRUNCATED", "UNKNOWN"} \cup GCodes
          /\ (st = "DEADLINE" => gresp = "DEADLINE") /\ (st = "SERVICE" => gresp = "SERVICE") /\ (st = "OK" => gchan.trailers = "OK")
      BY <1>2, <3>1 DEF FinishCode, GCodes, GNone
    <3>3. gchan.trailers = "OK" => gcli.got = gsent
      <4>1. SUFFICES ASSUME gchan.trailers = "OK" PROVE gcli.got = gsent
        OBVIOUS
      <4>2. gsent \in Seq(GMsg) /\ gcli.got \in Seq(GMsg) /\ GotOf(gsent, gcli.got)
            /\ 2 * Len(gcli.got) + Len(gcli.buf) + Len(gchan.q) = 2 * Len(gsent)
        BY <1>3, <4>1 DEF FlowOf
      <4>3. PICK n \in Nat, t \in Nat : n = Len(gsent) /\ t = Len(gcli.got)
        BY <4>2
      <4>4. 2 * t + 0 + 0 = 2 * n
        BY <1>7, <2>2, <4>2, <4>3
      <4>5. t = n
        BY ONLY <4>4, n \in Nat, t \in Nat
      <4>6. \A i \in 1..t : gcli.got[i] = gsent[i]
        BY <4>2, <4>3 DEF GotOf
      <4>7. PICK x \in Seq(GMsg), y \in Seq(GMsg) : x = gcli.got /\ y = gsent
        BY ONLY <4>2
      <4>8. Len(x) = Len(y) /\ \A i \in 1..Len(x) : x[i] = y[i]
        BY ONLY <4>3, <4>5, <4>6, <4>7
      <4>9. x = y
        BY ONLY <4>8, x \in Seq(GMsg), y \in Seq(GMsg)
      <4> QED BY ONLY <4>7, <4>9
    <3>4. gcli' = [gcli EXCEPT !.st = st]
      BY <2>2, <3>1 DEF GFinish, GEnded
    <3> QED BY <1>1, <1>7, <3>2, <3>3, <3>4, CliMoves
  <2> QED BY <1>7, <2>1, <2>2
<1> QED BY <1>4, <1>5, <1>6, <1>7 DEF NextMessage

LEMMA AbandonKeeps ==
  ASSUME GInv, Abandon
  PROVE  GInv'
  BY CliMoves DEF Abandon, GEnded, GCodes

\* Time, and changes of the watched status.
LEMMA TickKeeps ==
  ASSUME GInv, GTick \/ GUpdate
  PROVE  GInv'
<1>1. CASE GTick
  <2>1. ghand.pc # "parse" /\ gnow' = gnow + 1 /\ gnow \in Nat /\ ghand.deadline \in Int
        /\ UNCHANGED <<gcall, ghand, gserve, gmsgs, gframe, gbody, gcancel, gresp, gchan, gcli, ghealth, gsent>>
    BY <1>1 DEF GTick, GInv, GTypes
  <2>2. GExpired => GExpired'
    BY <2>1 DEF GExpired
  <2>3. GTypes' /\ FlowInv'
    BY <2>1 DEF GInv, GTypes, FlowInv
  <2>4. HandInv' /\ FrameInv'
    BY <2>1 DEF GInv, HandInv, FrameInv
  <2>5. CodeInv'
    BY <2>1, <2>2 DEF GInv, CodeInv
  <2> QED BY <2>3, <2>4, <2>5 DEF GInv
<1>2. CASE GUpdate
  <2>1. PICK s \in {"up", "down"} : ghealth' = [status |-> s, version |-> ghealth.version + 1]
    BY <1>2 DEF GUpdate
  <2>2. UNCHANGED <<gcall, gnow, ghand, gserve, gmsgs, gframe, gbody, gcancel, gresp, gchan, gcli, gsent>>
    BY <1>2 DEF GUpdate
  <2>3. ghealth' \in [status : {"up", "down"}, version : Int]
    BY <2>1 DEF GInv, GTypes
  <2>4. GTypes' /\ FlowInv'
    BY <2>2, <2>3 DEF GInv, GTypes, FlowInv
  <2>5. HandInv' /\ FrameInv' /\ CodeInv'
    BY <2>2 DEF GInv, HandInv, FrameInv, CodeInv, GExpired
  <2> QED BY <2>4, <2>5 DEF GInv
<1> QED BY <1>1, <1>2

LEMMA GrpcNext == GInv /\ [GNext]_gvars => GInv'
<1>1. ASSUME GInv, UNCHANGED gvars PROVE GInv'
  <2>1. UNCHANGED <<gcall, gnow, ghand, gserve, gmsgs, gframe, gbody, gcancel, gresp, gchan, gcli, ghealth, gsent>>
    BY <1>1 DEF gvars
  <2>2. GTypes' /\ FlowInv'
    BY <1>1, <2>1 DEF GInv, GTypes, FlowInv
  <2>3. HandInv' /\ FrameInv' /\ CodeInv'
    BY <1>1, <2>1 DEF GInv, HandInv, FrameInv, CodeInv, GExpired
  <2> QED BY <2>2, <2>3 DEF GInv
<1> QED BY <1>1, ParseKeeps, CollectKeeps, LookKeeps, WaitKeeps, FrameMessageKeeps, FrameIdleKeeps, ServeStepKeeps, WatchKeeps,
           DeliverKeeps, BreakKeeps, NextMessageKeeps, AbandonKeeps, TickKeeps
        DEF GNext, HandlerThread, FramingThread, ServeThread

\* A response that streams follows a message or a service that returned Ok(()).
StatusInv ==
  /\ gframe.started => gsent # <<>>
  /\ gresp = "stream" => gframe.started \/ gserve.result = "OK"
  /\ gchan.trailers = "OK" => gresp = "stream"

LEMMA StatusInitial == GInit => StatusInv
  BY DEF GInit, StatusInv, GNone

LEMMA StatusNext == GInv /\ StatusInv /\ [GNext]_gvars => StatusInv'
<1> SUFFICES ASSUME GInv, StatusInv, [GNext]_gvars PROVE StatusInv'
  OBVIOUS
<1>1. CASE HandlerThread
  <2>1. UNCHANGED <<gframe, gsent, gchan, gserve>> \/ (ghand.pc = "collect" /\ UNCHANGED <<gsent, gchan, gframe.started, gserve.result>>)
    BY <1>1 DEF HandlerThread, GParse, GCollect, GLook, GWait, GInv, GTypes
  <2>2. gresp' = "stream" => gframe.started \/ gserve.result = "OK" \/ gresp = "stream"
    <3>1. CASE GParse
      BY <3>1 DEF GParse, ErrorResponse
    <3>2. CASE GCollect \/ GLook
      BY <3>2 DEF GCollect, GLook, ErrorResponse
    <3>3. CASE GWait
      BY <3>3 DEF GWait, ErrorResponse, GInv, GTypes, GCodes, HandInv, GNone
    <3> QED BY <1>1, <3>1, <3>2, <3>3 DEF HandlerThread
  <2>3. gresp = "stream" => gresp' = "stream"
    BY <1>1 DEF HandlerThread, GParse, GCollect, GLook, GWait, GInv, HandInv, GNone
  <2> QED BY <2>1, <2>2, <2>3 DEF StatusInv
<1>2. CASE FramingThread
  <2>1. UNCHANGED <<gserve, gresp, gchan, gsent>> /\ (gframe.started => gframe'.started)
    BY <1>2 DEF FramingThread, FrameMessage, FrameIdle, FrameEnds, GInv, GTypes
  <2>2. gframe'.started => gframe.started \/ gmsgs # <<>>
    BY <1>2 DEF FramingThread, FrameMessage, FrameIdle, FrameEnds, GInv, GTypes
  <2>3. ~gframe.started /\ gmsgs # <<>> => gsent # <<>>
    BY DEF GInv, HandInv, FlowInv, FlowOf
  <2> QED BY <2>1, <2>2, <2>3 DEF StatusInv
<1>3. CASE ServeThread
  <2>1. gserve.result = GNone /\ UNCHANGED <<gframe, gresp, gchan>>
    BY <1>3 DEF ServeThread, ServeStep, WatchLook, WatchSend, GRunning, GInv, HandInv
  <2>2. gsent # <<>> => gsent' # <<>>
    <3>1. \A m : gsent' = Append(gsent, m) => gsent' # <<>>
      BY DEF GInv, FlowInv, FlowOf
    <3> QED BY <1>3, <3>1 DEF ServeThread, ServeStep, WatchLook, WatchSend, ServeSend
  <2> QED BY <2>1, <2>2 DEF StatusInv, GNone
<1>4. CASE Deliver
  BY <1>4 DEF Deliver, StatusInv
<1>5. CASE GBreak
  <2>1. gchan'.trailers = gchan.trailers
    BY <1>5 DEF GBreak, GInv, GTypes
  <2> QED BY <1>5, <2>1 DEF GBreak, StatusInv
<1>6. CASE NextMessage
  <2>1. gchan'.trailers = gchan.trailers
    BY <1>6 DEF NextMessage, GInv, GTypes
  <2> QED BY <1>6, <2>1 DEF NextMessage, StatusInv
<1>7. CASE Abandon \/ GTick \/ GUpdate \/ UNCHANGED gvars
  BY <1>7 DEF Abandon, GTick, GUpdate, gvars, StatusInv
<1> QED BY <1>1, <1>2, <1>3, <1>4, <1>5, <1>6, <1>7 DEF GNext

LEMMA GrpcHonest == GInv /\ StatusInv => StreamHonest
<1> SUFFICES ASSUME GInv, StatusInv PROVE StreamHonest
  OBVIOUS
<1>1. gsent \in Seq(GMsg) /\ gcli.got \in Seq(GMsg) /\ GotOf(gsent, gcli.got)
  BY DEF GInv, FlowInv, FlowOf
<1>2. PICK n \in Nat, t \in Nat : n = Len(gsent) /\ t = Len(gcli.got)
  BY <1>1
<1>3. t <= n /\ \A i \in 1..t : gcli.got[i] = gsent[i] /\ gcli.got[i] # "big"
  BY <1>1, <1>2 DEF GotOf
<1>4. IsPrefix(gcli.got, gsent)
  <2>1. \A i \in 1..t : i <= n /\ gsent[i] = gcli.got[i]
    BY ONLY <1>3, t \in Nat, n \in Nat
  <2> QED BY ONLY <1>1, <1>2, <2>1, PrefixIs
<1>5. \A i \in DOMAIN gcli.got : gcli.got[i] # "big"
  BY <1>1, <1>2, <1>3
<1>6. gcli.st = "OK" /\ gcall.kind = "stream" /\ gserve.result # "OK" => gsent # <<>>
  BY DEF GInv, CodeInv, StatusInv
<1> QED BY <1>4, <1>5, <1>6 DEF StreamHonest, GInv, CodeInv, FrameInv

(***************************************************************************)
(* A call over any script, timeout and interleaving of the handler, the    *)
(* framing thread, the service, the transport and the reader: what         *)
(* MessageStream returns is what the service sent, and the status it ends  *)
(* with is true, but for a service that fails after its first message.     *)
(***************************************************************************)
THEOREM StreamStaysHonest == GSpec => []StreamHonest
<1>1. GSpec => [](GInv /\ StatusInv)
  BY GrpcInitial, GrpcNext, StatusInitial, StatusNext, PTL DEF GSpec
<1> QED BY <1>1, GrpcHonest, PTL

-----------------------------------------------------------------------------
(***************************************************************************)
(* HandshakeHonest for every policy, offer, header and chain of trusted    *)
(* proxies.  The parameters of a header are read as a set: what the        *)
(* response says follows from negotiate() part by part.                    *)
(***************************************************************************)
WhNames == Range(WhProtocols) \union {"p9"}
WhReq == [compress : BOOLEAN, offer : Seq(Param), protocols : Seq(WhNames), defect : Defects \union {"none"},
          origin : [host : {"none", "h", "other"}, secure : BOOLEAN, port : Nat], host : {"h"}, tls : BOOLEAN,
          peer : Int, xff : Seq(Int), xreal : Int, xhost : {"none", "h"}, xproto : BOOLEAN]
WhPm == [server : 8..15, client : 8..15, server_fresh : BOOLEAN, client_fresh : BOOLEAN]
WhPlan == [status : Nat, protocol : WhNames \union {"none"}, compress : BOOLEAN, pm : WhPm]

\* Entry k is the client's address, and behind it stand proxies.
Marks(xff, client, k) == xff[k] = client /\ \A j \in 1..Len(xff) : j > k => is_trusted_proxy(xff[j])
PathTrue(req, client) ==
  /\ client \in Int /\ client # Junk /\ ~is_trusted_proxy(client)
  /\ IF is_trusted_proxy(req.peer) THEN \E k \in 1..Len(req.xff) : Marks(req.xff, client, k) ELSE req.peer = client

PlanTrue(req, policy, plan) ==
  /\ plan.protocol # "none" => plan.protocol \in Range(req.protocols)
  /\ plan.compress => req.compress /\ Acceptable(req.offer)
  /\ plan.pm = IF plan.compress THEN negotiate(req.offer, policy) ELSE NoPlan.pm

WhState == [pc : {"connect", "headers", "path", "plan", "refused", "answer", "open"}, req : WhReq, plan : WhPlan, got : WhPlan,
            client : Int, policy : Policies, origins : {"any", "none", "same"}, seen : Nat, apart : BOOLEAN]

WhInv ==
  /\ hs \in WhState
  /\ hs.pc \in {"plan", "answer", "open"} /\ ~hs.apart => PathTrue(hs.req, hs.client)
  /\ hs.pc = "answer" => PlanTrue(hs.req, hs.policy, hs.plan)
  /\ NegotiationAgrees

\* A set of numbers that is not empty has a least one.
LEMMA LeastOf ==
  ASSUME NEW T \in SUBSET Nat, T # {}
  PROVE  \E x \in T : \A y \in T : x <= y
<1>1. PICK R : R = OpToRel(<, Nat)
  OBVIOUS
<1>2. IsWellFoundedOn(R, Nat)
  BY <1>1, NatLessThanWellFounded
<1>3. PICK x \in T : \A y \in T : ~(<<y, x>> \in R)
  BY <1>2, WFMin
<1>4. ASSUME NEW y \in T PROVE x <= y
  <2>1. <<y, x>> \notin R
    BY <1>3
  <2>2. x \in Nat /\ y \in Nat
    OBVIOUS
  <2>3. ~(y < x)
    BY <1>1, <2>1, <2>2 DEF OpToRel
  <2> QED BY <2>2, <2>3
<1> QED BY <1>4

\* A parameter by its name, in a header read as a set.
LEMMA NamedIs ==
  ASSUME NEW params, NEW name
  PROVE  /\ HasParam(params, name) <=> \E x \in Range(params) : x[1] = name
         /\ HasParam(params, name) => \E x \in Range(params) : x[1] = name /\ x[2] = ParamOf(params, name)
<1>1. HasParam(params, name) <=> \E x \in Range(params) : x[1] = name
  BY DEF HasParam, Range
<1>2. ASSUME HasParam(params, name) PROVE \E x \in Range(params) : x[1] = name /\ x[2] = ParamOf(params, name)
  <2>1. PICK i \in DOMAIN params : params[i][1] = name /\ i = CHOOSE k \in DOMAIN params : params[k][1] = name
    BY <1>2 DEF HasParam
  <2>2. params[i] \in Range(params) /\ ParamOf(params, name) = params[i][2]
    BY <2>1 DEF Range, ParamOf
  <2> QED BY <2>1, <2>2
<1> QED BY <1>1, <1>2

\* What two sequences one after the other hold.
LEMMA JoinedRange ==
  ASSUME NEW S, NEW s \in Seq(S), NEW t \in Seq(S)
  PROVE  s \o t \in Seq(S) /\ Range(s \o t) = Range(s) \cup Range(t)
<1>1. PICK n \in Nat, k \in Nat : n = Len(s) /\ k = Len(t)
  OBVIOUS
<1>2. s \o t \in Seq(S) /\ Len(s \o t) = n + k
  BY <1>1
<1>3. \A i \in 1..n : (s \o t)[i] = s[i]
  BY <1>1
<1>4. ASSUME NEW i \in 1..k PROVE (s \o t)[n + i] = t[i]
  <2>1. n + i \in 1..(n + k) /\ ~(n + i <= n) /\ (n + i) - n = i
    OBVIOUS
  <2> QED BY <1>1, <2>1
<1>5. DOMAIN (s \o t) = 1..(n + k) /\ DOMAIN s = 1..n /\ DOMAIN t = 1..k
  BY <1>1, <1>2
<1>6. \A i \in 1..(n + k) : i \in 1..n \/ \E j \in 1..k : i = n + j
  <2>1. ASSUME NEW i \in 1..(n + k), i \notin 1..n PROVE \E j \in 1..k : i = n + j
    <3>1. i - n \in 1..k /\ i = n + (i - n)
      BY <2>1
    <3> QED BY <3>1
  <2> QED BY <2>1
<1>7. (\A i \in 1..n : i \in 1..(n + k)) /\ \A i \in 1..k : n + i \in 1..(n + k)
  OBVIOUS
<1>8. Range(s \o t) \subseteq Range(s) \cup Range(t)
  BY <1>3, <1>4, <1>5, <1>6 DEF Range
<1>9. Range(s) \cup Range(t) \subseteq Range(s \o t)
  BY <1>3, <1>4, <1>5, <1>7 DEF Range
<1> QED BY <1>2, <1>8, <1>9

\* response_header() as a set.
WhParam == (ParamNames \union {"other"}) \X Nat
Said(pm) ==
  (IF pm.server_fresh THEN {<<"server_no_context_takeover", None>>} ELSE {})
  \cup (IF pm.client_fresh THEN {<<"client_no_context_takeover", None>>} ELSE {})
  \cup (IF pm.server # 15 THEN {<<"server_max_window_bits", pm.server>>} ELSE {})
  \cup (IF pm.client # 15 THEN {<<"client_max_window_bits", pm.client>>} ELSE {})

\* A field that is there or not.
LEMMA OnlyOne ==
  ASSUME NEW S, NEW e \in S, NEW c \in BOOLEAN
  PROVE  LET s == IF c THEN <<e>> ELSE <<>> IN s \in Seq(S) /\ Range(s) = IF c THEN {e} ELSE {}
<1>1. <<e>> \in Seq(S) /\ <<>> \in Seq(S)
  OBVIOUS
<1>2. DOMAIN <<e>> = {1} /\ <<e>>[1] = e
  OBVIOUS
<1>3. Range(<<e>>) = {e}
  BY <1>2 DEF Range
<1>4. Range(<<>>) = {}
  BY DEF Range
<1> QED BY <1>1, <1>3, <1>4

\* response_header() says what negotiate() chose, each thing once.
LEMMA ResponseSays ==
  ASSUME NEW pm \in WhPm
  PROVE  Range(response_header(pm)) = Said(pm)
<1>1. PICK p1 \in WhParam, p2 \in WhParam, p3 \in WhParam, p4 \in WhParam :
        /\ p1 = <<"server_no_context_takeover", None>> /\ p2 = <<"client_no_context_takeover", None>>
        /\ p3 = <<"server_max_window_bits", pm.server>> /\ p4 = <<"client_max_window_bits", pm.client>>
  <2>1. pm.server \in Nat /\ pm.client \in Nat /\ None \in Nat
    BY DEF WhPm, None
  <2> QED BY <2>1 DEF WhParam, ParamNames
<1>2. PICK c1 \in BOOLEAN, c2 \in BOOLEAN, c3 \in BOOLEAN, c4 \in BOOLEAN :
        (c1 <=> pm.server_fresh) /\ (c2 <=> pm.client_fresh) /\ (c3 <=> pm.server # 15) /\ (c4 <=> pm.client # 15)
  BY DEF WhPm
<1>3. PICK s1 \in Seq(WhParam), s2 \in Seq(WhParam), s3 \in Seq(WhParam), s4 \in Seq(WhParam) :
        /\ s1 = (IF c1 THEN <<p1>> ELSE <<>>) /\ s2 = (IF c2 THEN <<p2>> ELSE <<>>)
        /\ s3 = (IF c3 THEN <<p3>> ELSE <<>>) /\ s4 = (IF c4 THEN <<p4>> ELSE <<>>)
  BY OnlyOne
<1>4. /\ Range(s1) = (IF c1 THEN {p1} ELSE {}) /\ Range(s2) = (IF c2 THEN {p2} ELSE {})
      /\ Range(s3) = (IF c3 THEN {p3} ELSE {}) /\ Range(s4) = (IF c4 THEN {p4} ELSE {})
  BY <1>3, OnlyOne
<1>5. response_header(pm) = s1 \o s2 \o s3 \o s4
  BY <1>1, <1>2, <1>3 DEF response_header
<1>6. PICK t2 \in Seq(WhParam) : t2 = s1 \o s2 /\ Range(t2) = Range(s1) \cup Range(s2)
  BY JoinedRange
<1>7. PICK t3 \in Seq(WhParam) : t3 = t2 \o s3 /\ Range(t3) = Range(t2) \cup Range(s3)
  BY JoinedRange, ZenonT(60)
<1>8. Range(t3 \o s4) = Range(t3) \cup Range(s4)
  BY JoinedRange
<1>9. response_header(pm) = t3 \o s4
  BY ONLY <1>5, <1>6, <1>7
<1>10. Range(response_header(pm)) = Range(s1) \cup Range(s2) \cup Range(s3) \cup Range(s4)
  BY ONLY <1>6, <1>7, <1>8, <1>9
<1>11. Said(pm) = (IF c1 THEN {p1} ELSE {}) \cup (IF c2 THEN {p2} ELSE {}) \cup (IF c3 THEN {p3} ELSE {}) \cup (IF c4 THEN {p4} ELSE {})
  BY <1>1, <1>2 DEF Said
<1> QED BY ONLY <1>4, <1>10, <1>11

\* What an acceptable offer gives.
LEMMA OfferedIs ==
  ASSUME NEW offer \in Seq(Param), Acceptable(offer), NEW name, HasParam(offer, name)
  PROVE  /\ ParamOf(offer, name) \in Nat /\ ParamOf(offer, name) # None => ParamOf(offer, name) \in 8..15
         /\ name = "server_max_window_bits" => ParamOf(offer, name) \in 8..15
         /\ ParamOf(offer, name) \in Nat
<1>1. PICK i \in DOMAIN offer : offer[i][1] = name /\ ParamOf(offer, name) = offer[i][2]
  BY DEF HasParam, ParamOf
<1>2. offer[i] \in Param /\ offer[i][2] # Bad /\ (name = "server_max_window_bits" => offer[i][2] # None)
  BY <1>1 DEF Acceptable
<1>3. offer[i][2] \in WhWindows \/ offer[i][2] = None
  BY <1>2 DEF Param
<1>4. offer[i][2] \in 8..15 \/ offer[i][2] = None
  BY <1>3, WhAssumption
<1> QED BY <1>1, <1>2, <1>4 DEF None

\* The smaller of two windows.
LEMMA LeastIs ==
  ASSUME NEW a \in 8..15, NEW b \in 8..15
  PROVE  Least(a, b) \in 8..15 /\ Least(a, b) <= a /\ Least(a, b) <= b
  BY DEF Least

\* negotiate(): windows in range, the server's within the offer, the client's only if offered.
LEMMA Negotiated ==
  ASSUME NEW offer \in Seq(Param), NEW policy \in Policies, Acceptable(offer), NEW pm, pm = negotiate(offer, policy)
  PROVE  /\ pm \in WhPm
         /\ HasParam(offer, "server_max_window_bits") => pm.server <= ParamOf(offer, "server_max_window_bits")
         /\ pm.client # 15 => HasParam(offer, "client_max_window_bits")
<1>1. policy.server \in 8..15 /\ policy.client \in 8..15 /\ policy.prefer \in BOOLEAN /\ policy.advertise \in BOOLEAN
  BY WhAssumption DEF Policies
<1>2. ServerWindow(offer, policy) \in 8..15 /\ (HasParam(offer, "server_max_window_bits") => ServerWindow(offer, policy) <= ParamOf(offer, "server_max_window_bits"))
  <2>1. CASE HasParam(offer, "server_max_window_bits")
    <3>1. PICK v \in 8..15 : v = ParamOf(offer, "server_max_window_bits")
      BY <2>1, OfferedIs
    <3>2. ServerWindow(offer, policy) = Least(v, policy.server)
      BY <2>1, <3>1 DEF ServerWindow
    <3> QED BY ONLY <1>1, <3>1, <3>2, LeastIs, v \in 8..15
  <2>2. CASE ~HasParam(offer, "server_max_window_bits")
    BY <1>1, <2>2 DEF ServerWindow
  <2> QED BY <2>1, <2>2
<1>3. ClientWindow(offer, policy) \in 8..15 /\ (ClientWindow(offer, policy) # 15 => HasParam(offer, "client_max_window_bits"))
  <2>1. CASE HasParam(offer, "client_max_window_bits") /\ ParamOf(offer, "client_max_window_bits") # None
    <3>1. PICK v \in 8..15 : v = ParamOf(offer, "client_max_window_bits")
      BY <2>1, OfferedIs
    <3>2. ClientWindow(offer, policy) = Least(v, policy.client)
      BY <2>1, <3>1 DEF ClientWindow
    <3>3. Least(v, policy.client) \in 8..15
      BY ONLY <1>1, LeastIs, v \in 8..15
    <3> QED BY <2>1, <3>2, <3>3
  <2>2. CASE HasParam(offer, "client_max_window_bits") /\ ParamOf(offer, "client_max_window_bits") = None
    BY <1>1, <2>2 DEF ClientWindow
  <2>3. CASE ~HasParam(offer, "client_max_window_bits")
    BY <2>3 DEF ClientWindow
  <2> QED BY <2>1, <2>2, <2>3
<1>4. PICK sf \in BOOLEAN, cf \in BOOLEAN :
        /\ sf = (HasParam(offer, "server_no_context_takeover") \/ policy.prefer \/ policy.advertise)
        /\ cf = (HasParam(offer, "client_no_context_takeover") \/ policy.prefer)
  BY DEF HasParam
<1>5. pm = [server |-> ServerWindow(offer, policy), client |-> ClientWindow(offer, policy), server_fresh |-> sf, client_fresh |-> cf]
  BY <1>4 DEF negotiate
<1>6. pm.server = ServerWindow(offer, policy) /\ pm.client = ClientWindow(offer, policy) /\ pm \in WhPm
  BY <1>2, <1>3, <1>5 DEF WhPm
<1> QED BY <1>2, <1>3, <1>6

\* What the client reads in the response.
LEMMA ResponseNamed ==
  ASSUME NEW pm \in WhPm, NEW resp, resp = response_header(pm)
  PROVE  /\ HasParam(resp, "server_no_context_takeover") <=> pm.server_fresh
         /\ HasParam(resp, "client_no_context_takeover") <=> pm.client_fresh
         /\ HasParam(resp, "server_max_window_bits") <=> pm.server # 15
         /\ HasParam(resp, "client_max_window_bits") <=> pm.client # 15
         /\ pm.server # 15 => ParamOf(resp, "server_max_window_bits") = pm.server
         /\ pm.client # 15 => ParamOf(resp, "client_max_window_bits") = pm.client
         /\ \A i \in DOMAIN resp : resp[i][1] \in ParamNames /\ (resp[i][1] \notin Valued => resp[i][2] = None)
<1>1. Range(resp) = Said(pm)
  BY ResponseSays
<1>2. PICK p1, p2, p3, p4 :
        /\ p1 = <<"server_no_context_takeover", None>> /\ p2 = <<"client_no_context_takeover", None>>
        /\ p3 = <<"server_max_window_bits", pm.server>> /\ p4 = <<"client_max_window_bits", pm.client>>
  OBVIOUS
<1>3. PICK c1 \in BOOLEAN, c2 \in BOOLEAN, c3 \in BOOLEAN, c4 \in BOOLEAN :
        (c1 <=> pm.server_fresh) /\ (c2 <=> pm.client_fresh) /\ (c3 <=> pm.server # 15) /\ (c4 <=> pm.client # 15)
  BY DEF WhPm
<1>4. \A x : x \in Range(resp) <=> (c1 /\ x = p1) \/ (c2 /\ x = p2) \/ (c3 /\ x = p3) \/ (c4 /\ x = p4)
  <2>1. PICK S1, S2, S3, S4 :
          /\ S1 = (IF c1 THEN {p1} ELSE {}) /\ S2 = (IF c2 THEN {p2} ELSE {})
          /\ S3 = (IF c3 THEN {p3} ELSE {}) /\ S4 = (IF c4 THEN {p4} ELSE {})
    OBVIOUS
  <2>2. Range(resp) = S1 \cup S2 \cup S3 \cup S4
    BY <1>1, <1>2, <1>3, <2>1 DEF Said
  <2>3. \A x : x \in S1 <=> c1 /\ x = p1
    BY <2>1
  <2>4. \A x : x \in S2 <=> c2 /\ x = p2
    BY <2>1
  <2>5. \A x : x \in S3 <=> c3 /\ x = p3
    BY <2>1
  <2>6. \A x : x \in S4 <=> c4 /\ x = p4
    BY <2>1
  <2>7. \A x : x \in Range(resp) <=> x \in S1 \/ x \in S2 \/ x \in S3 \/ x \in S4
    BY <2>2
  <2> QED BY ONLY <2>3, <2>4, <2>5, <2>6, <2>7
<1>5. /\ p1[1] = "server_no_context_takeover" /\ p2[1] = "client_no_context_takeover" /\ p3[1] = "server_max_window_bits"
      /\ p4[1] = "client_max_window_bits" /\ p1[2] = None /\ p2[2] = None /\ p3[2] = pm.server /\ p4[2] = pm.client
  BY <1>2
<1>6. \A name : /\ HasParam(resp, name) <=> \E x \in Range(resp) : x[1] = name
                /\ HasParam(resp, name) => \E x \in Range(resp) : x[1] = name /\ x[2] = ParamOf(resp, name)
  BY NamedIs
<1>7. /\ p1[1] # p2[1] /\ p1[1] # p3[1] /\ p1[1] # p4[1] /\ p2[1] # p3[1] /\ p2[1] # p4[1] /\ p3[1] # p4[1]
  BY <1>5
<1>8. /\ HasParam(resp, p1[1]) <=> c1
      /\ HasParam(resp, p2[1]) <=> c2
      /\ HasParam(resp, p3[1]) <=> c3
      /\ HasParam(resp, p4[1]) <=> c4
  <2>1. HasParam(resp, p1[1]) <=> c1
    BY ONLY <1>4, <1>6, <1>7
  <2>2. HasParam(resp, p2[1]) <=> c2
    BY ONLY <1>4, <1>6, <1>7
  <2>3. HasParam(resp, p3[1]) <=> c3
    BY ONLY <1>4, <1>6, <1>7
  <2>4. HasParam(resp, p4[1]) <=> c4
    BY ONLY <1>4, <1>6, <1>7
  <2> QED BY <2>1, <2>2, <2>3, <2>4
<1>9. /\ HasParam(resp, "server_no_context_takeover") <=> pm.server_fresh
      /\ HasParam(resp, "client_no_context_takeover") <=> pm.client_fresh
      /\ HasParam(resp, "server_max_window_bits") <=> pm.server # 15
      /\ HasParam(resp, "client_max_window_bits") <=> pm.client # 15
  BY ONLY <1>5, <1>8, <1>3
<1>10. pm.server # 15 => ParamOf(resp, "server_max_window_bits") = pm.server
  <2>1. ASSUME c3 PROVE ParamOf(resp, p3[1]) = p3[2]
    BY ONLY <1>4, <1>6, <1>7, <1>8, <2>1
  <2> QED BY ONLY <1>5, <1>3, <2>1
<1>11. pm.client # 15 => ParamOf(resp, "client_max_window_bits") = pm.client
  <2>1. ASSUME c4 PROVE ParamOf(resp, p4[1]) = p4[2]
    BY ONLY <1>4, <1>6, <1>7, <1>8, <2>1
  <2> QED BY ONLY <1>5, <1>3, <2>1
<1>12. \A x \in Range(resp) : x[1] \in ParamNames /\ (x[1] \notin Valued => x[2] = None)
  <2>1. \A x \in Range(resp) : x = p1 \/ x = p2 \/ x = p3 \/ x = p4
    BY ONLY <1>4
  <2> QED BY <1>5, <2>1 DEF ParamNames, Valued
<1>13. \A i \in DOMAIN resp : resp[i] \in Range(resp)
  BY DEF Range
<1> QED BY <1>9, <1>10, <1>11, <1>12, <1>13

\* from_response() takes what negotiate() answers, and the two views work together.
LEMMA ResponseTaken ==
  ASSUME NEW offer \in Seq(Param), NEW policy \in Policies, Acceptable(offer), NEW pm, pm = negotiate(offer, policy),
         NEW resp, resp = response_header(pm), NEW got, got = from_response(offer, resp)
  PROVE  /\ ResponseOk(offer, resp) /\ got \in WhPm /\ got.client <= pm.client /\ pm.server <= got.server
         /\ pm.client_fresh => got.client_fresh
         /\ got.server_fresh => pm.server_fresh
<1>1. /\ pm \in WhPm
      /\ HasParam(offer, "server_max_window_bits") => pm.server <= ParamOf(offer, "server_max_window_bits")
      /\ pm.client # 15 => HasParam(offer, "client_max_window_bits")
  BY Negotiated
<1>2. /\ HasParam(resp, "server_no_context_takeover") <=> pm.server_fresh
      /\ HasParam(resp, "client_no_context_takeover") <=> pm.client_fresh
      /\ HasParam(resp, "server_max_window_bits") <=> pm.server # 15
      /\ HasParam(resp, "client_max_window_bits") <=> pm.client # 15
      /\ pm.server # 15 => ParamOf(resp, "server_max_window_bits") = pm.server
      /\ pm.client # 15 => ParamOf(resp, "client_max_window_bits") = pm.client
      /\ \A i \in DOMAIN resp : resp[i][1] \in ParamNames /\ (resp[i][1] \notin Valued => resp[i][2] = None)
  BY <1>1, ResponseNamed
<1>3. pm.server \in 8..15 /\ pm.client \in 8..15
  BY <1>1 DEF WhPm
<1>4. ResponseOk(offer, resp)
  <2>1. \A n \in Valued : HasParam(resp, n) => ParamOf(resp, n) \in 8..15
    BY <1>2, <1>3 DEF Valued
  <2> QED BY <1>1, <1>2, <2>1 DEF ResponseOk
<1>5. WindowOr15(resp, "server_max_window_bits") = pm.server /\ WindowOr15(resp, "client_max_window_bits") = pm.client
  <2>1. pm.server # None /\ pm.client # None
    BY <1>3 DEF None
  <2> QED BY <1>2, <2>1 DEF WindowOr15
<1>6. PICK w \in 8..15 : w = IF HasParam(resp, "client_max_window_bits") THEN WindowOr15(offer, "client_max_window_bits") ELSE 15
  <2>1. WindowOr15(offer, "client_max_window_bits") \in 8..15
    BY OfferedIs DEF WindowOr15
  <2> QED BY <2>1
<1>7. PICK a \in BOOLEAN, b \in BOOLEAN : a = HasParam(resp, "server_no_context_takeover") /\ b = HasParam(resp, "client_no_context_takeover")
  BY DEF HasParam
<1>8. got = [server |-> pm.server, client |-> Least(pm.client, w), server_fresh |-> a, client_fresh |-> b]
  BY <1>5, <1>6, <1>7 DEF from_response
<1>9. Least(pm.client, w) \in 8..15 /\ Least(pm.client, w) <= pm.client
  BY ONLY <1>3, LeastIs, w \in 8..15
<1>10. got \in WhPm /\ got.server = pm.server /\ got.client = Least(pm.client, w) /\ got.server_fresh = a /\ got.client_fresh = b
  BY <1>3, <1>8, <1>9 DEF WhPm
<1>11. pm.server <= pm.server
  BY <1>3
<1> QED BY <1>2, <1>4, <1>7, <1>9, <1>10, <1>11

\* An address is no junk.
LEMMA AddressIs ==
  ASSUME NEW ip \in Addresses
  PROVE  ip \in Int /\ ip # Junk
<1>1. 2^WhWidth - 1 \in Int
  BY WhAssumption
<1> QED BY <1>1 DEF Addresses, Junk

\* The inputs are sequences.
LEMMA BoundedIs ==
  ASSUME NEW S, NEW n \in Nat, NEW s \in BoundedSeq(S, n)
  PROVE  s \in Seq(S)
<1>1. PICK m \in 0..n : s \in [1..m -> S]
  BY DEF BoundedSeq, SeqOf
<1> QED BY <1>1

\* The empty request and plan have their types.
LEMMA NothingYet == NoReq \in WhReq /\ NoPlan \in WhPlan /\ NoPlan.pm \in WhPm
<1>1. NoReq \in WhReq
  <2>1. <<>> \in Seq(Param) /\ <<>> \in Seq(WhNames) /\ <<>> \in Seq(Int) /\ Junk \in Int
    BY DEF Junk
  <2> QED BY <2>1 DEF NoReq, WhReq, Defects
<1>2. NoPlan \in WhPlan /\ NoPlan.pm \in WhPm
  BY DEF NoPlan, WhPlan, WhPm
<1> QED BY <1>1, <1>2

\* The start.
LEMMA ShakeStart == WhInit => WhInv
<1> SUFFICES ASSUME WhInit PROVE WhInv
  OBVIOUS
<1>1. PICK w \in WhWindows : TRUE
  BY WhAssumption
<1>2. [server |-> w, client |-> w, prefer |-> FALSE, advertise |-> FALSE] \in Policies
  BY DEF Policies
<1>3. PICK q \in Policies : q = CHOOSE p \in Policies : TRUE
  BY <1>2
<1>4. hs = [pc |-> "connect", req |-> NoReq, plan |-> NoPlan, got |-> NoPlan, client |-> 0, policy |-> q, origins |-> "same", seen |-> 0, apart |-> FALSE]
  BY <1>3 DEF WhInit
<1>5. hs.pc = "connect"
  BY <1>4
<1>6. hs \in WhState
  BY ONLY <1>4, NothingYet, q \in Policies DEF WhState
<1> QED BY <1>5, <1>6 DEF WhInv, NegotiationAgrees

\* connect_with: the offer.
LEMMA ConnectStep == ASSUME WhInv, Connect PROVE WhInv'
<1>1. PICK params \in BoundedSeq(Param, WhParams), compress \in BOOLEAN, policy \in Policies :
        hs' = [hs EXCEPT !.pc = "headers", !.policy = policy, !.req = [NoReq EXCEPT !.compress = compress, !.offer = params]]
  BY DEF Connect
<1>2. params \in Seq(Param)
  BY <1>1, BoundedIs, WhAssumption
<1>3. PICK r \in WhReq : r = [NoReq EXCEPT !.compress = compress, !.offer = params]
  BY <1>2, NothingYet DEF WhReq
<1>4. hs' = [hs EXCEPT !.pc = "headers", !.policy = policy, !.req = r]
  BY <1>1, <1>3
<1>5. hs'.pc = "headers"
  BY <1>4 DEF WhInv, WhState
<1>6. hs' \in WhState
  BY <1>4 DEF WhInv, WhState
<1> QED BY <1>5, <1>6 DEF WhInv, NegotiationAgrees

\* The other headers.
LEMMA HeadersStep == ASSUME WhInv, Headers PROVE WhInv'
<1>1. PICK protocols \in BoundedSeq(Range(WhProtocols) \union {"p9"}, 2), defect \in Defects \union {"none"},
          host \in {"none", "h", "other"}, port \in {0, 80, 81}, origins \in {"any", "none", "same"} :
         /\ WhApart /\ hs.req.compress => protocols = <<>> /\ defect = "none" /\ host = "none" /\ origins = "same"
         /\ host = "none" => port = 0
         /\ WhApart /\ defect # "none" => host = "none" /\ origins = "same"
         /\ hs' = [hs EXCEPT !.pc = "path", !.origins = origins,
                     !.req.protocols = protocols, !.req.defect = defect,
                     !.req.origin = [host |-> host, secure |-> FALSE, port |-> port]]
  BY DEF Headers
<1>2. protocols \in Seq(WhNames)
  BY <1>1, BoundedIs DEF WhNames
<1>3. PICK o \in [host : {"none", "h", "other"}, secure : BOOLEAN, port : Nat] : o = [host |-> host, secure |-> FALSE, port |-> port]
  <2>1. port \in Nat
    BY <1>1
  <2> QED BY <1>1, <2>1
<1>4. hs.req \in WhReq
  BY DEF WhInv, WhState
<1>5. PICK r \in WhReq : r = [hs.req EXCEPT !.protocols = protocols, !.defect = defect, !.origin = o]
  BY <1>2, <1>4 DEF WhReq
<1>6. hs' = [hs EXCEPT !.pc = "path", !.origins = origins, !.req = r]
  BY <1>1, <1>3, <1>5 DEF WhInv, WhState
<1>7. hs'.pc = "path"
  BY <1>6 DEF WhInv, WhState
<1>8. hs' \in WhState
  BY <1>6 DEF WhInv, WhState
<1> QED BY <1>7, <1>8 DEF WhInv, NegotiationAgrees

\* The request leaves the client: its peer is the client.
LEMMA SendingStep == ASSUME WhInv, Send PROVE WhInv'
<1>1. PICK ip \in Addresses, xff \in BoundedSeq(Addresses \union {Junk}, WhForged), xreal \in {Junk, 0} :
         /\ ~is_trusted_proxy(ip)
         /\ hs' = [hs EXCEPT !.pc = "plan", !.client = ip, !.req.peer = ip, !.req.xff = xff, !.req.xreal = xreal]
  BY DEF Send
<1>2. xff \in Seq(Addresses \union {Junk})
  BY <1>1, BoundedIs, WhAssumption
<1>3. \A a \in Addresses \union {Junk} : a \in Int
  BY AddressIs DEF Junk
<1>4. xff \in Seq(Int)
  BY ONLY <1>2, <1>3
<1>5. ip \in Int /\ ip # Junk /\ xreal \in Int
  BY AddressIs DEF Junk
<1>6. hs.req \in WhReq
  BY DEF WhInv, WhState
<1>7. PICK r \in WhReq : r = [hs.req EXCEPT !.peer = ip, !.xff = xff, !.xreal = xreal]
  BY <1>4, <1>5, <1>6 DEF WhReq
<1>8. hs' = [hs EXCEPT !.pc = "plan", !.client = ip, !.req = r]
  BY <1>1, <1>7 DEF WhInv, WhState
<1>9. hs'.pc = "plan" /\ hs'.client = ip /\ hs'.req = r
  BY <1>8 DEF WhInv, WhState
<1>10. hs' \in WhState
  BY <1>5, <1>8 DEF WhInv, WhState
<1>11. PathTrue(r, ip)
  <2>1. r.peer = ip
    BY <1>6, <1>7 DEF WhReq
  <2> QED BY <1>1, <1>5, <2>1 DEF PathTrue
<1> QED BY <1>9, <1>10, <1>11 DEF WhInv, NegotiationAgrees

\* A proxy appends the peer it saw: the mark stays, or is made.
LEMMA ForwardStep == ASSUME WhInv, ForwardBy PROVE WhInv'
<1>1. PICK ip \in Addresses, behind \in BOOLEAN :
         /\ is_trusted_proxy(ip)
         /\ hs' = [hs EXCEPT !.req.peer = ip, !.req.xff = IF behind THEN @ ELSE Append(@, hs.req.peer),
                             !.apart = @ \/ behind, !.seen = @ + 1,
                             !.req.xhost = hs.req.host, !.req.xproto = hs.req.tls]
  BY DEF ForwardBy
<1>2. hs.pc = "plan" /\ hs.req \in WhReq /\ (~hs.apart => PathTrue(hs.req, hs.client))
  BY DEF WhInv, WhState, ForwardBy
<1>3. PICK xff \in Seq(Int), peer \in Int : xff = hs.req.xff /\ peer = hs.req.peer
  BY <1>2 DEF WhReq
<1>4. PICK x2 \in Seq(Int) : x2 = (IF behind THEN xff ELSE Append(xff, peer))
  <2>1. Append(xff, peer) \in Seq(Int)
    BY ONLY xff \in Seq(Int), peer \in Int
  <2> QED BY <2>1
<1>5. ip \in Int
  BY AddressIs
<1>6. PICK r \in WhReq : r = [hs.req EXCEPT !.peer = ip, !.xff = x2, !.xhost = hs.req.host, !.xproto = hs.req.tls]
  BY <1>2, <1>4, <1>5 DEF WhReq
<1>7. hs' = [hs EXCEPT !.req = r, !.apart = (hs.apart \/ behind), !.seen = hs.seen + 1]
  BY <1>1, <1>3, <1>4, <1>6 DEF WhInv, WhState
<1>8. hs'.pc = "plan" /\ hs'.client = hs.client /\ hs'.req = r /\ (~hs'.apart => ~hs.apart /\ ~behind)
  BY <1>2, <1>7 DEF WhInv, WhState
<1>9. hs' \in WhState
  <2>1. PICK m \in Nat : m = hs.seen + 1
    BY DEF WhInv, WhState
  <2>2. PICK b \in BOOLEAN : b = (hs.apart \/ behind)
    OBVIOUS
  <2> QED BY <1>7, <2>1, <2>2 DEF WhInv, WhState
<1>10. r.peer = ip /\ r.xff = x2
  BY <1>2, <1>6 DEF WhReq
<1>11. ASSUME ~hs.apart, ~behind PROVE \E k \in 1..Len(x2) : Marks(x2, hs.client, k)
  <2>1. PICK n \in Nat : n = Len(xff)
    OBVIOUS
  <2>2. Len(x2) = n + 1 /\ x2[n + 1] = peer /\ \A i \in 1..n : x2[i] = xff[i]
    BY <1>4, <1>11, <2>1
  <2>3. CASE is_trusted_proxy(peer)
    <3>1. PICK k \in 1..n : Marks(xff, hs.client, k)
      BY <1>2, <1>3, <1>11, <2>1, <2>3 DEF PathTrue
    <3>2. \A j \in 1..(n + 1) : j \in 1..n \/ j = n + 1
      OBVIOUS
    <3>3. \A j \in 1..(n + 1) : j > k => is_trusted_proxy(x2[j])
      BY <2>1, <2>2, <2>3, <3>1, <3>2 DEF Marks
    <3>4. x2[k] = hs.client /\ k \in 1..Len(x2)
      BY <2>2, <3>1 DEF Marks
    <3> QED BY <2>2, <3>3, <3>4 DEF Marks
  <2>4. CASE ~is_trusted_proxy(peer)
    <3>1. peer = hs.client
      BY <1>2, <1>3, <1>11, <2>4 DEF PathTrue
    <3>2. n + 1 \in 1..Len(x2) /\ \A j \in 1..Len(x2) : ~(j > n + 1)
      BY <2>2
    <3> QED BY <2>2, <3>1, <3>2 DEF Marks
  <2> QED BY <2>3, <2>4
<1>12. ASSUME ~hs.apart, ~behind PROVE PathTrue(r, hs.client)
  BY <1>1, <1>2, <1>10, <1>11, <1>12 DEF PathTrue
<1> QED BY <1>8, <1>9, <1>12 DEF WhInv, NegotiationAgrees

\* select_subprotocol(): the server's first choice among what the client offers.
LEMMA SelectIs ==
  ASSUME NEW req \in WhReq
  PROVE  /\ Select(req) \in WhNames \union {"none"}
         /\ Select(req) # "none" => Select(req) \in Range(req.protocols)
<1>1. PICK usable \in SUBSET Nat : usable = {i \in DOMAIN WhProtocols : WhProtocols[i] \in Range(req.protocols)}
  <2>1. DOMAIN WhProtocols = 1..Len(WhProtocols) /\ Len(WhProtocols) \in Nat
    BY WhAssumption
  <2>2. {i \in DOMAIN WhProtocols : WhProtocols[i] \in Range(req.protocols)} \subseteq Nat
    BY <2>1
  <2> QED BY <2>2
<1>2. Select(req) = IF usable = {} THEN "none" ELSE WhProtocols[CHOOSE i \in usable : \A j \in usable : i <= j]
  BY <1>1 DEF Select
<1>3. CASE usable = {}
  BY <1>2, <1>3
<1>4. CASE usable # {}
  <2>1. \E i \in usable : \A j \in usable : i <= j
    BY <1>4, LeastOf
  <2>2. PICK i \in usable : i = CHOOSE k \in usable : \A j \in usable : k <= j
    BY <2>1
  <2>3. Select(req) = WhProtocols[i]
    BY <1>2, <1>4, <2>2
  <2>4. i \in DOMAIN WhProtocols /\ WhProtocols[i] \in Range(req.protocols)
    BY <1>1
  <2>5. WhProtocols[i] \in WhNames
    BY <2>4 DEF WhNames, Range
  <2> QED BY <2>3, <2>4, <2>5
<1> QED BY <1>3, <1>4

\* plan: the answer is within the offer.
LEMMA PlanStep == ASSUME WhInv, Plan PROVE WhInv'
<1>1. hs.pc = "plan" /\ hs.req \in WhReq /\ hs.policy \in Policies /\ (~hs.apart => PathTrue(hs.req, hs.client))
  BY DEF WhInv, WhState, Plan
<1>2. CASE Refusal(hs.req, hs.origins) # 0
  <2>1. PICK n \in Nat : n = Refusal(hs.req, hs.origins)
    <3>1. Refusal(hs.req, hs.origins) \in Nat
      BY DEF Refusal
    <3> QED BY <3>1
  <2>2. hs' = [hs EXCEPT !.pc = "refused", !.plan.status = n]
    BY <1>2, <2>1 DEF Plan
  <2>3. PICK p \in WhPlan : p = [hs.plan EXCEPT !.status = n]
    BY DEF WhInv, WhState, WhPlan
  <2>4. hs' = [hs EXCEPT !.pc = "refused", !.plan = p]
    BY <2>2, <2>3 DEF WhInv, WhState
  <2>5. hs'.pc = "refused"
    BY <2>4 DEF WhInv, WhState
  <2>6. hs' \in WhState
    BY <2>4 DEF WhInv, WhState
  <2> QED BY <2>5, <2>6 DEF WhInv, NegotiationAgrees
<1>3. CASE ~(Refusal(hs.req, hs.origins) # 0)
  <2>1. PICK c \in BOOLEAN : c <=> hs.req.compress /\ Acceptable(hs.req.offer)
    OBVIOUS
  <2>2. PICK pm \in WhPm : pm = IF c THEN negotiate(hs.req.offer, hs.policy) ELSE NoPlan.pm
    <3>1. c => negotiate(hs.req.offer, hs.policy) \in WhPm
      <4>1. hs.req.offer \in Seq(Param)
        BY <1>1 DEF WhReq
      <4> QED BY <1>1, <2>1, <4>1, Negotiated
    <3> QED BY <3>1, NothingYet
  <2>3. PICK s \in WhNames \union {"none"} : s = Select(hs.req)
    BY <1>1, SelectIs
  <2>4. PICK p \in WhPlan : p = [status |-> 101, protocol |-> s, compress |-> c, pm |-> pm]
    BY DEF WhPlan
  <2>5. hs' = [hs EXCEPT !.pc = "answer", !.plan = p]
    <3>1. hs.req.compress \in BOOLEAN
      BY <1>1 DEF WhReq
    <3>2. (hs.req.compress /\ Acceptable(hs.req.offer)) = c
      BY <2>1, <3>1 DEF Acceptable
    <3> QED BY <1>3, <2>2, <2>3, <2>4, <3>2 DEF Plan
  <2>6. hs'.pc = "answer" /\ hs'.plan = p /\ hs'.req = hs.req /\ hs'.policy = hs.policy /\ hs'.client = hs.client /\ hs'.apart = hs.apart
    BY <2>5 DEF WhInv, WhState
  <2>7. hs' \in WhState
    BY <2>5 DEF WhInv, WhState
  <2>8. PlanTrue(hs.req, hs.policy, p)
    <3>1. p.protocol = s /\ p.compress = c /\ p.pm = pm
      BY <2>4
    <3>2. s # "none" => s \in Range(hs.req.protocols)
      BY <1>1, <2>3, SelectIs
    <3> QED BY <2>1, <2>2, <3>1, <3>2 DEF PlanTrue
  <2> QED BY <1>1, <2>6, <2>7, <2>8 DEF WhInv, NegotiationAgrees
<1> QED BY <1>2, <1>3

\* validate_response and from_response: never refused.
LEMMA ReadStep == ASSUME WhInv, ReadResponse PROVE WhInv'
<1>1. hs.pc = "answer" /\ hs.req \in WhReq /\ hs.policy \in Policies /\ hs.plan \in WhPlan
  BY DEF WhInv, WhState, ReadResponse
<1>2. (~hs.apart => PathTrue(hs.req, hs.client)) /\ PlanTrue(hs.req, hs.policy, hs.plan)
  BY <1>1 DEF WhInv, WhState
<1>3. PICK resp : resp = response_header(hs.plan.pm)
  OBVIOUS
<1>4. hs.req.offer \in Seq(Param) /\ hs.plan.pm \in WhPm /\ hs.plan.compress \in BOOLEAN /\ hs.plan.protocol \in WhNames \union {"none"}
  BY <1>1 DEF WhReq, WhPlan
<1>5. PICK pm \in WhPm : pm = IF hs.plan.compress THEN from_response(hs.req.offer, resp) ELSE NoPlan.pm
  <2>1. hs.plan.compress => from_response(hs.req.offer, resp) \in WhPm
    BY <1>1, <1>2, <1>3, <1>4, ResponseTaken DEF PlanTrue
  <2> QED BY <2>1, NothingYet
<1>6. hs.plan.compress => ResponseOk(hs.req.offer, resp)
  BY <1>1, <1>2, <1>3, <1>4, ResponseTaken DEF PlanTrue
<1>7. PICK g \in WhPlan : g = [status |-> 101, protocol |-> hs.plan.protocol, compress |-> hs.plan.compress, pm |-> pm]
  BY <1>4 DEF WhPlan
<1>8. /\ hs.plan.protocol # "none" => hs.plan.protocol \in Range(hs.req.protocols)
      /\ hs.plan.compress => hs.req.compress /\ ResponseOk(hs.req.offer, resp)
  BY <1>2, <1>6 DEF PlanTrue
<1>9. hs' = [hs EXCEPT !.pc = "open", !.got = g]
  BY <1>3, <1>5, <1>7, <1>8 DEF ReadResponse
<1>10. hs'.pc = "open" /\ hs'.got = g /\ hs'.plan = hs.plan /\ hs'.req = hs.req /\ hs'.client = hs.client /\ hs'.apart = hs.apart
  BY <1>9 DEF WhInv, WhState
<1>11. hs' \in WhState
  BY <1>9 DEF WhInv, WhState
<1>12. /\ g.pm.client <= hs.plan.pm.client /\ hs.plan.pm.server <= g.pm.server
       /\ hs.plan.pm.client_fresh => g.pm.client_fresh
       /\ g.pm.server_fresh => hs.plan.pm.server_fresh
  <2>1. g.pm = pm
    BY <1>7
  <2>2. CASE hs.plan.compress
    <3>1. pm = from_response(hs.req.offer, resp) /\ hs.plan.pm = negotiate(hs.req.offer, hs.policy) /\ Acceptable(hs.req.offer)
      BY <1>2, <1>5, <2>2 DEF PlanTrue
    <3> QED BY <1>1, <1>3, <1>4, <2>1, <3>1, ResponseTaken
  <2>3. CASE ~hs.plan.compress
    <3>1. pm = NoPlan.pm /\ hs.plan.pm = NoPlan.pm
      BY <1>2, <1>5, <2>3 DEF PlanTrue
    <3>2. NoPlan.pm.client <= NoPlan.pm.client /\ NoPlan.pm.server <= NoPlan.pm.server
      BY DEF NoPlan
    <3> QED BY <2>1, <3>1, <3>2
  <2> QED BY <2>2, <2>3
<1> QED BY <1>2, <1>10, <1>11, <1>12 DEF WhInv, NegotiationAgrees

\* The last entry that is no proxy's is the one the first proxy wrote.
LEMMA ClientFound ==
  ASSUME NEW req \in WhReq, NEW client, PathTrue(req, client)
  PROVE  client_ip(req) = client
<1>1. CASE ~is_trusted_proxy(req.peer)
  BY <1>1 DEF PathTrue, client_ip
<1>2. CASE is_trusted_proxy(req.peer)
  <2>1. PICK xff \in Seq(Int) : xff = req.xff
    BY DEF WhReq
  <2>2. PICK k \in 1..Len(xff) : Marks(xff, client, k)
    BY <1>2, <2>1 DEF PathTrue
  <2>3. PICK real : real = {i \in DOMAIN xff : xff[i] # Junk /\ ~is_trusted_proxy(xff[i])}
    OBVIOUS
  <2>4. k \in real
    BY <2>2, <2>3 DEF Marks, PathTrue
  <2>5. \A j \in real : j \in 1..Len(xff) /\ j <= k
    BY <2>2, <2>3 DEF Marks
  <2>6. \A i \in real : (\A j \in real : j <= i) => i = k
    BY <2>4, <2>5
  <2>7. k = CHOOSE i \in real : \A j \in real : j <= i
    BY <2>4, <2>5, <2>6
  <2>8. ASSUME NEW e PROVE ForwardedFor(xff, e) = xff[k]
    BY <2>3, <2>4, <2>7 DEF ForwardedFor
  <2>9. xff[k] = client
    BY <2>2 DEF Marks
  <2> QED BY <1>2, <2>1, <2>8, <2>9 DEF client_ip
<1> QED BY <1>1, <1>2

\* The opening handshake (connect_with, plan, validate_response, from_response): for every
\* policy, offer, forwarding header and chain of trusted proxies, what the server answers
\* the client accepts, the two hold windows and takeover flags that work together, and the
\* address the server takes for the client's is the client's if the proxies wrote what they
\* saw on the first line of X-Forwarded-For.
THEOREM HandshakeStaysHonest == WhSpec => []HandshakeHonest
<1>1. WhInv /\ [WhNext]_whvars => WhInv'
  <2> SUFFICES ASSUME WhInv, [WhNext]_whvars PROVE WhInv'
    OBVIOUS
  <2>1. CASE WhNext
    BY <2>1, ConnectStep, HeadersStep, SendingStep, ForwardStep, PlanStep, ReadStep DEF WhNext
  <2>2. CASE UNCHANGED whvars
    BY <2>2 DEF WhInv, NegotiationAgrees, whvars
  <2> QED BY <2>1, <2>2
<1>2. WhInv => HandshakeHonest
  <2> SUFFICES ASSUME WhInv PROVE HandshakeHonest
    OBVIOUS
  <2>1. ASSUME hs.pc \in {"answer", "open"}, ~hs.apart PROVE client_ip(hs.req) = hs.client
    <3>1. hs.req \in WhReq /\ PathTrue(hs.req, hs.client)
      BY <2>1 DEF WhInv, WhState
    <3> QED BY <3>1, ClientFound
  <2> QED BY <2>1 DEF WhInv, HandshakeHonest, ClientIpReal
<1> QED BY <1>1, <1>2, ShakeStart, PTL DEF WhSpec
=============================================================================
