----------------------------- MODULE ClientPool -----------------------------
(***************************************************************************)
(* The pool of multiplexed connections of one authority (get_h2_conn(),    *)
(* send_h2_cmd(), execute_h2c_upgrade() and their HTTP/3 twins in          *)
(* client/mod.rs).  Callers choose a connection under the pool's lock,     *)
(* open one outside it, and hold a reservation while the driver thread has *)
(* their request.  A driver may refuse new work or be gone at any time.    *)
(***************************************************************************)
EXTENDS Naturals, FiniteSets, FiniteSetsExt

CONSTANTS CpCallers,     \* requests, each on its own thread
          CpConns,       \* bound: the connections ever opened; 0 is none
          CpMax,         \* max_connections_per_host, at least 1
          CpUpgrades     \* the callers that go through execute_h2c_upgrade()

ASSUME CpAssumption ==
    /\ CpMax \in Nat \ {0} /\ CpUpgrades \subseteq CpCallers
    /\ IsFiniteSet(CpCallers) /\ CpConns \subseteq Nat \ {0}

VARIABLES plist,    \* the pooled connections, whose order decides nothing that the model tells apart
          pending,  \* pending_h2_opens
          mconn,    \* per connection: accepting, alive (its driver), resv, cmds
          pcall     \* per caller: pc, conn, retried (on a second connection)

cpvars == <<plist, pending, mconn, pcall>>

CpInit ==
    /\ plist = {} /\ pending = 0
    /\ mconn = [k \in CpConns |-> [opened |-> FALSE, accepting |-> FALSE, alive |-> FALSE,
                                   resv |-> 0, cmds |-> {}]]
    /\ pcall = [c \in CpCallers |-> [pc |-> "idle", conn |-> 0, retried |-> FALSE]]

Accepting(list) == {k \in list : mconn[k].accepting}
Pooled(k) ==
    LET list == Accepting(plist) IN IF Cardinality(list) < CpMax THEN list \union {k} ELSE list
IsIdle(k) == mconn[k].resv = 0
CpGoto(c, l) == pcall' = [pcall EXCEPT ![c].pc = l]
Holds(c, k, l) == pcall' = [pcall EXCEPT ![c].pc = l, ![c].conn = k]
ReserveConn(k) == mconn' = [mconn EXCEPT ![k].resv = @ + 1]

Ask(c) ==
    /\ pcall[c].pc = "idle"
    /\ CpGoto(c, IF c \in CpUpgrades THEN "upgrade" ELSE "lookup")
    /\ UNCHANGED <<plist, pending, mconn>>

\* The locked part of get_h2_conn(): retain(), then an idle connection; at the cap, the
\* least loaded (any: load() also weighs body bytes and service times); below it, a slot to open one; or wait for the one who is opening.
\* Drivers that refuse between retain() and the choice (gone) still count for the cap.
Lookup(c) ==
    LET list == Accepting(plist) IN
    /\ pcall[c].pc = "lookup"
    /\ plist' = list
    /\ \E gone \in SUBSET list :
          LET live == list \ gone
              idle == {k \in live : IsIdle(k)}
              taken == idle # {} \/ (live # {} /\ Cardinality(list) >= CpMax)
              Refused == [k \in CpConns |-> IF k \in gone THEN [mconn[k] EXCEPT !.accepting = FALSE]
                                                         ELSE mconn[k]] IN
          \/ /\ taken
             /\ \E k \in IF idle # {} THEN idle ELSE live :
                   /\ mconn' = [Refused EXCEPT ![k].resv = @ + 1]
                   /\ Holds(c, k, "send")
             /\ UNCHANGED pending
          \/ /\ ~taken /\ Cardinality(list) + pending < CpMax
             /\ pending' = pending + 1
             /\ mconn' = Refused /\ CpGoto(c, "open")
          \/ /\ ~taken /\ Cardinality(list) + pending >= CpMax
             /\ CpGoto(c, IF pending > 0 THEN "wait" ELSE "last")
             /\ mconn' = Refused /\ UNCHANGED pending

\* wait_timeout() on h2_open_cv: notified or not, after 200 ms at the latest.
WaitOpen(c) ==
    /\ pcall[c].pc = "wait"
    /\ CpGoto(c, "lookup")
    /\ UNCHANGED <<plist, pending, mconn>>

\* A driver is started on connection k.
StartDriver(k) ==
    /\ k = Min({j \in CpConns : ~mconn[j].opened})
    /\ mconn' = [mconn EXCEPT ![k] = [@ EXCEPT !.opened = TRUE, !.accepting = TRUE, !.alive = TRUE]]

\* open_h2_stream() and h2::start() without the lock, then the push under it.
Opened(c) ==
    /\ pcall[c].pc = "open"
    /\ \E k \in CpConns :
          /\ ~mconn[k].opened
          /\ StartDriver(k)
          /\ plist' = Pooled(k)
          /\ Holds(c, k, "fresh")
    /\ pending' = pending - 1

\* Faulty variant: a failed open keeps its slot.
OpenFailsHolding(c) ==
    /\ pcall[c].pc = "open"
    /\ CpGoto(c, "done")
    /\ UNCHANGED <<plist, pending, mconn>>

OpenFails(c) ==
    /\ pcall[c].pc = "open"
    /\ pending' = pending - 1
    /\ CpGoto(c, "done")
    /\ UNCHANGED <<plist, mconn>>

\* reserve() after the lock is released: another caller may have taken it for idle.
ReserveFresh(c) ==
    /\ pcall[c].pc = "fresh"
    /\ ReserveConn(pcall[c].conn) /\ CpGoto(c, "send")
    /\ UNCHANGED <<plist, pending>>

\* The fallback at the end of get_h2_conn().
LastResort(c) ==
    LET list == Accepting(plist) IN
    /\ pcall[c].pc = "last"
    /\ IF list = {} THEN CpGoto(c, "done") /\ UNCHANGED mconn
                      ELSE \E k \in list : ReserveConn(k) /\ Holds(c, k, "send")
    /\ UNCHANGED <<plist, pending>>

Released(k) == [mconn[k] EXCEPT !.resv = IF @ > 0 THEN @ - 1 ELSE 0]

\* Faulty variant: the retry reserves what get_h2_conn() has reserved already.
AfterSendErrorReserving(c) ==
    /\ mconn' = [mconn EXCEPT ![pcall[c].conn].accepting = FALSE]
    /\ pcall' = [pcall EXCEPT ![c] = [pc |-> "lookup", conn |-> 0, retried |-> TRUE]]

\* The driver is gone: its connection is given up, and a second one is tried.
AfterSendError(c) ==
    LET k == pcall[c].conn IN
    /\ mconn' = [mconn EXCEPT ![k] = IF pcall[c].retried THEN Released(k)
                                     ELSE [Released(k) EXCEPT !.accepting = FALSE]]
    /\ pcall' = [pcall EXCEPT ![c] = IF @.retried THEN [@ EXCEPT !.pc = "done", !.conn = 0]
                                     ELSE [pc |-> "lookup", conn |-> 0, retried |-> TRUE]]

\* send_h2_cmd(): the command goes to the driver's channel.
SendCmd(c) ==
    LET k == pcall[c].conn IN
    /\ pcall[c].pc = "send"
    /\ IF mconn[k].alive
         THEN mconn' = [mconn EXCEPT ![k].cmds = @ \union {c}] /\ CpGoto(c, "await")
         ELSE AfterSendError(c)
    /\ UNCHANGED <<plist, pending>>

\* rx.recv(): the reply, or the end of the channel; then release().
Receive(c) ==
    LET k == pcall[c].conn IN
    /\ pcall[c].pc = "await" /\ c \notin mconn[k].cmds
    /\ mconn' = [mconn EXCEPT ![k] = Released(k)]
    /\ pcall' = [pcall EXCEPT ![c].pc = "done", ![c].conn = 0]
    /\ UNCHANGED <<plist, pending>>

\* The pooled half of execute_h2c_upgrade(): idle, or at the cap the least loaded.
UpgradeLookup(c) ==
    LET list == Accepting(plist)
        idle == {k \in list : IsIdle(k)} IN
    /\ pcall[c].pc = "upgrade"
    /\ plist' = list
    /\ IF list # {} /\ (idle # {} \/ Cardinality(list) >= CpMax)
         THEN \E k \in IF idle # {} THEN idle ELSE list :
                 ReserveConn(k) /\ Holds(c, k, "send")
         ELSE CpGoto(c, "upgrading") /\ UNCHANGED mconn
    /\ UNCHANGED pending

\* A socket of its own, outside pending_h2_opens: upgraded (the connection is pooled if
\* there is room), or declined or failed.
Upgrade(c) ==
    /\ pcall[c].pc = "upgrading"
    /\ \/ \E k \in CpConns :
             /\ ~mconn[k].opened /\ k = Min({j \in CpConns : ~mconn[j].opened})
             /\ mconn' = [mconn EXCEPT ![k] = [opened |-> TRUE, accepting |-> TRUE, alive |-> TRUE,
                                               resv |-> 1, cmds |-> {c}]]
             /\ plist' = Pooled(k)
             /\ Holds(c, k, "await")
       \/ CpGoto(c, "done") /\ UNCHANGED <<mconn, plist>>
    /\ UNCHANGED pending

-----------------------------------------------------------------------------
(* The driver threads (ClientH2), as the pool sees them *)

DriverReplies(k) ==
    /\ mconn[k].alive
    /\ \E c \in mconn[k].cmds : mconn' = [mconn EXCEPT ![k].cmds = @ \ {c}]
    /\ UNCHANGED <<plist, pending, pcall>>

\* A GOAWAY: nothing new on this connection.
DriverRefuses(k) ==
    /\ mconn[k].accepting /\ mconn[k].alive
    /\ mconn' = [mconn EXCEPT ![k].accepting = FALSE]
    /\ UNCHANGED <<plist, pending, pcall>>

\* The driver returns: every reply channel it held is closed.
DriverEnds(k) ==
    /\ mconn[k].alive
    /\ mconn' = [mconn EXCEPT ![k].alive = FALSE, ![k].accepting = FALSE, ![k].cmds = {}]
    /\ UNCHANGED <<plist, pending, pcall>>

Acquire(c) == Lookup(c) \/ WaitOpen(c) \/ Opened(c) \/ OpenFails(c) \/ ReserveFresh(c) \/ LastResort(c)
Exchange(c) == SendCmd(c) \/ Receive(c) \/ UpgradeLookup(c) \/ Upgrade(c)

CpNext ==
    \/ \E c \in CpCallers : Ask(c) \/ Acquire(c) \/ Exchange(c)
    \/ \E k \in CpConns : DriverReplies(k) \/ DriverRefuses(k) \/ DriverEnds(k)

CpSpec == CpInit /\ [][CpNext]_cpvars

-----------------------------------------------------------------------------
Holding(k) == {c \in CpCallers : pcall[c].conn = k /\ pcall[c].pc # "fresh"}
Opening == {c \in CpCallers : pcall[c].pc = "open"}

(* The reservations of a connection are the requests that hold it, so load   *)
(* balancing and idle reuse see the truth, and every path releases once      *)
(* what it reserved; the opens in progress are counted exactly, and the pool *)
(* never exceeds its cap.                                                    *)
ReservationsExact ==
    /\ \A k \in CpConns :
          mconn[k].resv = Cardinality(Holding(k))
    /\ pending = Cardinality(Opening)
    /\ Cardinality(plist) <= CpMax

(* A caller is never stranded: not on a slot somebody else was to open, not  *)
(* on a driver that ended while it had the request.                          *)
CallersServed == \A c \in CpCallers : pcall[c].pc \in {"idle", "done"}
=============================================================================
