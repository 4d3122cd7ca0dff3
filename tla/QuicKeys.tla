------------------------------ MODULE QuicKeys ------------------------------
(***************************************************************************)
(* 1-RTT packets between two QuicTransports: the truncated packet number a *)
(* receiver has to recover, and the key updates either end may start.  A   *)
(* key is its generation; a packet shows the generation's parity (the key  *)
(* phase bit) and opens only with the very key and number it was sealed    *)
(* with.  Packets are reordered and lost at will.                          *)
(***************************************************************************)
EXTENDS Integers, FiniteSets, FiniteSetsExt

CONSTANTS QkWindow,     \* 2^(8 pn_len), the range of a truncated number
          QkThreshold,  \* KEY_UPDATE_PACKETS
          QkStart,      \* numbers used up when the run starts
          QkPackets,    \* bound: packets of each end, at most half a window of them
          QkFlight      \* bound: packets under way

ASSUME QkAssumption ==
  /\ QkStart \in Nat /\ {QkWindow, QkThreshold, QkPackets, QkFlight} \subseteq Nat \ {0}
  /\ QkWindow % 2 = 0 /\ QkPackets <= QkWindow \div 2

VARIABLES qkend,   \* per end the keys it seals and opens with, and its numbers
          qknet    \* packets under way

qkvars == <<qkend, qknet>>

QkEnds == {"client", "server"}
QkPeer(e) == IF e = "client" THEN "server" ELSE "client"

QkInit ==
  /\ qkend = [e \in QkEnds |-> [send |-> 0, recv |-> 0, pending |-> FALSE, count |-> 0,
                                next |-> QkStart, largest |-> QkStart - 1, missed |-> 0]]
  /\ qknet = {}

(* ---- packet numbers ---- *)
Half == QkWindow \div 2

\* Faulty variant: a number behind the wrap is not corrected downwards.
DecodePnUp(truncated, expected) ==
  LET candidate == expected - (expected % QkWindow) + truncated IN
  IF expected >= Half /\ candidate <= expected - Half THEN candidate + QkWindow ELSE candidate

\* decode_pn(): the candidate nearest to the number expected.
DecodePn(truncated, expected) ==
  LET candidate == expected - (expected % QkWindow) + truncated IN
  IF expected >= Half /\ candidate <= expected - Half THEN candidate + QkWindow
  ELSE IF candidate > expected + Half /\ candidate >= QkWindow THEN candidate - QkWindow
  ELSE candidate

QkExpected(e) == qkend[e].largest + 1

(* ---- sending ---- *)
\* send_frames() on the application level
QkSend(e) ==
  /\ qkend[e].next < QkStart + QkPackets /\ Cardinality(qknet) < QkFlight
  /\ qknet' = qknet \cup {[to |-> QkPeer(e), key |-> qkend[e].send, pn |-> qkend[e].next]}
  /\ qkend' = [qkend EXCEPT ![e].next = @ + 1, ![e].count = @ + 1]

MayUpdate(e) == ~qkend[e].pending /\ qkend[e].count >= QkThreshold

\* maybe_key_update(), on every tick
QkKeyUpdate(e) ==
  /\ MayUpdate(e)
  /\ qkend' = [qkend EXCEPT ![e].send = @ + 1, ![e].count = 0, ![e].pending = TRUE]
  /\ UNCHANGED qknet

(* ---- receiving ---- *)
\* The key that fits the phase bit: the current one or the next.
KeyTried(e, p) == IF p.key % 2 = qkend[e].recv % 2 THEN qkend[e].recv ELSE qkend[e].recv + 1

OpensPacket(e, p) ==
  /\ KeyTried(e, p) = p.key
  /\ DecodePn(p.pn % QkWindow, QkExpected(e)) = p.pn

\* open(): with the next key the receiver moves on, and its sender follows.
Receive1(p) ==
  LET e == p.to
      x == qkend[e]
      fresh == p.key = x.recv + 1
      follows == fresh /\ x.send % 2 # p.key % 2
      send == IF follows THEN x.send + 1 ELSE x.send
  IN /\ qknet' = qknet \ {p}
     /\ qkend' = IF ~OpensPacket(e, p) THEN qkend
                 ELSE [qkend EXCEPT ![e] =
                        [x EXCEPT !.recv = p.key, !.send = send,
                                  !.pending = @ /\ ~(fresh /\ send % 2 = p.key % 2),
                                  !.count = IF fresh THEN 0 ELSE @,
                                  !.missed = IF fresh THEN 0 ELSE @,
                                  !.largest = Max({@, p.pn})]]

\* `missed' is history: the packets of the generation after its own that an end never got.
Lose1(p) ==
  /\ qknet' = qknet \ {p}
  /\ qkend' = [qkend EXCEPT ![p.to].missed = IF p.key = qkend[p.to].recv + 1 THEN @ + 1 ELSE @]

QkNext ==
  \/ \E e \in QkEnds : QkSend(e) \/ QkKeyUpdate(e)
  \/ \E p \in qknet : Receive1(p) \/ Lose1(p)

QkSpec == QkInit /\ [][QkNext]_qkvars

(***************************************************************************)
(* Properties.                                                             *)
(***************************************************************************)
\* No end is locked out: what its peer seals from now on it can open, or a packet that
\* brings it the key in between is still under way (maybe_key_update, open).  One thing
\* locks it out, for good: an update starts after KEY_UPDATE_PACKETS packets whether or
\* not one was acknowledged, so all of a generation's packets may have been lost.
NobodyLockedOut ==
  \A e \in QkEnds :
    LET ahead == qkend[QkPeer(e)].send - qkend[e].recv IN
    /\ ahead >= 0
    /\ ahead > 1 => (\E p \in qknet : p.to = e /\ p.key = qkend[e].recv + 1) \/ qkend[e].missed >= QkThreshold

\* A packet of the current or the next generation, less than half a window from the
\* number expected, is opened: its number is recovered (decode_pn, open).
GoodPacketsOpen ==
  \A p \in qknet :
    LET d == p.pn - QkExpected(p.to) IN
    (d > -Half /\ d <= Half /\ p.key - qkend[p.to].recv \in {0, 1}) => OpensPacket(p.to, p)

\* Packet protection over reordering, loss and key updates of both ends.
PacketsOpen == NobodyLockedOut /\ GoodPacketsOpen
=============================================================================
