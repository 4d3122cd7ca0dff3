----------------------------- MODULE QuicStream -----------------------------
(***************************************************************************)
(* STREAM and CRYPTO data between two QuicTransports: the credit a sender  *)
(* spends, the limits a receiver checks and raises, and the reassembly of  *)
(* segments that arrive in any order, twice, or cut differently.  Packets  *)
(* are not lost here, that is QuicLoss: a frame that left is delivered     *)
(* sooner or later, but any send may find the congestion window full.      *)
(* Offsets count in units; the bytes of a stream are their offsets.        *)
(***************************************************************************)
EXTENDS Integers, FiniteSets, FiniteSetsExt

CONSTANTS QsStreams,    \* request streams of the peer, numbered from 1
          QsLens,       \* what a stream may hold
          QsChunk,      \* the 1000 bytes of send_request_chunks(), flush_queued_streams()
          QsWindow,     \* max_body + max_header_list: initial_max_stream_data_bidi_*, and insert()'s max
          QsUni,        \* initial_max_stream_data_uni
          QsConn,       \* initial_max_data
          QsCount,      \* initial_max_streams_*
          QsMaxChunks,  \* MAX_STREAM_CHUNKS
          QsCrypto,     \* length of the CRYPTO flight
          QsFlight,     \* bound: frames under way
          QsResends     \* bound: segments a peer sends again, cut as it likes

ASSUME QsAssumption ==
  /\ QsStreams \subseteq Nat \ {0} /\ QsLens \subseteq Nat \ {0}
  /\ {QsChunk, QsWindow, QsUni, QsConn, QsCount, QsMaxChunks, QsCrypto} \subseteq Nat \ {0}

VARIABLES qsnd,    \* the sender: offsets, what it charged, the limits it knows
          qflight, \* STREAM and CRYPTO frames under way
          qcredit, \* MAX_* frames under way
          qrcv,    \* the receiver: what it counted, the limits it announced
          qbuf,    \* the reassembly of each stream, and of "crypto"
          qhist    \* history: resends made, bytes that arrived

qsvars == <<qsnd, qflight, qcredit, qrcv, qbuf, qhist>>

\* The CRYPTO stream is filled before the others are opened, and the QPACK encoder's
\* stream is looked at alone: `who' says what moves.
CryptoFlow == 0
Instructions == -1
Streams == QsStreams \cup {Instructions}
Flows == Streams \cup {CryptoFlow}
Length(s) == IF s = CryptoFlow THEN QsCrypto ELSE qsnd.len
Window(s) == IF s = Instructions THEN QsUni ELSE QsWindow

QsInit ==
  /\ \E who \in {"client", "server", "handshake", "encoder"}, len \in QsLens :
       qsnd = [who |-> who, len |-> len, off |-> [s \in Flows |-> 0], charged |-> [s \in Streams |-> 0],
               data |-> 0, limit |-> [s \in Streams |-> Window(s)], max |-> QsConn, count |-> QsCount]
  /\ qflight = {} /\ qcredit = {}
  /\ qrcv = [got |-> [s \in Streams |-> 0], data |-> 0, adv |-> [s \in Streams |-> 0],
             max |-> QsConn, seen |-> 0, count |-> QsCount, err |-> "none"]
  /\ qbuf = [s \in Flows |-> [next |-> 0, chunks |-> {}, final |-> -1]]
  /\ qhist = [resends |-> 0, arrived |-> [s \in Flows |-> {}]]

Frame(s, a, b) == [s |-> s, a |-> a, b |-> b, fin |-> s # Instructions /\ b = Length(s)]

(***************************************************************************)
(* Sending.  send_stream_chunk() charges the credit before the packet is   *)
(* tried, and a packet that finds the congestion window full leaves the    *)
(* charge in place.  A client tries every stream (send_request_chunks), a  *)
(* server only the first of its queue (flush_queued_streams).              *)
(***************************************************************************)
Turn(s) ==
  /\ s <= qsnd.count /\ qsnd.who \in {"client", "server"}
  /\ qsnd.who = "server" => \A r \in QsStreams : r < s => qsnd.off[r] = qsnd.len

\* Faulty variant: the connection's credit is not checked.
CreditForStreamOnly(s, end) == end <= qsnd.limit[s]

CreditFor(s, end) ==
  /\ end <= qsnd.limit[s]
  /\ qsnd.data + Max({end - qsnd.charged[s], 0}) <= qsnd.max

Charge(s, end) == [qsnd EXCEPT !.charged[s] = Max({@, end}), !.data = @ + Max({end - qsnd.charged[s], 0})]

\* send_stream_chunk() of [start, end), after which `off' units of the data are through.
SendChunk(s, start, end, off) ==
  /\ CreditFor(s, end)
  /\ \/ /\ qsnd' = Charge(s, end) /\ qsnd' # qsnd
        /\ UNCHANGED qflight
     \/ /\ qsnd' = [Charge(s, end) EXCEPT !.off[s] = off]
        /\ qflight' = qflight \cup {Frame(s, start, end)}
  /\ UNCHANGED <<qcredit, qrcv, qbuf, qhist>>

SendStreamChunk(s) ==
  /\ Turn(s) /\ qsnd.off[s] < qsnd.len /\ Cardinality(qflight) < QsFlight
  /\ LET end == Min({qsnd.off[s] + QsChunk, qsnd.len}) IN SendChunk(s, qsnd.off[s], end, end)

\* send_stream_append() of what flush_qpack() took of the encoder's output, and puts
\* back when it would block.  The offset is where the charge ends.
SendStreamAppend ==
  /\ qsnd.who = "encoder" /\ Cardinality(qflight) < QsFlight
  /\ \E start \in {qsnd.charged[Instructions]}, off \in {qsnd.off[Instructions]} : \E n \in {Min({QsChunk, qsnd.len - off})} :
       n > 0 /\ SendChunk(Instructions, start, start + n, off + n)

\* send_crypto() knows no credit.
SendCrypto ==
  /\ qsnd.who = "handshake" /\ qsnd.off[0] < QsCrypto /\ Cardinality(qflight) < QsFlight
  /\ LET end == Min({qsnd.off[0] + QsChunk, QsCrypto}) IN
       /\ qflight' = qflight \cup {Frame(0, qsnd.off[0], end)}
       /\ qsnd' = [qsnd EXCEPT !.off[0] = end]
  /\ UNCHANGED <<qcredit, qrcv, qbuf, qhist>>

\* A peer sends a part of what it sent before, cut differently.
Resegment(s) ==
  /\ qhist.resends < QsResends /\ Cardinality(qflight) < QsFlight
  /\ s # Instructions
  /\ \E a \in 0 .. qsnd.off[s] - 1 : \E b \in a + 1 .. qsnd.off[s] :
       qflight' = qflight \cup {Frame(s, a, b)}
  /\ qhist' = [qhist EXCEPT !.resends = @ + 1]
  /\ UNCHANGED <<qsnd, qcredit, qrcv, qbuf>>

(***************************************************************************)
(* Receiving.                                                              *)
(***************************************************************************)
Advertised(s) == IF qrcv.adv[s] = 0 THEN Window(s) ELSE qrcv.adv[s]

\* accept_stream_data()
AcceptError(f) ==
  \/ f.s > qrcv.count
  \/ f.b > Advertised(f.s)
  \/ qrcv.data + Max({f.b - qrcv.got[f.s], 0}) > qrcv.max

Accepted(f) ==
  [qrcv EXCEPT !.seen = Max({@, f.s}), !.got[f.s] = Max({@, f.b}),
               !.data = @ + Max({f.b - qrcv.got[f.s], 0})]

\* take_ready(): chunks are delivered while one starts at `next'.
Ready(next, chunks) ==
  LET run == {c \in chunks : \A x \in next .. c[1] - 1 : \E d \in chunks : d[1] <= x /\ x < d[2]}
  IN [next |-> Max({next} \cup {c[2] : c \in run}), chunks |-> chunks \ run]

\* A segment and the buffered chunks it overlaps become one chunk.
Merged(chunks, a, b) ==
  LET affected == {c \in chunks : c[1] < b /\ c[2] > a} IN
  (chunks \ affected) \cup {<<Min({a} \cup {c[1] : c \in affected}), Max({b} \cup {c[2] : c \in affected})>>}

Overlaps(chunks, a, b) == \E c \in chunks : c[1] < b /\ c[2] > a

\* StreamReassembly::insert()
InsertSegment(u, f) ==
  LET final == IF f.fin THEN f.b ELSE u.final
      a == Max({f.a, u.next})
      r == Ready(u.next, IF f.b <= u.next THEN u.chunks ELSE Merged(u.chunks, a, f.b))
  IN [next |-> r.next, chunks |-> r.chunks, final |-> final]

\* The first check of insert(): the whole stream stays below the limit it began with.
Outgrown(f) == f.b > QsWindow

InsertError(u, f) ==
  \/ f.fin /\ u.final \notin {-1, f.b}
  \/ ~f.fin /\ u.final # -1 /\ f.b > u.final
  \/ f.b > u.next /\ ~Overlaps(u.chunks, Max({f.a, u.next}), f.b) /\ Cardinality(u.chunks) >= QsMaxChunks

\* CryptoReassembly::insert() asks first for a chunk at the same offset, and takes
\* it for a conflict when it is not the very same segment.
InsertCryptoError(u, f) ==
  /\ f.b > u.next
  /\ LET a == Max({f.a, u.next}) IN
       \/ \E c \in u.chunks : c[1] = a /\ c[2] # f.b
       \/ ~Overlaps(u.chunks, a, f.b) /\ Cardinality(u.chunks) >= QsMaxChunks

\* open(), on_datagram(): an error ends the connection.
ReceiveFrame(f) ==
  /\ qrcv.err = "none"
  /\ qflight' = qflight \ {f}
  /\ LET u == qbuf[f.s]
         err == IF f.s = CryptoFlow THEN IF InsertCryptoError(u, f) THEN "crypto" ELSE "none"
                ELSE IF AcceptError(f) THEN "credit"
                ELSE IF Outgrown(f) THEN "outgrown"
                ELSE IF InsertError(u, f) THEN "segment" ELSE "none"
     IN IF err # "none"
        THEN qrcv' = [qrcv EXCEPT !.err = err] /\ UNCHANGED <<qbuf, qhist>>
        ELSE /\ qrcv' = IF f.s = CryptoFlow THEN qrcv ELSE Accepted(f)
             /\ qbuf' = [qbuf EXCEPT ![f.s] = InsertSegment(u, f)]
             /\ qhist' = [qhist EXCEPT !.arrived[f.s] = @ \cup f.a .. f.b - 1]
  /\ UNCHANGED <<qsnd, qcredit>>

(***************************************************************************)
(* Credit.  on_tick() raises a limit when half of it is used, then sends   *)
(* the frame, once: one that meets a full congestion window is lost, the   *)
(* limit stays raised.                                                     *)
(***************************************************************************)
WindowDue(s) ==
  /\ qrcv.got[s] > 0
  /\ Max({Window(s) - qrcv.got[s], 0}) <= Window(s) \div 2 /\ qrcv.got[s] + Window(s) > qrcv.adv[s]

ConnDue == qrcv.max - qrcv.data <= qrcv.max \div 2 /\ qrcv.data > 0

CountDue == qrcv.count - qrcv.seen <= qrcv.count \div 2 /\ qrcv.seen > 0

Replenish ==
  /\ qrcv.err = "none" /\ qcredit = {}     \* bound: one round of credit under way
  /\ LET due == {s \in Streams : WindowDue(s)}
         frames == {[kind |-> "stream", s |-> s, max |-> qrcv.got[s] + Window(s)] : s \in due}
                   \cup (IF ConnDue THEN {[kind |-> "data", s |-> 0, max |-> qrcv.data + qrcv.max]} ELSE {})
                   \cup (IF CountDue THEN {[kind |-> "count", s |-> 0, max |-> qrcv.seen + qrcv.count]} ELSE {})
     IN /\ frames # {}
        /\ qrcv' = [qrcv EXCEPT !.adv = [s \in Streams |-> IF s \in due THEN qrcv.got[s] + Window(s) ELSE @[s]],
                                !.max = IF ConnDue THEN qrcv.data + @ ELSE @,
                                !.count = IF CountDue THEN qrcv.seen + @ ELSE @]
        /\ qcredit' \in SUBSET frames
  /\ UNCHANGED <<qsnd, qflight, qbuf, qhist>>

ReceiveCredit(c) ==
  /\ qcredit' = qcredit \ {c}
  /\ qsnd' = CASE c.kind = "data" -> [qsnd EXCEPT !.max = Max({@, c.max})]
               [] c.kind = "count" -> [qsnd EXCEPT !.count = Max({@, c.max})]
               [] c.kind = "stream" -> [qsnd EXCEPT !.limit[c.s] = Max({@, c.max})]
  /\ UNCHANGED <<qflight, qrcv, qbuf, qhist>>

Sends == SendCrypto \/ SendStreamAppend \/ \E s \in QsStreams : SendStreamChunk(s)
ReceiveFrames == \E f \in qflight : ReceiveFrame(f)
Credits == \E c \in qcredit : ReceiveCredit(c)
QsNext == Sends \/ (\E s \in Flows : Resegment(s)) \/ ReceiveFrames \/ Replenish \/ Credits

(***************************************************************************)
(* Properties.                                                             *)
(***************************************************************************)
\* A peer that keeps to the credit it was given and repeats the bytes it sent, cut
\* as it likes, meets no error of the credit or of the segments: the limits announced
\* reach the receiver's own tables before the peer can use them (accept_stream_data,
\* replenish_*), and StreamReassembly takes every segmentation.  What it may not do, and
\* is not told, is to send more than the initial limit of a request stream over the whole
\* of a stream: there insert() ends the connection, whatever MAX_STREAM_DATA announced.
ConformingAccepted ==
  /\ qrcv.err \notin {"credit", "segment"}
  /\ qrcv.err = "outgrown" => \E s \in Streams : qsnd.charged[s] > QsWindow

\* What arrived is delivered up to the first hole and buffered beyond it, in chunks
\* that do not overlap; a stream is finished only when all of it is delivered.
DeliveredExactly ==
  \A s \in Flows :
    LET u == qbuf[s] IN
    /\ 0 .. u.next - 1 \cup UNION {c[1] .. c[2] - 1 : c \in u.chunks} = qhist.arrived[s]
    /\ \A c \in u.chunks : c[1] > u.next /\ \A d \in u.chunks : c # d => c[2] <= d[1] \/ d[2] <= c[1]
    /\ (s \in QsStreams /\ u.final = u.next) => u.next = qsnd.len

\* The next chunk waits for a limit that the receiver has raised, whose frame was lost.
Deprived(s) ==
  LET end == Min({qsnd.off[s] + QsChunk, qsnd.len}) IN
  /\ qsnd.off[s] < qsnd.len
  /\ \/ s > qsnd.count /\ qsnd.count < qrcv.count
     \/ end > qsnd.limit[s] /\ qsnd.limit[s] < Advertised(s)
     \/ ~CreditFor(s, end) /\ qsnd.max < qrcv.max

\* An append was charged and not sent: the next one starts behind the hole.
Torn == qsnd.charged[Instructions] > qsnd.off[Instructions]

Moving == CASE qsnd.who = "handshake" -> {CryptoFlow} [] qsnd.who = "encoder" -> {Instructions} [] OTHER -> QsStreams

\* Every stream is delivered whole: the credit spent is given back, also when a chunk
\* was charged and found the congestion window full.  It is not when the frame that
\* gives it back met a full window itself, when the encoder's instructions did, or
\* when the connection has ended: on a stream that outgrew its limit, or on a CRYPTO
\* segment cut differently.
UploadEnded ==
  \/ qrcv.err \in {"outgrown", "crypto"}
  \/ Torn \/ \E s \in Moving \ {CryptoFlow} : Deprived(s)
  \/ \A s \in Moving : qbuf[s].next = Length(s)

\* Flow control and reassembly of a stream: a conforming peer is taken at its word and
\* its bytes are delivered once and in order.
StreamExact == ConformingAccepted /\ DeliveredExactly
=============================================================================
