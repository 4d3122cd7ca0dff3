------------------------------ MODULE TlsRecord ------------------------------
(* courierust_tls: TlsStream after its handshake, both ends.  Records carry a   *)
(* key generation and a sequence number; they travel as a header and a payload *)
(* of two pieces each, so that a read may be interrupted anywhere and resumed  *)
(* from RecState; KeyUpdates change the keys of one direction at a time.       *)
EXTENDS Integers, Sequences, FiniteSets

CONSTANTS
    TrWrites,       \* bound: calls of write_all, per end
    TrBurst,        \* bound: records of one write_all, per end
    TrAsks,         \* bound: calls of request_key_update, per end
    TrLimit         \* key_use_limit

VARIABLES
    trVer,          \* 12 or 13
    trW,            \* per end, its writing half
    trR,            \* per end, its reading half
    trWire,         \* per end, pieces on the way to it
    trCut           \* the transport is gone
trvars == <<trVer, trW, trR, trWire, trCut>>

Ends == {"client", "server"}
Peer(e) == IF e = "client" THEN "server" ELSE "client"

(* ------------------------------ sending records --------------------------- *)
NoRecord == [gen |-> 0, seq |-> 0, kind |-> "none", n |-> 0, asks |-> 0]
Piece(r, i) == [r |-> r, i |-> i]
Pieces(r) == <<Piece(r, 1), Piece(r, 2), Piece(r, 3), Piece(r, 4)>>

\* Sequence::next and seal_record: one record under the current keys.  It notes how many
\* data records and requests for an update have been sent with it.
Fresh(w) == w.gen > w.last[1] \/ (w.gen = w.last[1] /\ w.seq > w.last[2])
Seal(w, kind, n) ==
    LET r == [gen |-> w.gen, seq |-> w.seq, kind |-> kind, n |-> n, asks |-> w.asks]
    IN [w EXCEPT !.seq = @ + 1, !.out = @ \o Pieces(r),
                 !.twice = IF Fresh(w) THEN @ ELSE TRUE,
                 !.last = <<w.gen, w.seq>>]

\* send_key_update: the message leaves under the old keys.
KeyUpdate(w, request) ==
    LET s == Seal(w, IF request THEN "ku1" ELSE "ku0", w.sent)
    IN [s EXCEPT !.gen = @ + 1, !.seq = 0, !.records = 0, !.updates = @ + 1]

\* What write_all owes before its data.
Owed(w) ==
    IF trVer = 13 /\ w.pending THEN KeyUpdate([w EXCEPT !.pending = FALSE], FALSE)
    ELSE IF trVer = 13 /\ w.records >= TrLimit
    THEN KeyUpdate([w EXCEPT !.budget = @ + 1], FALSE) ELSE w

Data(w) == [Seal(w, "data", w.sent + 1) EXCEPT !.sent = @ + 1, !.records = @ + 1]

Flush(e, w) ==
    /\ trW' = [trW EXCEPT ![e] = [w EXCEPT !.out = <<>>]]
    /\ trWire' = [trWire EXCEPT ![Peer(e)] = IF trCut THEN @ ELSE @ \o w.out]

WriteAll(e) ==
    /\ trW[e].writes < TrWrites[e] /\ ~trR[e].closed
    /\ \E k \in 1..TrBurst[e] :
        LET w == Owed([trW[e] EXCEPT !.writes = @ + 1])
        IN Flush(e, IF k = 1 THEN Data(w) ELSE Data(Data(w)))
    /\ UNCHANGED <<trVer, trR, trCut>>

RequestKeyUpdate(e) ==
    /\ trVer = 13 /\ ~trR[e].closed /\ trW[e].asks < TrAsks[e]
    /\ Flush(e, KeyUpdate([trW[e] EXCEPT !.asks = @ + 1], TRUE))
    /\ UNCHANGED <<trVer, trR, trCut>>

CloseNotify(e) ==
    /\ ~trR[e].closed
    /\ Flush(e, Seal(trW[e], "close", trW[e].sent))
    /\ trR' = [trR EXCEPT ![e].closed = TRUE]
    /\ UNCHANGED <<trVer, trCut>>

(* ------------------------------ reading records --------------------------- *)
\* fill_buf: any number of pieces, as far as the socket holds them.
Consume(e, n) == trWire' = [trWire EXCEPT ![e] = SubSeq(@, n + 1, Len(@))]
RecTakes(e) == 1..(IF Len(trWire[e]) < 2 - Len(trR[e].got) THEN Len(trWire[e])
                ELSE 2 - Len(trR[e].got))

\* read_record_header: keeps what it has when the socket would block.
SaveHeader(rd, got) == [rd EXCEPT !.rec = "header", !.got = got]
Framed(got) == got[1].i = 1 /\ got[2].i = 2 /\ got[1].r = got[2].r
RecReadHeader(e) ==
    /\ ~trR[e].closed /\ trR[e].rec \in {"idle", "header"}
    /\ \E n \in RecTakes(e) :
        LET rd == trR[e]
            got == rd.got \o SubSeq(trWire[e], 1, n)
        IN /\ Consume(e, n)
           /\ trR' = [trR EXCEPT ![e] =
                IF Len(got) < 2 THEN SaveHeader(rd, got)
                ELSE [rd EXCEPT !.rec = "payload", !.got = <<>>, !.head = got[1].r,
                                !.bad = IF Framed(got) THEN @ ELSE TRUE]]
    /\ UNCHANGED <<trVer, trW, trCut>>

\* apply_key_update and the other things a record may hold.
Asked(w, kind) == [w EXCEPT !.pending = IF kind = "ku1" THEN TRUE ELSE @]
Opened(rd, r) ==
    LET ok == r.gen = rd.gen /\ r.seq = rd.seq
        o == [rd EXCEPT !.rec = "idle", !.got = <<>>, !.seq = @ + 1]
    IN  IF ~ok THEN [rd EXCEPT !.bad = TRUE]
        ELSE CASE r.kind = "data" -> [o EXCEPT !.data = @ + 1, !.bad = IF r.n = rd.data + 1 THEN @ ELSE TRUE]
               [] r.kind = "close" -> [o EXCEPT !.closed = TRUE, !.eof = "notify"]
               [] OTHER -> [o EXCEPT !.gen = @ + 1, !.seq = 0,
                                     !.asked = IF r.kind = "ku1" THEN @ + 1 ELSE @]

SavePayloadLost(rd, got) == [rd EXCEPT !.rec = "idle", !.got = <<>>]
SavePayload(rd, got) == [rd EXCEPT !.got = got]
RecReadPayload(e) ==
    /\ ~trR[e].closed /\ trR[e].rec = "payload"
    /\ \E n \in RecTakes(e) :
        LET rd == trR[e]
            got == rd.got \o SubSeq(trWire[e], 1, n)
            o == Opened(rd, rd.head)
        IN /\ Consume(e, n)
           /\ IF Len(got) < 2
             THEN trR' = [trR EXCEPT ![e] = SavePayload(rd, got)] /\ UNCHANGED trW
             ELSE /\ trR' = [trR EXCEPT ![e] = o]
                  /\ trW' = [trW EXCEPT ![e] = IF o.gen # rd.gen THEN Asked(@, rd.head.kind) ELSE @]
    /\ UNCHANGED <<trVer, trCut>>

\* The end of the stream: clean between records and inside a header.
ReadEof(e) ==
    /\ trCut /\ trWire[e] = <<>> /\ ~trR[e].closed
    /\ trR' = [trR EXCEPT ![e].closed = TRUE,
                          ![e].eof = IF trR[e].rec = "payload" THEN "error" ELSE "clean"]
    /\ UNCHANGED <<trVer, trW, trWire, trCut>>

(* ------------------------------- the transport ---------------------------- *)
\* The connection is lost: what has not arrived never does.
Cut ==
    /\ ~trCut /\ trCut' = TRUE
    /\ \E e \in Ends : \E k \in 0..Len(trWire[e]) :
        trWire' = [f \in Ends |-> IF f = e THEN SubSeq(trWire[e], 1, k) ELSE <<>>]
    /\ UNCHANGED <<trVer, trW, trR>>

TrInit ==
    /\ trVer \in {12, 13}
    /\ trW = [e \in Ends |-> [gen |-> 0, seq |-> 0, records |-> 0, pending |-> FALSE, out |-> <<>>,
                              sent |-> 0, writes |-> 0, asks |-> 0, updates |-> 0, budget |-> 0,
                              last |-> <<0, -1>>, twice |-> FALSE]]
    /\ trR = [e \in Ends |-> [gen |-> 0, seq |-> 0, rec |-> "idle", got |-> <<>>, head |-> NoRecord,
                              data |-> 0, asked |-> 0, closed |-> FALSE, eof |-> "", bad |-> FALSE]]
    /\ trWire = [e \in Ends |-> <<>>] /\ trCut = FALSE

TrNext ==
    \/ \E e \in Ends : WriteAll(e) \/ RequestKeyUpdate(e) \/ CloseNotify(e)
                       \/ RecReadHeader(e) \/ RecReadPayload(e) \/ ReadEof(e)
    \/ Cut

TrSpec == TrInit /\ [][TrNext]_trvars

(* ------------------------------- properties ------------------------------- *)
\* Wherever a read is interrupted and whichever end updates its keys when, every
\* record opens under the generation and number it was sealed with, data arrives
\* in the order written and whole up to a close_notify, and no key is used twice
\* with one sequence number.
RecordsOpen ==
    \A e \in Ends :
        /\ ~trR[e].bad /\ ~trW[e].twice
        /\ trR[e].eof = "notify" => trR[e].data = trW[Peer(e)].sent

\* Updates answer requests and budgets, never each other: two ends that update
\* at once fall silent again.
UpdatesBounded ==
    \A e \in Ends : trW[e].updates <= trW[e].asks + trW[e].budget + trW[Peer(e)].asks

\* The stream over its key updates: nothing is lost, repeated or sealed under a spent
\* number, and updates come to rest.
StreamKept == RecordsOpen /\ UpdatesBounded
=============================================================================
