------------------------------ MODULE QuicLoss ------------------------------
(***************************************************************************)
(* Loss recovery of the QUIC transport: one stream of snd.len chunks sent  *)
(* by one QuicTransport to another, packet numbers, ACK ranges, loss       *)
(* detection, retransmission with probes, and the congestion window, which *)
(* counts packets here.  A STREAM frame carries one chunk and a packet one *)
(* frame; the ACKs travel back in packets of their own.  Time is the age   *)
(* of a packet in the `sent' map: 1 the reordering window has passed, 2    *)
(* the probe timeout, 3 the loss threshold.                                *)
(***************************************************************************)
EXTENDS Integers, Sequences, FiniteSets, SequencesExt, FiniteSetsExt

CONSTANTS QlRuns,          \* [chunks, loss, late]: chunks of the stream (queue_stream_wire), packets
                           \* and ACKs the network may lose, timers that may run out although an
                           \* answer is under way
          MaxRetransmits,  \* MAX_RETRANSMITS
          PacketThreshold, \* PACKET_THRESHOLD
          InitWindow, MinWindow,   \* congestion window in packets
          MaxGap           \* packet numbers a blocked sender may waste in a row

VARIABLES snd,    \* the sending QuicTransport
          net,    \* data packets under way
          rcv,    \* the receiving QuicTransport: numbers received, chunks held
          acks,   \* ACK packets under way
          faults  \* losses and late timers still to come

qlvars == <<snd, net, rcv, acks, faults>>

QlInit ==
  /\ \E r \in QlRuns :
       /\ faults = [loss |-> r.loss, late |-> r.late]
       /\ snd = [len |-> r.chunks, next |-> 0, gap |-> 0, sent |-> <<>>, off |-> 1, cwnd |-> InitWindow,
                 ssthresh |-> r.chunks + InitWindow, largest |-> -1, failed |-> FALSE]
  /\ net = <<>> /\ acks = <<>>
  /\ rcv = [nums |-> {}, have |-> {}, pending |-> FALSE]

InFlight(s) == Cardinality({n \in DOMAIN s.sent : ~s.sent[n].pending})

\* on_loss(): the window is halved and slow start ends.
OnLoss(s) ==
  LET w == Max({s.cwnd \div 2, MinWindow}) IN [s EXCEPT !.cwnd = w, !.ssthresh = w]

\* The members of a set of packet numbers, ascending.
Ascending(N) == SelectSeq([i \in 1 .. 1 + Max(N \cup {0}) |-> i - 1], LAMBDA n : n \in N)

Without(s, N) == [s EXCEPT !.sent = [n \in DOMAIN s.sent \ N |-> s.sent[n]]]

(***************************************************************************)
(* Sending.  send_frames() has room for WindowRoom(s) more packets.  A call that *)
(* finds none spends a packet number all the same and returns WouldBlock;  *)
(* MaxGap bounds how many are spent in a row.                              *)
(***************************************************************************)
WindowRoom(s) == Max({s.cwnd - InFlight(s), 0})

Fresh(chunk, retx) == [chunk |-> chunk, age |-> 0, retx |-> retx, pending |-> FALSE]

\* The packets of `list' go out under the next numbers.
SendFrames(s, list) ==
  [s EXCEPT !.next = @ + Len(list), !.gap = IF list = <<>> THEN @ ELSE 0,
            !.sent = [n \in s.next .. s.next + Len(list) - 1 |-> list[n - s.next + 1]] @@ @]

Written(s, list) == [i \in 1 .. Len(list) |-> [pn |-> s.next + i - 1, chunk |-> list[i].chunk]]

SendBlocked(s, calls) ==
  LET k == Min({calls, MaxGap - s.gap}) IN [s EXCEPT !.next = @ + k, !.gap = @ + k]

\* What the resend list holds beyond the window is kept under its old number.
Kept(s, left) == [s EXCEPT !.sent = [n \in DOMAIN left |-> [left[n] EXCEPT !.age = 0, !.pending = TRUE]] @@ @]

\* Faulty variant: a stream that meets a full window is given up.
FlushGivesUp(s) ==
  LET k == Min({WindowRoom(s), s.len - s.off + 1})
      list == [i \in 1 .. k |-> Fresh(s.off + i - 1, 0)]
  IN [s |-> [SendBlocked(SendFrames(s, list), IF s.off + k > s.len THEN 0 ELSE 1) EXCEPT !.off = s.len + 1],
      out |-> Written(s, list)]

\* flush_queued_streams(): chunk after chunk until the window has no room.
Flush(s) ==
  LET k == Min({WindowRoom(s), s.len - s.off + 1})
      list == [i \in 1 .. k |-> Fresh(s.off + i - 1, 0)]
  IN [s |-> [SendBlocked(SendFrames(s, list), IF s.off + k > s.len THEN 0 ELSE 1) EXCEPT !.off = s.off + k],
      out |-> Written(s, list)]

\* The packets retransmit() takes out of `sent': pending ones, those past the
\* loss threshold, or else the oldest one as a probe.
Overdue(s) == {n \in DOMAIN s.sent : s.sent[n].pending \/ s.sent[n].age = 3}

Probe(s) ==
  LET N == DOMAIN s.sent IN
  IF Overdue(s) # {} \/ N = {} THEN {}
  ELSE {n \in {Min(N)} : s.sent[n].age >= 2 /\ s.sent[n].retx < MaxRetransmits}

\* What retransmit() takes out of `sent', counted as a retransmission if lost.
Retransmitted(s, lost) ==
  [n \in Overdue(s) \cup Probe(s) |-> IF n \in lost THEN [s.sent[n] EXCEPT !.retx = @ + 1] ELSE s.sent[n]]

\* retransmit() and flush_queued_streams(), the last parts of on_tick().  The sets
\* of one element are the local variables of the two.
Tick ==
  /\ ~snd.failed
  /\ \E lost \in {{n \in Overdue(snd) : ~snd.sent[n].pending}} :
     \E pkt \in {Retransmitted(snd, lost)} :
     \E base \in {IF lost # {} THEN OnLoss(Without(snd, DOMAIN pkt)) ELSE Without(snd, DOMAIN pkt)} :
     \E order \in {Ascending(DOMAIN pkt)}, room \in {WindowRoom(base)} :
     \E list \in {[i \in 1 .. Min({room, Len(order)}) |-> Fresh(pkt[order[i]].chunk, pkt[order[i]].retx)]} :
     \E left \in {[n \in {order[i] : i \in Len(list) + 1 .. Len(order)} |-> pkt[n]]} :
     \E mid \in {Kept(SendBlocked(SendFrames(base, list), Len(order) - Len(list)), left)} :
     \E f \in {Flush(mid)} :
       IF \E n \in lost : snd.sent[n].retx >= MaxRetransmits
       THEN snd' = [snd EXCEPT !.failed = TRUE] /\ UNCHANGED net
       ELSE snd' = f.s /\ net' = net \o Written(base, list) \o f.out
  /\ snd' # snd
  /\ UNCHANGED <<rcv, acks, faults>>

(***************************************************************************)
(* Acknowledging.  The ranges are the maximal intervals of the numbers     *)
(* received, the highest first; ack_ranges() gives each the gap BEFORE it. *)
(***************************************************************************)
Low(N, n) == Min({m \in N : m .. n \subseteq N})

AckRanges(N) ==
  LET tops == Reverse(Ascending({n \in N : n + 1 \notin N})) IN
  [i \in 1 .. Len(tops) |->
     <<IF i = 1 THEN 0 ELSE Low(N, tops[i - 1]) - tops[i] - 2, tops[i] - Low(N, tops[i])>>]

\* acknowledge(): the numbers a list of ranges acknowledges.  The gap that leads
\* from one range to the next is taken from the first of the two.
Acknowledged(largest, ranges) ==
  LET high[i \in 1 .. Len(ranges)] ==
        IF i = 1 THEN largest
        ELSE high[i - 1] - ranges[i - 1][2] - ranges[i - 1][1] - 2
  IN UNION {high[i] - ranges[i][2] .. high[i] : i \in {j \in DOMAIN high : \A k \in 1 .. j : high[k] >= 0}}

\* open() of the receiver: a number seen before only asks for another ACK.
ReceivePacket(i) ==
  LET p == net[i] IN
  /\ net' = RemoveAt(net, i)
  /\ rcv' = [nums |-> rcv.nums \cup {p.pn}, pending |-> TRUE,
             have |-> IF p.pn \in rcv.nums THEN rcv.have ELSE rcv.have \cup {p.chunk}]
  /\ UNCHANGED <<snd, acks, faults>>

\* flush_ack()
FlushAck ==
  /\ rcv.pending
  /\ acks' = Append(acks, [largest |-> Max(rcv.nums), ranges |-> AckRanges(rcv.nums)])
  /\ rcv' = [rcv EXCEPT !.pending = FALSE]
  /\ UNCHANGED <<snd, net, faults>>

\* detect_lost_packets(): what is declared lost leaves `sent'.
Lost(s) ==
  {n \in DOMAIN s.sent : /\ ~s.sent[n].pending
                         /\ \/ s.sent[n].age = 3
                            \/ s.largest - n >= PacketThreshold /\ s.sent[n].age >= 1}

OnAcknowledgement(s, bytes) ==
  LET s1 == [s EXCEPT !.cwnd = IF @ < s.ssthresh THEN Min({@ + bytes, s.len + InitWindow}) ELSE @]
      lost == Lost(s1)
  IN IF lost = {} THEN s1 ELSE OnLoss(Without(s1, lost))

\* open() of the sender, an ACK frame.
ReceiveAck ==
  /\ acks # <<>> /\ ~snd.failed
  /\ \E a \in {Head(acks)} :
     \E N \in {Acknowledged(a.largest, a.ranges) \cap DOMAIN snd.sent} :
     \E bytes \in {Cardinality({n \in N : ~snd.sent[n].pending})},
        s1 \in {[Without(snd, N) EXCEPT !.largest = Max({@, a.largest})]} :
        IF a.largest >= snd.next THEN snd' = [snd EXCEPT !.failed = TRUE]
        ELSE snd' = IF bytes = 0 THEN s1 ELSE OnAcknowledgement(s1, bytes)
  /\ acks' = Tail(acks)
  /\ UNCHANGED <<net, rcv, faults>>

(***************************************************************************)
(* The network and the clock.  An answer under way to packet n means that  *)
(* a timer of n that runs out is early: at most faults.late of them do.    *)
(***************************************************************************)
Lose ==
  /\ faults.loss > 0
  /\ \/ \E i \in DOMAIN net : net' = RemoveAt(net, i) /\ UNCHANGED acks
     \/ \E i \in DOMAIN acks : acks' = RemoveAt(acks, i) /\ UNCHANGED net
  /\ faults' = [faults EXCEPT !.loss = @ - 1]
  /\ UNCHANGED <<snd, rcv>>

AnswerUnderWay(n) ==
  \/ \E i \in DOMAIN net : net[i].pn = n
  \/ n \in rcv.nums /\ (rcv.pending \/ acks # <<>>)

Age(n) ==
  /\ ~snd.failed /\ ~snd.sent[n].pending /\ snd.sent[n].age < 3
  /\ \A m \in DOMAIN snd.sent : m < n => snd.sent[m].pending \/ snd.sent[m].age > snd.sent[n].age
  /\ AnswerUnderWay(n) => faults.late > 0
  /\ faults' = IF AnswerUnderWay(n) THEN [faults EXCEPT !.late = @ - 1] ELSE faults
  /\ snd' = [snd EXCEPT !.sent[n].age = @ + 1]
  /\ UNCHANGED <<net, rcv, acks>>

Ages == \E n \in DOMAIN snd.sent : Age(n)
ReceivePackets == \E i \in DOMAIN net : ReceivePacket(i)

QlNext == Tick \/ ReceivePackets \/ FlushAck \/ ReceiveAck \/ Lose \/ Ages

\* A stream handed to queue_stream_wire() is delivered, or the connection reports
\* an error: the transfer never just stops (retransmit, open, detect_lost_packets).
TransferEnded == rcv.have = 1 .. snd.len \/ snd.failed

=============================================================================
