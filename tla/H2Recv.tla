------------------------------- MODULE H2Recv -------------------------------
(***************************************************************************)
(* Receive credit of a courierust_h2::Connection ("BCR": credit is batched *)
(* before a WINDOW_UPDATE returns it) against the view of a peer that      *)
(* respects every window it was granted.                                   *)
(*                                                                         *)
(* `conn` is the receiving endpoint: the fields of Connection and Stream   *)
(* that account for received DATA, under their names.  `inbox` and         *)
(* `pending_frames` are the two directions of the transport, both FIFO;    *)
(* pending_frames includes what poll() already wrote.  Sizes are in units  *)
(* of bytes.  The streams are fewer than recently_closed remembers.        *)
(***************************************************************************)
EXTENDS Integers, Sequences, FiniteSets, FiniteSetsExt, FiniteSetTheorems, SequenceTheorems, TLAPS

CONSTANTS RxStreams,
          InitWindow,     \* local SETTINGS_INITIAL_WINDOW_SIZE
          ConnInit,       \* initial connection window, 65535
          RxMaxWindow,      \* MAX_FLOW_WINDOW
          MinThreshold,   \* least stream batch, 16 KiB
          ConnThreshold,  \* connection batch, 32 KiB
          DataSizes,      \* bytes of a DATA frame
          RxMaxFlight,      \* bound: frames on their way to the endpoint
          RxConfigs         \* the configurations to explore, see `config'

ASSUME RecvAssumption ==
    /\ IsFiniteSet(RxStreams) /\ "conn" \notin RxStreams
    /\ {InitWindow, ConnInit, RxMaxWindow, MinThreshold, ConnThreshold, RxMaxFlight} \subseteq Nat
    /\ InitWindow <= RxMaxWindow /\ ConnInit <= RxMaxWindow
    /\ MinThreshold > 0 /\ ConnThreshold > 0
    /\ 2 * MinThreshold <= InitWindow   \* both drivers raise the window to 256 KiB
    /\ DataSizes \subseteq Nat \ {0}
    /\ RxConfigs \subseteq [auto_release_credit : BOOLEAN, resets : BOOLEAN, max_streams : Nat]

VARIABLES rxconfig,   \* Config::auto_release_credit, whether the endpoint resets
                    \* streams, and how many the peer opens; never changes
          rxconn,     \* the endpoint
          rxclosed,   \* Connection::closed, after a flow-control error
          held,     \* bytes delivered to the application and not yet released
          inbox,    \* frames on their way to the endpoint
          rxpeer      \* the sender: credit it sees and the streams it sends on

rxvars == <<rxconfig, rxconn, rxclosed, held, inbox, rxpeer>>

WindowUpdate(s, n) == [type |-> "WINDOW_UPDATE", stream |-> s, len |-> n, end |-> FALSE]
Rst(s)             == [type |-> "RST_STREAM", stream |-> s, len |-> 0, end |-> TRUE]
Headers(s)         == [type |-> "HEADERS", stream |-> s, len |-> 0, end |-> FALSE]
Data(s, n, e)      == [type |-> "DATA", stream |-> s, len |-> n, end |-> e]

RxInit ==
    /\ rxconfig \in RxConfigs
    /\ rxconn = [state |-> [s \in RxStreams |-> "none"],
               recv_window |-> [s \in RxStreams |-> 0],
               recv_unreleased |-> [s \in RxStreams |-> 0],
               conn_recv_window |-> ConnInit,
               conn_pending_release |-> 0,
               pending_frames |-> <<>>]
    /\ rxclosed = FALSE
    /\ held = [s \in RxStreams |-> 0]
    /\ inbox = <<>>
    /\ rxpeer = [credit |-> ConnInit,
               window |-> [s \in RxStreams |-> InitWindow],
               sending |-> [s \in RxStreams |-> "idle"]]

-----------------------------------------------------------------------------
(* The endpoint's bookkeeping, as operators on `conn` *)

RxLive(c, s) == c.state[s] \in {"open", "half_closed_local", "half_closed_remote"}

RxQueue(c, f) == [c EXCEPT !.pending_frames = Append(@, f)]

StreamThreshold == Max({InitWindow \div 2, MinThreshold})

\* Faulty variant: the local window does not follow the one the peer was told.
StreamReleaseForgetsWindow(c, s) ==
    IF c.recv_unreleased[s] >= StreamThreshold
    THEN RxQueue([c EXCEPT !.recv_unreleased[s] = 0], WindowUpdate(s, c.recv_unreleased[s]))
    ELSE c

\* release_data(), the stream half.  A stream without a record owes nothing; one that
\* this frame ended still has its record.
StreamRelease(c, s) ==
    IF c.recv_unreleased[s] >= StreamThreshold
    THEN RxQueue([c EXCEPT !.recv_unreleased[s] = 0,
                         !.recv_window[s] = Min({@ + c.recv_unreleased[s], RxMaxWindow})],
               WindowUpdate(s, c.recv_unreleased[s]))
    ELSE c

\* release_data(), the connection half.
ConnRelease(c, n) ==
    LET batch == c.conn_pending_release + n
    IN  IF batch >= ConnThreshold
        THEN RxQueue([c EXCEPT !.conn_pending_release = 0,
                             !.conn_recv_window = Min({@ + batch, RxMaxWindow})],
                   WindowUpdate("conn", batch))
        ELSE [c EXCEPT !.conn_pending_release = batch]

ReleaseData(c, s, n) == ConnRelease(StreamRelease(c, s), n)

\* close_stream(): what the stream still owes goes to the connection window at
\* once and to the peer with the next batch.
RxCloseStream(c, s) ==
    LET batch == c.conn_pending_release + c.recv_unreleased[s]
        gone == [c EXCEPT !.state[s] = "closed",
                          !.recv_window[s] = 0,
                          !.recv_unreleased[s] = 0,
                          !.conn_recv_window = Min({@ + c.recv_unreleased[s], RxMaxWindow})]
    IN  IF batch >= ConnThreshold
        THEN RxQueue([gone EXCEPT !.conn_pending_release = 0], WindowUpdate("conn", batch))
        ELSE [gone EXCEPT !.conn_pending_release = batch]

\* stream_error() and send_rst().
ResetStream(c, s) == RxCloseStream(RxQueue(c, Rst(s)), s)

-----------------------------------------------------------------------------
(* The endpoint's steps *)

\* on_data(), the checks that do not charge the frame.  DATA for a stream that was
\* closed meanwhile is answered with RST_STREAM and not counted.
OnDataClosed(f) ==
    /\ rxconn.state[f.stream] = "closed"
    /\ rxconn' = RxQueue(rxconn, Rst(f.stream))
    /\ UNCHANGED <<rxclosed, held>>

Charge(c, f) ==
    [c EXCEPT !.recv_window[f.stream] = @ - f.len,
              !.recv_unreleased[f.stream] = @ + f.len,
              !.conn_recv_window = @ - f.len,
              !.state[f.stream] = IF ~f.end THEN @
                                  ELSE IF @ = "open" THEN "half_closed_remote"
                                  ELSE "closed"]

OnDataError(f) ==
    /\ RxLive(rxconn, f.stream)
    /\ rxconn.recv_window[f.stream] < f.len \/ rxconn.conn_recv_window < f.len
    /\ rxclosed' = TRUE
    /\ UNCHANGED <<rxconn, held>>

\* The whole of on_data() for a frame the windows admit.  `wrong` is the outcome
\* of verify_content_length().
OnDataAccept(f, wrong) ==
    LET s == f.stream
        charged == Charge(rxconn, f)
        released == IF rxconfig.auto_release_credit THEN ReleaseData(charged, s, f.len) ELSE charged
    IN  /\ RxLive(rxconn, s)
        /\ rxconn.recv_window[s] >= f.len /\ rxconn.conn_recv_window >= f.len
        /\ wrong => f.end /\ rxconfig.resets
        /\ rxconn' = IF wrong THEN ResetStream(charged, s)
                   ELSE IF released.state[s] = "closed" THEN RxCloseStream(released, s)
                   ELSE released
        /\ held' = IF wrong \/ rxconfig.auto_release_credit THEN held
                     ELSE [held EXCEPT ![s] = @ + f.len]
        /\ UNCHANGED rxclosed

\* HEADERS of a new stream, which body frames follow.
RxOnHeaders(f) ==
    /\ rxconn' = [rxconn EXCEPT !.state[f.stream] = "open", !.recv_window[f.stream] = InitWindow]
    /\ UNCHANGED <<rxclosed, held>>

OnRst(f) ==
    /\ rxconn' = IF RxLive(rxconn, f.stream) THEN RxCloseStream(rxconn, f.stream) ELSE rxconn
    /\ UNCHANGED <<rxclosed, held>>

Receive ==
    /\ ~rxclosed /\ inbox # <<>>
    /\ inbox' = Tail(inbox)
    /\ LET f == Head(inbox)
       IN  \/ f.type = "HEADERS" /\ RxOnHeaders(f)
           \/ f.type = "RST_STREAM" /\ OnRst(f)
           \/ /\ f.type = "DATA"
              /\ \/ OnDataClosed(f)
                 \/ OnDataError(f)
                 \/ \E wrong \in BOOLEAN : OnDataAccept(f, wrong)
    /\ UNCHANGED <<rxconfig, rxpeer>>

\* Our END_STREAM leaves, see H2Send.
EndStream(s) ==
    /\ ~rxclosed
    /\ \/ /\ rxconn.state[s] = "open"
          /\ rxconn' = [rxconn EXCEPT !.state[s] = "half_closed_local"]
       \/ /\ rxconn.state[s] = "half_closed_remote"
          /\ rxconn' = RxCloseStream(rxconn, s)
    /\ UNCHANGED <<rxconfig, rxclosed, held, inbox, rxpeer>>

RxReset(s) ==
    /\ ~rxclosed /\ rxconfig.resets /\ RxLive(rxconn, s)
    /\ rxconn' = ResetStream(rxconn, s)
    /\ UNCHANGED <<rxconfig, rxclosed, held, inbox, rxpeer>>

\* release_data() called by an application that consumed n bytes.
Release(s, n) ==
    /\ ~rxclosed /\ ~rxconfig.auto_release_credit /\ n <= held[s]
    /\ rxconn' = ReleaseData(rxconn, s, n)
    /\ held' = [held EXCEPT ![s] = @ - n]
    /\ UNCHANGED <<rxconfig, rxclosed, inbox, rxpeer>>

-----------------------------------------------------------------------------
(* The peer, a sender that stays within its credit *)

PeerOpen(s) ==
    /\ rxpeer.sending[s] = "idle" /\ Len(inbox) < RxMaxFlight
    /\ Cardinality({t \in RxStreams : rxpeer.sending[t] # "idle"}) < rxconfig.max_streams
    /\ inbox' = Append(inbox, Headers(s))
    /\ rxpeer' = [rxpeer EXCEPT !.sending[s] = "body"]
    /\ UNCHANGED <<rxconfig, rxconn, rxclosed, held>>

PeerData(s, n, e) ==
    /\ rxpeer.sending[s] = "body" /\ Len(inbox) < RxMaxFlight
    /\ n <= rxpeer.window[s] /\ n <= rxpeer.credit
    /\ n = 0 => e
    /\ inbox' = Append(inbox, Data(s, n, e))
    /\ rxpeer' = [rxpeer EXCEPT !.window[s] = @ - n, !.credit = @ - n,
                            !.sending[s] = IF e THEN "ended" ELSE @]
    /\ UNCHANGED <<rxconfig, rxconn, rxclosed, held>>

PeerRst(s) ==
    /\ rxpeer.sending[s] \in {"body", "ended"} /\ Len(inbox) < RxMaxFlight
    /\ inbox' = Append(inbox, Rst(s))
    /\ rxpeer' = [rxpeer EXCEPT !.sending[s] = "reset"]
    /\ UNCHANGED <<rxconfig, rxconn, rxclosed, held>>

PeerReceive ==
    /\ rxconn.pending_frames # <<>>
    /\ rxconn' = [rxconn EXCEPT !.pending_frames = Tail(@)]
    /\ LET f == Head(rxconn.pending_frames)
       IN  rxpeer' = IF f.type = "RST_STREAM" THEN [rxpeer EXCEPT !.sending[f.stream] = "reset"]
                   ELSE IF f.stream = "conn" THEN [rxpeer EXCEPT !.credit = @ + f.len]
                   ELSE [rxpeer EXCEPT !.window[f.stream] = @ + f.len]
    /\ UNCHANGED <<rxconfig, rxclosed, held, inbox>>

-----------------------------------------------------------------------------

RxNext ==
    \/ Receive \/ PeerReceive
    \/ \E s \in RxStreams :
          \/ EndStream(s) \/ RxReset(s) \/ PeerOpen(s) \/ PeerRst(s)
          \/ \E n \in 1..InitWindow : Release(s, n)
          \/ \E n \in DataSizes \cup {0}, e \in BOOLEAN : PeerData(s, n, e)

RxSpec == RxInit /\ [][RxNext]_rxvars

\* Both directions of the transport deliver: the driver keeps polling and the peer
\* keeps reading.  An application that releases by hand keeps consuming.
RxFairSpec ==
    /\ RxSpec
    /\ WF_rxvars(Receive) /\ WF_rxvars(PeerReceive)
    /\ \A s \in RxStreams : WF_rxvars(\E n \in 1..InitWindow : Release(s, n))

-----------------------------------------------------------------------------
(* Properties *)

\* The sum of a sequence of numbers.
Total(w) ==
    LET upto[i \in 0..Len(w)] == IF i = 0 THEN 0 ELSE upto[i - 1] + w[i]
    IN  upto[Len(w)]

\* The bytes that the frames of one type carry, for the streams S.
Carried(f, type, S) == IF f.type = type /\ f.stream \in S THEN f.len ELSE 0
Bytes(frames, type, S) == [i \in 1..Len(frames) |-> Carried(frames[i], type, S)]
Flying(frames, type, s) == Total(Bytes(frames, type, {s}))
FlyingData == Total(Bytes(inbox, "DATA", RxStreams))

\* The connection credit in the peer's hands or on its way to it, the bytes that
\* spend it, and the batch that will return it.
ConnCredit ==
    rxpeer.credit + FlyingData + Flying(rxconn.pending_frames, "WINDOW_UPDATE", "conn")
        + rxconn.conn_pending_release

RxTypeOK ==
    /\ rxconn.state \in [RxStreams -> {"none", "open", "half_closed_local",
                                   "half_closed_remote", "closed"}]
    /\ rxconn.recv_window \in [RxStreams -> 0..InitWindow]
    /\ rxconn.recv_unreleased \in [RxStreams -> 0..InitWindow]
    /\ rxconn.conn_recv_window \in 0..RxMaxWindow
    /\ rxconn.conn_pending_release \in 0..ConnThreshold - 1
    /\ rxclosed \in BOOLEAN /\ held \in [RxStreams -> Nat]
    /\ Len(inbox) <= RxMaxFlight
    /\ rxpeer.credit \in Nat /\ rxpeer.window \in [RxStreams -> Nat]
    /\ rxpeer.sending \in [RxStreams -> {"idle", "body", "ended", "reset"}]

\* Both ends agree on a stream's window: what on_data() will still accept is what
\* the peer may still send, plus what it has sent, plus what release_data() has
\* granted and is still on its way.
StreamCreditAgrees ==
    ~rxclosed => \A s \in RxStreams : RxLive(rxconn, s) =>
        rxconn.recv_window[s] = rxpeer.window[s] + Flying(inbox, "DATA", s)
                                + Flying(rxconn.pending_frames, "WINDOW_UPDATE", s)

\* README of courierust_h2: "the window never collapses to zero so the sender
\* never stalls on RTT": with the automatic release the window of a live stream
\* stays above half of its initial size.
HalfWindowKept ==
    rxconfig.auto_release_credit => \A s \in RxStreams :
        RxLive(rxconn, s) => 2 * rxconn.recv_window[s] >= InitWindow

\* No connection credit is lost as long as the endpoint resets nothing: every byte
\* that spent it comes back, whether release_data() or close_stream() returns it.
\* The bound is from below only, since close_stream() returns what a stream has not
\* announced a second time when release_data() already counted it, and with resets
\* DATA for a closed stream takes its credit away.
ConnCreditKept ==
    ~rxclosed /\ rxconfig.auto_release_credit /\ ~rxconfig.resets => ConnCredit >= ConnInit

\* The books of the receiving half: what both ends believe about every window.
CreditKept == RxTypeOK /\ StreamCreditAgrees /\ HalfWindowKept /\ ConnCreditKept

\* tests/h2_hardening.rs: FLOW_CONTROL_ERROR is for "DATA beyond the advertised
\* flow-control window"; this peer never sends any.
ConformingPeerAccepted == ~rxclosed

\* on_data() answers DATA for a closed stream without returning the credit it spent:
\* what is left in circulation no longer fills a batch.
CreditDrained == ConnCredit + MapThenSumSet(LAMBDA s : held[s], RxStreams) < ConnThreshold

\* A sender stopped by an exhausted window is let go again by release_data(), unless
\* resets have drained the connection window.
Blocked(s) == rxpeer.sending[s] = "body" /\ Min({rxpeer.window[s], rxpeer.credit}) = 0
Unblocked(s) ==
    \/ Min({rxpeer.window[s], rxpeer.credit}) > 0 \/ rxpeer.sending[s] # "body" \/ rxclosed
    \/ rxconfig.resets /\ rxpeer.credit = 0 /\ CreditDrained
-----------------------------------------------------------------------------
(***************************************************************************)
(* Sums of sequences                                                       *)
(***************************************************************************)
\* d[i] is the sum of the first i elements of w.
Sums(w, d) == d[0] = 0 /\ \A i \in 1..Len(w) : d[i] = d[i - 1] + w[i]

LEMMA LeastOf ==
    ASSUME NEW S \in SUBSET Nat, S # {}
    PROVE  \E x \in S : \A y \in S : x <= y
<1> DEFINE Below == {ss \in Nat \X Nat : ss[1] < ss[2]}
<1>1. IsWellFoundedOn(Below, Nat)
  BY NatLessThanWellFounded DEF OpToRel
<1>2. \A x, y \in Nat : <<y, x>> \notin Below => x <= y
  OBVIOUS
<1> HIDE DEF Below
<1>3. \E x \in S : \A y \in S : ~(<<y, x>> \in Below)
  BY <1>1, WFMin
<1> QED BY <1>2, <1>3

LEMMA SumsExist ==
    ASSUME NEW w \in Seq(Nat)
    PROVE  \E d \in [0..Len(w) -> Nat] : Sums(w, d)
<1> DEFINE To(k, d) == d[0] = 0 /\ \A i \in 1..k : d[i] = d[i - 1] + w[i]
           Bad == {k \in 0..Len(w) : ~\E d \in [0..k -> Nat] : To(k, d)}
<1>1. SUFFICES Bad = {}
  <2>1. Len(w) \in 0..Len(w) /\ Len(w) \notin Bad
    <3> HIDE DEF Bad
    <3> QED BY <1>1
  <2>2. PICK d \in [0..Len(w) -> Nat] : To(Len(w), d)
    BY <2>1
  <2> QED BY <2>2 DEF Sums
<1>2. SUFFICES ASSUME Bad # {} PROVE FALSE
  OBVIOUS
<1>3. PICK k \in Bad : \A j \in Bad : k <= j
  <2>1. Bad \in SUBSET Nat
    OBVIOUS
  <2> HIDE DEF Bad
  <2> QED BY <1>2, <2>1, LeastOf
<1>4. k # 0
  <2>1. [i \in 0..0 |-> 0] \in [0..0 -> Nat] /\ To(0, [i \in 0..0 |-> 0])
    OBVIOUS
  <2> QED BY <2>1
<1>5. k \in Nat /\ k - 1 \in 0..Len(w) /\ k - 1 \notin Bad /\ w[k] \in Nat
  <2>1. k \in 0..Len(w)
    OBVIOUS
  <2> HIDE DEF Bad
  <2> QED BY <1>3, <1>4, <2>1
<1>6. PICK d \in [0..k - 1 -> Nat] : To(k - 1, d)
  BY <1>5
<1> DEFINE e == [i \in 0..k |-> IF i = k THEN d[k - 1] + w[k] ELSE d[i]]
<1>7. e \in [0..k -> Nat]
  BY <1>4, <1>5, <1>6
<1>8. To(k, e)
  <2>1. e[0] = 0
    BY <1>4, <1>5, <1>6
  <2>2. ASSUME NEW i \in 1..k PROVE e[i] = e[i - 1] + w[i]
    <3>1. i \in 0..k /\ i - 1 \in 0..k /\ i - 1 # k /\ (i # k => i \in 1..(k - 1))
      BY <1>5
    <3>2. e[i - 1] = d[i - 1] /\ e[i] = IF i = k THEN d[k - 1] + w[k] ELSE d[i]
      BY <3>1
    <3>3. CASE i = k
      BY <3>2, <3>3
    <3>4. CASE i # k
      <4>1. d[i] = d[i - 1] + w[i]
        BY <1>6, <3>1, <3>4
      <4> QED BY <3>2, <3>4, <4>1
    <3> QED BY <3>3, <3>4
  <2> QED BY <2>1, <2>2
<1> QED BY <1>7, <1>8

LEMMA SumsAgree ==
    ASSUME NEW w \in Seq(Nat), NEW d, Sums(w, d), NEW e, Sums(w, e)
    PROVE  d[Len(w)] = e[Len(w)]
<1> DEFINE Bad == {k \in 0..Len(w) : d[k] # e[k]}
<1>1. SUFFICES ASSUME Bad # {} PROVE FALSE
  OBVIOUS
<1>2. PICK k \in Bad : \A j \in Bad : k <= j
  <2>1. Bad \in SUBSET Nat
    OBVIOUS
  <2> HIDE DEF Bad
  <2> QED BY <1>1, <2>1, LeastOf
<1>3. k # 0
  BY DEF Sums
<1>4. k \in 1..Len(w) /\ k - 1 \in 0..Len(w) /\ k - 1 \notin Bad
  <2>1. k \in 0..Len(w)
    OBVIOUS
  <2> HIDE DEF Bad
  <2> QED BY <1>2, <1>3, <2>1
<1> QED BY <1>4 DEF Sums

LEMMA TotalIs ==
    ASSUME NEW w \in Seq(Nat), NEW d, Sums(w, d)
    PROVE  Total(w) = d[Len(w)] /\ Total(w) \in Nat
<1> DEFINE Is(f) == f = [i \in 0..Len(w) |-> IF i = 0 THEN 0 ELSE f[i - 1] + w[i]]
           u == CHOOSE f : Is(f)
<1>1. PICK e \in [0..Len(w) -> Nat] : Sums(w, e)
  BY SumsExist
<1>2. Is(e)
  <2>1. \A i \in 0..Len(w) : e[i] = IF i = 0 THEN 0 ELSE e[i - 1] + w[i]
    BY <1>1 DEF Sums
  <2> QED BY <2>1
<1>3. Is(u)
  BY <1>2
<1>4. Total(w) = u[Len(w)]
  BY DEF Total
<1>5. Sums(w, u)
  <2> HIDE DEF u
  <2>1. \A i \in 0..Len(w) : u[i] = IF i = 0 THEN 0 ELSE u[i - 1] + w[i]
    BY <1>3
  <2> QED BY <2>1 DEF Sums
<1> HIDE DEF u
<1>6. u[Len(w)] = e[Len(w)] /\ u[Len(w)] = d[Len(w)]
  BY <1>1, <1>5, SumsAgree
<1> QED BY <1>1, <1>4, <1>6

LEMMA TotalNothing == Total(<<>>) = 0
<1>1. Sums(<<>>, [i \in 0..0 |-> 0]) /\ Len(<<>>) = 0
  BY DEF Sums
<1>2. Total(<<>>) = [i \in 0..0 |-> 0][0]
  BY <1>1, TotalIs
<1> QED BY <1>2

LEMMA TotalAppend ==
    ASSUME NEW w \in Seq(Nat), NEW x \in Nat
    PROVE  Total(Append(w, x)) = Total(w) + x /\ Total(w) \in Nat
<1>1. PICK d \in [0..Len(w) -> Nat] : Sums(w, d)
  BY SumsExist
<1> DEFINE v == Append(w, x)
           e == [i \in 0..Len(w) + 1 |-> IF i = Len(w) + 1 THEN d[Len(w)] + x ELSE d[i]]
<1>2. v \in Seq(Nat) /\ Len(v) = Len(w) + 1 /\ v[Len(w) + 1] = x /\ \A i \in 1..Len(w) : v[i] = w[i]
  OBVIOUS
<1>3. Sums(v, e)
  <2>1. e[0] = 0
    BY <1>1 DEF Sums
  <2>2. ASSUME NEW i \in 1..Len(v) PROVE e[i] = e[i - 1] + v[i]
    BY <1>1, <1>2 DEF Sums
  <2> QED BY <2>1, <2>2 DEF Sums
<1>4. Total(v) = e[Len(v)]
  <2> HIDE DEF v, e
  <2> QED BY <1>2, <1>3, TotalIs
<1>5. Total(w) = d[Len(w)] /\ Total(w) \in Nat
  BY <1>1, TotalIs
<1> QED BY <1>2, <1>4, <1>5

LEMMA TotalTail ==
    ASSUME NEW w \in Seq(Nat), w # <<>>
    PROVE  Total(w) = Head(w) + Total(Tail(w)) /\ Total(Tail(w)) \in Nat
<1>1. PICK d \in [0..Len(Tail(w)) -> Nat] : Sums(Tail(w), d)
  BY SumsExist
<1> DEFINE e == [i \in 0..Len(w) |-> IF i = 0 THEN 0 ELSE w[1] + d[i - 1]]
<1>2. /\ Len(w) \in Nat \ {0} /\ Len(Tail(w)) = Len(w) - 1 /\ Head(w) = w[1] /\ w[1] \in Nat
      /\ Tail(w) \in Seq(Nat)
      /\ \A i \in 2..Len(w) : Tail(w)[i - 1] = w[i]
  OBVIOUS
<1>3. Sums(w, e)
  <2>1. e[0] = 0
    OBVIOUS
  <2>2. ASSUME NEW i \in 1..Len(w) PROVE e[i] = e[i - 1] + w[i]
    <3>1. CASE i = 1
      BY <1>1, <1>2, <3>1 DEF Sums
    <3>2. CASE i # 1
      <4>1. i - 1 \in 1..Len(Tail(w)) /\ i \in 2..Len(w)
        BY <1>2, <3>2
      <4>2. d[i - 1] = d[i - 2] + w[i]
        BY <1>1, <1>2, <4>1 DEF Sums
      <4>3. d[i - 2] \in Nat /\ w[i] \in Nat
        BY <1>1, <4>1
      <4> QED BY <1>2, <4>1, <4>2, <4>3
    <3> QED BY <3>1, <3>2
  <2> QED BY <2>1, <2>2 DEF Sums
<1>4. Total(w) = e[Len(w)]
  <2> HIDE DEF e
  <2> QED BY <1>3, TotalIs
<1>5. Total(Tail(w)) = d[Len(Tail(w))] /\ Total(Tail(w)) \in Nat
  BY <1>1, <1>2, TotalIs
<1> QED BY <1>2, <1>4, <1>5

\* What is under way, when a frame is added and when the first is taken.
LEMMA BytesAppend ==
    ASSUME NEW F, NEW q \in Seq(F), NEW f \in F, \A g \in F : g.len \in Nat, NEW t, NEW S
    PROVE  /\ Total(Bytes(Append(q, f), t, S)) = Total(Bytes(q, t, S)) + Carried(f, t, S)
           /\ Total(Bytes(q, t, S)) \in Nat
<1>1. \A g \in F : Carried(g, t, S) \in Nat
  BY DEF Carried
<1>2. Bytes(q, t, S) \in Seq(Nat)
  <2>1. \A i \in 1..Len(q) : q[i] \in F
    OBVIOUS
  <2> QED BY <1>1, <2>1 DEF Bytes
<1>3. Bytes(Append(q, f), t, S) = Append(Bytes(q, t, S), Carried(f, t, S))
  BY <1>1, <1>2 DEF Bytes
<1> QED BY <1>1, <1>2, <1>3, TotalAppend

LEMMA BytesTail ==
    ASSUME NEW F, NEW q \in Seq(F), q # <<>>, \A g \in F : g.len \in Nat, NEW t, NEW S
    PROVE  /\ Total(Bytes(q, t, S)) = Carried(Head(q), t, S) + Total(Bytes(Tail(q), t, S))
           /\ Total(Bytes(Tail(q), t, S)) \in Nat
<1>1. \A g \in F : Carried(g, t, S) \in Nat
  BY DEF Carried
<1>2. Bytes(q, t, S) \in Seq(Nat) /\ Bytes(q, t, S) # <<>>
  <2>1. (\A i \in 1..Len(q) : q[i] \in F) /\ Len(q) # 0
    OBVIOUS
  <2> QED BY <1>1, <2>1 DEF Bytes
<1>3. Head(Bytes(q, t, S)) = Carried(Head(q), t, S)
  BY <1>1, <1>2 DEF Bytes
<1>4. Bytes(Tail(q), t, S) = Tail(Bytes(q, t, S))
  <2>1. Len(q) \in Nat \ {0} /\ Len(Tail(q)) = Len(q) - 1 /\ \A i \in 1..Len(q) - 1 : Tail(q)[i] = q[i + 1]
    OBVIOUS
  <2>2. Len(Bytes(q, t, S)) = Len(q) /\ \A i \in 1..Len(q) - 1 : Bytes(q, t, S)[i + 1] = Carried(q[i + 1], t, S)
    BY <2>1 DEF Bytes
  <2>3. /\ Tail(Bytes(q, t, S)) \in Seq(Nat) /\ Len(Tail(Bytes(q, t, S))) = Len(q) - 1
        /\ \A i \in 1..Len(q) - 1 : Tail(Bytes(q, t, S))[i] = Bytes(q, t, S)[i + 1]
    BY <1>2, <2>2, HeadTailProperties
  <2>4. /\ Bytes(Tail(q), t, S) \in Seq(Nat) /\ Len(Bytes(Tail(q), t, S)) = Len(q) - 1
        /\ \A i \in 1..Len(q) - 1 : Bytes(Tail(q), t, S)[i] = Carried(q[i + 1], t, S)
    <3>1. \A i \in 1..Len(q) - 1 : q[i + 1] \in F
      BY <2>1
    <3> QED BY <1>1, <2>1, <3>1 DEF Bytes
  <2> QED BY <2>2, <2>3, <2>4, SeqEqual
<1> QED BY <1>1, <1>2, <1>3, <1>4, TotalTail

LEMMA BytesNothing == \A t, S : Total(Bytes(<<>>, t, S)) = 0
<1>1. \A t, S : Bytes(<<>>, t, S) = <<>>
  BY DEF Bytes
<1> QED BY <1>1, TotalNothing
-----------------------------------------------------------------------------
(***************************************************************************)
(* CreditKept for every set of streams, every window, threshold and frame  *)
(* size.  The agreement of the two ends is inductive together with         *)
(*   Books   received and not yet returned bytes make up the rest of the   *)
(*           window, and with the automatic release stay below the batch   *)
(*   Order   a stream begins with its HEADERS, once, and, as long as the   *)
(*           endpoint resets nothing, no DATA follows the end of a stream: *)
(*           DATA for a closed stream would take its credit away           *)
(***************************************************************************)
ToEndpoint ==
    {f \in [type : {"HEADERS", "DATA", "RST_STREAM"}, stream : RxStreams, len : Nat, end : BOOLEAN] :
        f.type = "RST_STREAM" => f.end}
ToSender == [type : {"WINDOW_UPDATE", "RST_STREAM"}, stream : RxStreams \cup {"conn"}, len : Nat, end : BOOLEAN]

Endpoints ==
    [state : [RxStreams -> {"none", "open", "half_closed_local", "half_closed_remote", "closed"}],
     recv_window : [RxStreams -> Nat], recv_unreleased : [RxStreams -> Nat],
     conn_recv_window : 0..RxMaxWindow, conn_pending_release : 0..ConnThreshold - 1,
     pending_frames : Seq(ToSender)]

RxTypes ==
    /\ rxconfig \in [auto_release_credit : BOOLEAN, resets : BOOLEAN, max_streams : Nat]
    /\ rxconn \in Endpoints /\ rxclosed \in BOOLEAN /\ held \in [RxStreams -> Nat]
    /\ inbox \in Seq(ToEndpoint) /\ Len(inbox) <= RxMaxFlight
    /\ rxpeer \in [credit : Nat, window : [RxStreams -> Nat],
                   sending : [RxStreams -> {"idle", "body", "ended", "reset"}]]

\* Credit granted and on its way to the sender.
Granted(c, x) == Total(Bytes(c.pending_frames, "WINDOW_UPDATE", {x}))

BooksOf(c, s, auto) ==
    IF RxLive(c, s)
    THEN /\ c.recv_window[s] + c.recv_unreleased[s] = InitWindow
         /\ auto => c.recv_unreleased[s] < StreamThreshold
    ELSE c.recv_window[s] = 0 /\ c.recv_unreleased[s] = 0

AgreeOn(c, s, q, p) ==
    c.state[s] # "closed" =>
        (IF c.state[s] = "none" THEN InitWindow ELSE c.recv_window[s])
            = p.window[s] + Flying(q, "DATA", s) + Granted(c, s)

OrderOf(st, s, q, snd, resets) ==
    /\ snd = "idle" => st = "none" /\ \A i \in DOMAIN q : q[i].stream # s
    /\ \A i \in DOMAIN q : q[i].stream = s /\ q[i].type = "HEADERS" =>
          st = "none" /\ \A j \in DOMAIN q : j # i /\ q[j].stream = s => q[j].type # "HEADERS"
    /\ ~resets =>
          /\ \A i, j \in DOMAIN q : i < j /\ q[i].stream = s /\ q[j].stream = s /\ q[i].end => q[j].type # "DATA"
          /\ st \in {"half_closed_remote", "closed"} => \A i \in DOMAIN q : q[i].stream = s => q[i].type # "DATA"
          /\ snd \in {"idle", "body"} =>
                st \notin {"half_closed_remote", "closed"} /\ \A i \in DOMAIN q : q[i].stream = s => ~q[i].end

CreditInv ==
    /\ RxTypes /\ ConnCreditKept
    /\ \A s \in RxStreams :
          /\ BooksOf(rxconn, s, rxconfig.auto_release_credit)
          /\ ~rxclosed => AgreeOn(rxconn, s, inbox, rxpeer)
          /\ OrderOf(rxconn.state[s], s, inbox, rxpeer.sending[s], rxconfig.resets)

LEMMA CreditEnough == CreditInv => CreditKept
<1> SUFFICES ASSUME CreditInv PROVE CreditKept
  OBVIOUS
<1> USE RecvAssumption
<1>1. \A s \in RxStreams : rxconn.recv_window[s] \in Nat /\ rxconn.recv_unreleased[s] \in Nat
  BY DEF CreditInv, RxTypes, Endpoints
<1>2. \A s \in RxStreams : rxconn.recv_window[s] \in 0..InitWindow /\ rxconn.recv_unreleased[s] \in 0..InitWindow
  BY <1>1 DEF CreditInv, BooksOf
<1>3. RxTypeOK
  BY <1>2 DEF CreditInv, RxTypes, Endpoints, RxTypeOK
<1>4. StreamCreditAgrees
  BY DEF CreditInv, AgreeOn, StreamCreditAgrees, RxLive, Granted, Flying
<1>5. HalfWindowKept
  <2>1. StreamThreshold <= InitWindow \div 2 /\ StreamThreshold \in Nat
    <3>1. InitWindow \div 2 \in Nat /\ MinThreshold <= InitWindow \div 2 /\ MinThreshold \in Nat
      OBVIOUS
    <3>2. InitWindow \div 2 \in {InitWindow \div 2, MinThreshold} /\ \A y \in {InitWindow \div 2, MinThreshold} : y <= InitWindow \div 2
      BY <3>1
    <3> QED BY <3>1, <3>2 DEF StreamThreshold, Max
  <2> QED BY <1>1, <2>1 DEF CreditInv, BooksOf, HalfWindowKept
<1> QED BY <1>3, <1>4, <1>5 DEF CreditInv, CreditKept

LEMMA CreditStart == RxInit => CreditInv
<1> SUFFICES ASSUME RxInit PROVE CreditInv
  OBVIOUS
<1> USE RecvAssumption
<1>1. RxTypes
  <2>1. 0 \in 0..ConnThreshold - 1 /\ ConnInit \in 0..RxMaxWindow /\ ConnInit \in Nat
    OBVIOUS
  <2>2. rxconn \in Endpoints
    BY <2>1 DEF RxInit, Endpoints
  <2>3. rxconfig \in [auto_release_credit : BOOLEAN, resets : BOOLEAN, max_streams : Nat]
    BY DEF RxInit
  <2>4. inbox \in Seq(ToEndpoint) /\ Len(inbox) <= RxMaxFlight
    BY DEF RxInit
  <2>5. rxpeer \in [credit : Nat, window : [RxStreams -> Nat], sending : [RxStreams -> {"idle", "body", "ended", "reset"}]]
    BY <2>1 DEF RxInit
  <2>6. rxclosed \in BOOLEAN /\ held \in [RxStreams -> Nat]
    BY DEF RxInit
  <2> QED BY <2>2, <2>3, <2>4, <2>5, <2>6 DEF RxTypes
<1>2. Flying(inbox, "DATA", "conn") = 0 /\ \A s \in RxStreams : Flying(inbox, "DATA", s) = 0 /\ Granted(rxconn, s) = 0
  BY BytesNothing DEF RxInit, Flying, Granted
<1>3. ConnCreditKept
  BY BytesNothing DEF RxInit, ConnCreditKept, ConnCredit, FlyingData, Flying
<1>4. ASSUME NEW s \in RxStreams
      PROVE  /\ BooksOf(rxconn, s, rxconfig.auto_release_credit)
             /\ AgreeOn(rxconn, s, inbox, rxpeer)
             /\ OrderOf(rxconn.state[s], s, inbox, rxpeer.sending[s], rxconfig.resets)
  BY <1>2 DEF RxInit, BooksOf, AgreeOn, OrderOf, RxLive
<1> QED BY <1>1, <1>3, <1>4 DEF CreditInv

\* c and d differ at stream s only, the credit on its way to the streams included.
Elsewhere(c, d, s) ==
    \A t \in RxStreams \ {s} :
        /\ d.state[t] = c.state[t] /\ d.recv_window[t] = c.recv_window[t]
        /\ d.recv_unreleased[t] = c.recv_unreleased[t] /\ Granted(d, t) = Granted(c, t)

\* Connection credit that the endpoint has taken back and not yet handed to the sender.
Returned(c) == Granted(c, "conn") + c.conn_pending_release

LEMMA GrantedTypes == ASSUME NEW c \in Endpoints, NEW x PROVE Granted(c, x) \in Nat
<1>1. PICK f : f \in ToSender
  <2>1. [type |-> "RST_STREAM", stream |-> "conn", len |-> 0, end |-> TRUE] \in ToSender
    BY DEF ToSender
  <2> QED BY <2>1
<1>2. c.pending_frames \in Seq(ToSender) /\ \A g \in ToSender : g.len \in Nat
  BY DEF Endpoints, ToSender
<1> QED BY <1>1, <1>2, BytesAppend DEF Granted

LEMMA Fields ==
    ASSUME NEW c \in Endpoints
    PROVE  /\ c.conn_pending_release \in Nat /\ c.conn_recv_window \in Nat
           /\ c.pending_frames \in Seq(ToSender)
           /\ \A s \in RxStreams : c.recv_window[s] \in Nat /\ c.recv_unreleased[s] \in Nat
<1>1. c.conn_pending_release \in 0..ConnThreshold - 1 /\ c.conn_recv_window \in 0..RxMaxWindow
  BY DEF Endpoints
<1> QED BY <1>1, RecvAssumption DEF Endpoints

LEMMA Batches == 0 \in 0..ConnThreshold - 1 /\ \A b \in Nat : ~(b >= ConnThreshold) => b \in 0..ConnThreshold - 1
BY RecvAssumption

\* Clamped to MAX_FLOW_WINDOW.
LEMMA Clamped ==
    ASSUME NEW m \in Nat, NEW k, k = Min({m, RxMaxWindow})
    PROVE  k \in 0..RxMaxWindow /\ (m <= RxMaxWindow => k = m)
<1>1. RxMaxWindow \in Nat
  BY RecvAssumption
<1>2. CASE m <= RxMaxWindow
  <2>1. m \in {m, RxMaxWindow} /\ \A y \in {m, RxMaxWindow} : m <= y
    BY <1>1, <1>2
  <2>2. \A x \in {m, RxMaxWindow} : (\A y \in {m, RxMaxWindow} : x <= y) => x = m
    BY <1>1, <1>2
  <2>3. k = m
    BY <2>1, <2>2 DEF Min
  <2> QED BY <1>1, <1>2, <2>3
<1>3. CASE ~(m <= RxMaxWindow)
  <2>1. RxMaxWindow \in {m, RxMaxWindow} /\ \A y \in {m, RxMaxWindow} : RxMaxWindow <= y
    BY <1>1, <1>3
  <2>2. \A x \in {m, RxMaxWindow} : (\A y \in {m, RxMaxWindow} : x <= y) => x = RxMaxWindow
    BY <1>1, <1>3
  <2>3. k = RxMaxWindow
    BY <2>1, <2>2 DEF Min
  <2> QED BY <1>1, <1>3, <2>3
<1> QED BY <1>2, <1>3

LEMMA QueueEffect ==
    ASSUME NEW c \in Endpoints, NEW f \in ToSender, NEW d, d = RxQueue(c, f)
    PROVE  /\ d \in Endpoints /\ d.state = c.state /\ d.recv_window = c.recv_window
           /\ d.recv_unreleased = c.recv_unreleased /\ d.conn_recv_window = c.conn_recv_window
           /\ d.conn_pending_release = c.conn_pending_release
           /\ \A x : Granted(d, x) = Granted(c, x) + Carried(f, "WINDOW_UPDATE", {x})
<1>1. PICK q \in Seq(ToSender) : q = Append(c.pending_frames, f)
  <2>1. c.pending_frames \in Seq(ToSender)
    BY Fields
  <2>2. \A p \in Seq(ToSender) : Append(p, f) \in Seq(ToSender)
    OBVIOUS
  <2> QED BY <2>1, <2>2
<1>2. d = [c EXCEPT !.pending_frames = q]
  BY <1>1 DEF RxQueue
<1>3. /\ d \in Endpoints /\ d.state = c.state /\ d.recv_window = c.recv_window
      /\ d.recv_unreleased = c.recv_unreleased /\ d.conn_recv_window = c.conn_recv_window
      /\ d.conn_pending_release = c.conn_pending_release /\ d.pending_frames = q
  BY <1>2 DEF Endpoints
<1>4. c.pending_frames \in Seq(ToSender) /\ \A g \in ToSender : g.len \in Nat
  BY DEF Endpoints, ToSender
<1>5. \A x : Granted(d, x) = Granted(c, x) + Carried(f, "WINDOW_UPDATE", {x})
  BY <1>1, <1>3, <1>4, BytesAppend DEF Granted
<1> QED BY <1>3, <1>5

LEMMA QueueUpdate ==
    ASSUME NEW c \in Endpoints, NEW x \in RxStreams \cup {"conn"}, NEW n \in Nat,
           NEW d, d = RxQueue(c, WindowUpdate(x, n))
    PROVE  /\ d \in Endpoints /\ d.state = c.state /\ d.recv_window = c.recv_window
           /\ d.recv_unreleased = c.recv_unreleased /\ d.conn_recv_window = c.conn_recv_window
           /\ d.conn_pending_release = c.conn_pending_release
           /\ Granted(d, x) = Granted(c, x) + n
           /\ \A y : y # x => Granted(d, y) = Granted(c, y)
<1>1. PICK f \in ToSender : f = WindowUpdate(x, n)
  BY DEF WindowUpdate, ToSender
<1>2. Carried(f, "WINDOW_UPDATE", {x}) = n /\ \A y : y # x => Carried(f, "WINDOW_UPDATE", {y}) = 0
  BY <1>1 DEF WindowUpdate, Carried
<1>3. \A y : Granted(d, y) = Granted(c, y) + Carried(f, "WINDOW_UPDATE", {y}) /\ Granted(c, y) \in Nat
  <2>1. d = RxQueue(c, f)
    BY <1>1
  <2>2. \A y : Granted(d, y) = Granted(c, y) + Carried(f, "WINDOW_UPDATE", {y})
    BY <2>1, QueueEffect, ZenonT(60)
  <2>3. \A y : Granted(c, y) \in Nat
    BY GrantedTypes
  <2> QED BY <2>2, <2>3
<1>4. Granted(d, x) = Granted(c, x) + n
  BY <1>2, <1>3
<1>5. ASSUME NEW y, y # x PROVE Granted(d, y) = Granted(c, y)
  <2>1. Carried(f, "WINDOW_UPDATE", {y}) = 0
    BY <1>2, <1>5
  <2>2. Granted(d, y) = Granted(c, y) + Carried(f, "WINDOW_UPDATE", {y}) /\ Granted(c, y) \in Nat
    BY <1>3
  <2> QED BY <2>1, <2>2
<1> QED BY <1>1, <1>4, <1>5, QueueEffect

LEMMA QueueConnUpdate ==
    ASSUME NEW c \in Endpoints, NEW n \in Nat, NEW d, d = RxQueue(c, WindowUpdate("conn", n))
    PROVE  /\ d \in Endpoints /\ d.state = c.state /\ d.recv_window = c.recv_window
           /\ d.recv_unreleased = c.recv_unreleased /\ d.conn_pending_release = c.conn_pending_release
           /\ Granted(d, "conn") = Granted(c, "conn") + n
           /\ \A t \in RxStreams : Granted(d, t) = Granted(c, t)
<1>1. PICK x \in RxStreams \cup {"conn"} : x = "conn" /\ x \notin RxStreams
  BY RecvAssumption
<1>2. d = RxQueue(c, WindowUpdate(x, n))
  BY <1>1
<1>3. /\ d \in Endpoints /\ d.state = c.state /\ d.recv_window = c.recv_window
      /\ d.recv_unreleased = c.recv_unreleased /\ d.conn_pending_release = c.conn_pending_release
      /\ Granted(d, x) = Granted(c, x) + n
      /\ \A y : y # x => Granted(d, y) = Granted(c, y)
  BY <1>2, QueueUpdate
<1> QED BY <1>1, <1>3

LEMMA QueueRst ==
    ASSUME NEW c \in Endpoints, NEW s \in RxStreams, NEW d, d = RxQueue(c, Rst(s))
    PROVE  /\ d \in Endpoints /\ d.state = c.state /\ d.recv_window = c.recv_window
           /\ d.recv_unreleased = c.recv_unreleased /\ d.conn_recv_window = c.conn_recv_window
           /\ d.conn_pending_release = c.conn_pending_release
           /\ \A y : Granted(d, y) = Granted(c, y)
<1>1. PICK f \in ToSender : f = Rst(s)
  BY DEF Rst, ToSender
<1>2. \A y : Carried(f, "WINDOW_UPDATE", {y}) = 0
  BY <1>1 DEF Rst, Carried
<1>3. ASSUME NEW y PROVE Granted(d, y) = Granted(c, y)
  <2>1. Carried(f, "WINDOW_UPDATE", {y}) = 0
    BY <1>2
  <2>2. Granted(d, y) = Granted(c, y) + Carried(f, "WINDOW_UPDATE", {y}) /\ Granted(c, y) \in Nat
    BY <1>1, QueueEffect, GrantedTypes
  <2> QED BY <2>1, <2>2
<1> QED BY <1>1, <1>3, QueueEffect

LEMMA ThresholdTypes == StreamThreshold \in Nat \ {0}
<1> USE RecvAssumption
<1>1. InitWindow \div 2 \in Nat /\ MinThreshold \in Nat \ {0} /\ MinThreshold <= InitWindow \div 2
  OBVIOUS
<1>2. StreamThreshold \in {InitWindow \div 2, MinThreshold}
  BY <1>1 DEF StreamThreshold, Max
<1> QED BY <1>1, <1>2

\* release_data(), the stream half: the sum of window and unreleased bytes stays.
LEMMA StreamReleaseEffect ==
    ASSUME NEW c \in Endpoints, NEW s \in RxStreams, c.recv_window[s] + c.recv_unreleased[s] <= InitWindow,
           NEW d, d = StreamRelease(c, s)
    PROVE  /\ d \in Endpoints /\ Elsewhere(c, d, s) /\ d.state = c.state /\ Returned(d) = Returned(c)
           /\ d.recv_window[s] + d.recv_unreleased[s] = c.recv_window[s] + c.recv_unreleased[s]
           /\ d.recv_window[s] + Granted(c, s) = c.recv_window[s] + Granted(d, s)
           /\ d.recv_unreleased[s] < StreamThreshold
           /\ c.recv_unreleased[s] = 0 => d = c
<1>1. c.recv_window[s] \in Nat /\ c.recv_unreleased[s] \in Nat /\ StreamThreshold \in Nat \ {0}
  BY ThresholdTypes, Fields
<1>2. Granted(c, s) \in Nat /\ Granted(c, "conn") \in Nat /\ c.conn_pending_release \in Nat
  BY GrantedTypes, Fields
<1>3. CASE c.recv_unreleased[s] >= StreamThreshold
  <2>1. PICK n \in Nat, m \in Nat : n = c.recv_unreleased[s] /\ m = c.recv_window[s] + n
    BY <1>1
  <2>2. Min({c.recv_window[s] + n, RxMaxWindow}) = m
    <3>1. m <= RxMaxWindow
      BY <1>1, <2>1, RecvAssumption
    <3> QED BY <2>1, <3>1, Clamped
  <2> DEFINE e == [c EXCEPT !.recv_unreleased[s] = 0, !.recv_window[s] = m]
  <2>3. d = RxQueue(e, WindowUpdate(s, n))
    BY <1>3, <2>1, <2>2 DEF StreamRelease
  <2>4. /\ e \in Endpoints /\ e.state = c.state /\ e.pending_frames = c.pending_frames
        /\ e.conn_pending_release = c.conn_pending_release
        /\ e.recv_window[s] = m /\ e.recv_unreleased[s] = 0
        /\ \A t \in RxStreams \ {s} : e.recv_window[t] = c.recv_window[t] /\ e.recv_unreleased[t] = c.recv_unreleased[t]
    BY DEF Endpoints
  <2>5. \A x : Granted(e, x) = Granted(c, x)
    BY <2>4 DEF Granted
  <2> HIDE DEF e
  <2>6. /\ d \in Endpoints /\ d.state = e.state /\ d.recv_window = e.recv_window
        /\ d.recv_unreleased = e.recv_unreleased /\ d.conn_pending_release = e.conn_pending_release
        /\ Granted(d, s) = Granted(e, s) + n
        /\ \A y : y # s => Granted(d, y) = Granted(e, y)
    BY <2>3, <2>4, QueueUpdate
  <2>7. "conn" # s
    BY RecvAssumption
  <2>8. Elsewhere(c, d, s) /\ Returned(d) = Returned(c)
    BY <2>4, <2>5, <2>6, <2>7 DEF Elsewhere, Returned
  <2> QED BY <1>1, <1>2, <1>3, <2>1, <2>4, <2>5, <2>6, <2>8
<1>4. CASE ~(c.recv_unreleased[s] >= StreamThreshold)
  <2>1. d = c
    BY <1>4 DEF StreamRelease
  <2> QED BY <1>1, <1>2, <1>4, <2>1 DEF Elsewhere
<1> QED BY <1>3, <1>4

\* release_data(), the connection half: n bytes come back, now or with the next batch.
LEMMA ConnReleaseEffect ==
    ASSUME NEW c \in Endpoints, NEW n \in Nat, NEW d, d = ConnRelease(c, n)
    PROVE  /\ d \in Endpoints /\ d.state = c.state /\ d.recv_window = c.recv_window
           /\ d.recv_unreleased = c.recv_unreleased /\ Returned(d) = Returned(c) + n
           /\ \A t \in RxStreams : Granted(d, t) = Granted(c, t)
<1>1. PICK b \in Nat : b = c.conn_pending_release + n
  BY Fields
<1>2. \A x \in RxStreams \cup {"conn"} : Granted(c, x) \in Nat
  BY GrantedTypes
<1>3. "conn" \notin RxStreams /\ c.conn_pending_release \in Nat /\ c.conn_recv_window \in Nat
  BY RecvAssumption, Fields
<1>4. CASE b >= ConnThreshold
  <2>1. PICK m \in 0..RxMaxWindow : m = Min({c.conn_recv_window + b, RxMaxWindow})
    <3>1. c.conn_recv_window + b \in Nat
      BY <1>3
    <3> QED BY <3>1, Clamped
  <2> DEFINE e == [c EXCEPT !.conn_pending_release = 0, !.conn_recv_window = m]
  <2>2. d = RxQueue(e, WindowUpdate("conn", b))
    BY <1>1, <1>4, <2>1 DEF ConnRelease
  <2>3. /\ e \in Endpoints /\ e.state = c.state /\ e.pending_frames = c.pending_frames
        /\ e.conn_pending_release = 0 /\ e.recv_window = c.recv_window /\ e.recv_unreleased = c.recv_unreleased
    BY Batches DEF Endpoints
  <2>4. \A x : Granted(e, x) = Granted(c, x)
    BY <2>3 DEF Granted
  <2> HIDE DEF e
  <2>5. /\ d \in Endpoints /\ d.state = e.state /\ d.recv_window = e.recv_window
        /\ d.recv_unreleased = e.recv_unreleased /\ d.conn_pending_release = e.conn_pending_release
        /\ Granted(d, "conn") = Granted(e, "conn") + b
        /\ \A t \in RxStreams : Granted(d, t) = Granted(e, t)
    <3>1. e \in Endpoints
      BY <2>3
    <3> QED BY <2>2, <3>1, QueueConnUpdate
  <2>6. Returned(d) = Returned(c) + n
    BY <1>1, <1>2, <1>3, <2>3, <2>4, <2>5 DEF Returned
  <2> QED BY <1>3, <2>3, <2>4, <2>5, <2>6
<1>5. CASE ~(b >= ConnThreshold)
  <2>1. d = [c EXCEPT !.conn_pending_release = b]
    BY <1>1, <1>5 DEF ConnRelease
  <2>2. b \in 0..ConnThreshold - 1
    BY <1>5, Batches
  <2>3. /\ d \in Endpoints /\ d.state = c.state /\ d.recv_window = c.recv_window
        /\ d.recv_unreleased = c.recv_unreleased /\ d.conn_pending_release = b
        /\ d.pending_frames = c.pending_frames
    BY <2>1, <2>2 DEF Endpoints
  <2>4. \A x : Granted(d, x) = Granted(c, x)
    BY <2>3 DEF Granted
  <2>5. Returned(d) = Returned(c) + n
    BY <1>1, <1>2, <1>3, <2>3, <2>4 DEF Returned
  <2> QED BY <2>3, <2>4, <2>5
<1> QED BY <1>4, <1>5

\* close_stream(): what the stream still owes comes back.
LEMMA CloseEffect ==
    ASSUME NEW c \in Endpoints, NEW s \in RxStreams, NEW d, d = RxCloseStream(c, s)
    PROVE  /\ d \in Endpoints /\ d.state[s] = "closed" /\ Elsewhere(c, d, s)
           /\ d.recv_window[s] = 0 /\ d.recv_unreleased[s] = 0
           /\ Returned(d) = Returned(c) + c.recv_unreleased[s]
<1>1. PICK n \in Nat, b \in Nat : n = c.recv_unreleased[s] /\ b = c.conn_pending_release + n
  BY Fields
<1>2. \A x \in RxStreams \cup {"conn"} : Granted(c, x) \in Nat
  BY GrantedTypes
<1>3. "conn" \notin RxStreams /\ c.conn_pending_release \in Nat /\ c.conn_recv_window \in Nat
  BY RecvAssumption, Fields
<1>4. PICK m \in 0..RxMaxWindow : m = Min({c.conn_recv_window + n, RxMaxWindow})
  <2>1. c.conn_recv_window + n \in Nat
    BY <1>3
  <2> QED BY <2>1, Clamped
<1> DEFINE e == [c EXCEPT !.state[s] = "closed", !.recv_window[s] = 0, !.recv_unreleased[s] = 0,
                          !.conn_recv_window = m]
<1>5. d = IF b >= ConnThreshold THEN RxQueue([e EXCEPT !.conn_pending_release = 0], WindowUpdate("conn", b))
          ELSE [e EXCEPT !.conn_pending_release = b]
  BY <1>1, <1>4 DEF RxCloseStream
<1>6. /\ e \in Endpoints /\ e.pending_frames = c.pending_frames
      /\ e.state[s] = "closed" /\ e.recv_window[s] = 0 /\ e.recv_unreleased[s] = 0
      /\ \A t \in RxStreams \ {s} : /\ e.state[t] = c.state[t] /\ e.recv_window[t] = c.recv_window[t]
                                    /\ e.recv_unreleased[t] = c.recv_unreleased[t]
  BY DEF Endpoints
<1>7. \A x : Granted(e, x) = Granted(c, x)
  BY <1>6 DEF Granted
<1> HIDE DEF e
<1>8. CASE b >= ConnThreshold
  <2>0. PICK g : g = [e EXCEPT !.conn_pending_release = 0]
    OBVIOUS
  <2>1. d = RxQueue(g, WindowUpdate("conn", b))
    BY <1>5, <1>8, <2>0
  <2>2. /\ g \in Endpoints /\ g.state = e.state /\ g.pending_frames = e.pending_frames
        /\ g.conn_pending_release = 0 /\ g.recv_window = e.recv_window /\ g.recv_unreleased = e.recv_unreleased
    BY <1>6, <2>0, Batches DEF Endpoints
  <2>3. \A x : Granted(g, x) = Granted(c, x)
    BY <1>7, <2>2 DEF Granted
  <2>4. /\ d \in Endpoints /\ d.state = g.state /\ d.recv_window = g.recv_window
        /\ d.recv_unreleased = g.recv_unreleased /\ d.conn_pending_release = g.conn_pending_release
        /\ Granted(d, "conn") = Granted(g, "conn") + b
        /\ \A t \in RxStreams : Granted(d, t) = Granted(g, t)
    <3>1. g \in Endpoints
      BY <2>2
    <3> QED BY <2>1, <3>1, QueueConnUpdate
  <2>5. Elsewhere(c, d, s)
    BY <1>3, <1>6, <2>2, <2>3, <2>4 DEF Elsewhere
  <2>6. Returned(d) = Returned(c) + n
    BY <1>1, <1>2, <1>3, <2>2, <2>3, <2>4 DEF Returned
  <2> QED BY <1>1, <1>6, <2>2, <2>4, <2>5, <2>6
<1>9. CASE ~(b >= ConnThreshold)
  <2>1. d = [e EXCEPT !.conn_pending_release = b]
    BY <1>5, <1>9
  <2>2. b \in 0..ConnThreshold - 1
    BY <1>9, Batches
  <2>3. /\ d \in Endpoints /\ d.state = e.state /\ d.pending_frames = e.pending_frames
        /\ d.conn_pending_release = b /\ d.recv_window = e.recv_window /\ d.recv_unreleased = e.recv_unreleased
    BY <1>6, <2>1, <2>2 DEF Endpoints
  <2>4. \A x : Granted(d, x) = Granted(c, x)
    BY <1>7, <2>3 DEF Granted
  <2>5. Elsewhere(c, d, s)
    BY <1>6, <2>3, <2>4 DEF Elsewhere
  <2>6. Returned(d) = Returned(c) + n
    BY <1>1, <1>2, <1>3, <2>3, <2>4 DEF Returned
  <2> QED BY <1>1, <1>6, <2>3, <2>5, <2>6
<1> QED BY <1>8, <1>9

\* stream_error() and send_rst().
LEMMA ResetEffect ==
    ASSUME NEW c \in Endpoints, NEW s \in RxStreams, NEW d, d = ResetStream(c, s)
    PROVE  /\ d \in Endpoints /\ d.state[s] = "closed" /\ Elsewhere(c, d, s)
           /\ d.recv_window[s] = 0 /\ d.recv_unreleased[s] = 0
<1>1. PICK e : e = RxQueue(c, Rst(s))
  OBVIOUS
<1>2. d = RxCloseStream(e, s)
  BY <1>1 DEF ResetStream
<1>3. /\ e \in Endpoints /\ e.state = c.state /\ e.recv_window = c.recv_window
      /\ e.recv_unreleased = c.recv_unreleased /\ \A y : Granted(e, y) = Granted(c, y)
  BY <1>1, QueueRst
<1>4. e \in Endpoints
  BY <1>3
<1>5. d \in Endpoints /\ d.state[s] = "closed" /\ Elsewhere(e, d, s) /\ d.recv_window[s] = 0 /\ d.recv_unreleased[s] = 0
  BY <1>2, <1>4, CloseEffect
<1>6. Elsewhere(c, d, s)
  BY <1>3, <1>5 DEF Elsewhere
<1> QED BY <1>5, <1>6

\* release_data()
LEMMA ReleaseEffect ==
    ASSUME NEW c \in Endpoints, NEW s \in RxStreams, c.recv_window[s] + c.recv_unreleased[s] <= InitWindow,
           NEW n \in Nat, NEW d, d = ReleaseData(c, s, n)
    PROVE  /\ d \in Endpoints /\ Elsewhere(c, d, s) /\ d.state = c.state /\ Returned(d) = Returned(c) + n
           /\ d.recv_window[s] + d.recv_unreleased[s] = c.recv_window[s] + c.recv_unreleased[s]
           /\ d.recv_window[s] + Granted(c, s) = c.recv_window[s] + Granted(d, s)
           /\ d.recv_unreleased[s] < StreamThreshold
           /\ c.recv_unreleased[s] = 0 => d.recv_unreleased[s] = 0 /\ d.recv_window[s] = c.recv_window[s]
<1>1. PICK e : e = StreamRelease(c, s)
  OBVIOUS
<1>2. d = ConnRelease(e, n)
  BY <1>1 DEF ReleaseData
<1>3. /\ e \in Endpoints /\ Elsewhere(c, e, s) /\ e.state = c.state /\ Returned(e) = Returned(c)
      /\ e.recv_window[s] + e.recv_unreleased[s] = c.recv_window[s] + c.recv_unreleased[s]
      /\ e.recv_window[s] + Granted(c, s) = c.recv_window[s] + Granted(e, s)
      /\ e.recv_unreleased[s] < StreamThreshold
      /\ c.recv_unreleased[s] = 0 => e = c
  BY <1>1, StreamReleaseEffect
<1>4. e \in Endpoints
  BY <1>3
<1>5. /\ d \in Endpoints /\ d.state = e.state /\ d.recv_window = e.recv_window
      /\ d.recv_unreleased = e.recv_unreleased /\ Returned(d) = Returned(e) + n
      /\ \A t \in RxStreams : Granted(d, t) = Granted(e, t)
  BY <1>2, <1>4, ConnReleaseEffect
<1>6. Elsewhere(c, d, s)
  BY <1>3, <1>5 DEF Elsewhere
<1> QED BY <1>3, <1>5, <1>6

\* The first frame is taken: the stream may have begun with it, or ended.
LEMMA OrderTail ==
    ASSUME NEW q \in Seq(ToEndpoint), q # <<>>, NEW s \in RxStreams, NEW st, NEW su, NEW snd, NEW resets \in BOOLEAN,
           OrderOf(st, s, q, snd, resets),
           \/ su = st
           \/ /\ Head(q).stream = s
              /\ \/ Head(q).type = "HEADERS" /\ su = "open"
                 \/ Head(q).type # "HEADERS" /\ st # "none" /\ (Head(q).end \/ resets)
    PROVE  OrderOf(su, s, Tail(q), snd, resets)
<1> DEFINE p == Tail(q)
<1>1. /\ Head(q) = q[1] /\ 1 \in DOMAIN q
      /\ \A i \in DOMAIN p : i + 1 \in DOMAIN q /\ p[i] = q[i + 1] /\ i \in Nat \ {0}
  OBVIOUS
<1> HIDE DEF p
<1>2. snd = "idle" => su = "none" /\ \A i \in DOMAIN p : p[i].stream # s
  BY <1>1 DEF OrderOf
<1>3. ASSUME NEW i \in DOMAIN p, p[i].stream = s, p[i].type = "HEADERS"
      PROVE  su = "none" /\ \A j \in DOMAIN p : j # i /\ p[j].stream = s => p[j].type # "HEADERS"
  <2>1. i + 1 \in DOMAIN q /\ q[i + 1].stream = s /\ q[i + 1].type = "HEADERS" /\ i + 1 # 1
    BY <1>1, <1>3
  <2>2. st = "none" /\ \A j \in DOMAIN q : j # i + 1 /\ q[j].stream = s => q[j].type # "HEADERS"
    BY <2>1 DEF OrderOf
  <2>3. su = st
    BY <1>1, <2>1, <2>2
  <2>4. ASSUME NEW j \in DOMAIN p, j # i, p[j].stream = s PROVE p[j].type # "HEADERS"
    BY <1>1, <2>2, <2>4
  <2> QED BY <2>2, <2>3, <2>4
<1>4. ASSUME ~resets
      PROVE  \A i, j \in DOMAIN p : i < j /\ p[i].stream = s /\ p[j].stream = s /\ p[i].end => p[j].type # "DATA"
  <2> SUFFICES ASSUME NEW i \in DOMAIN p, NEW j \in DOMAIN p, i < j, p[i].stream = s, p[j].stream = s, p[i].end
               PROVE  p[j].type # "DATA"
    OBVIOUS
  <2>1. i + 1 \in DOMAIN q /\ j + 1 \in DOMAIN q /\ i + 1 < j + 1 /\ p[i] = q[i + 1] /\ p[j] = q[j + 1]
    BY <1>1
  <2> QED BY <1>4, <2>1 DEF OrderOf
<1>5. ASSUME ~resets, su \in {"half_closed_remote", "closed"}
      PROVE  \A i \in DOMAIN p : p[i].stream = s => p[i].type # "DATA"
  <2> SUFFICES ASSUME NEW i \in DOMAIN p, p[i].stream = s PROVE p[i].type # "DATA"
    OBVIOUS
  <2>1. i + 1 \in DOMAIN q /\ 1 < i + 1 /\ p[i] = q[i + 1]
    BY <1>1
  <2> QED BY <1>1, <1>5, <2>1 DEF OrderOf
<1>6. ASSUME ~resets, snd \in {"idle", "body"}
      PROVE  su \notin {"half_closed_remote", "closed"} /\ \A i \in DOMAIN p : p[i].stream = s => ~p[i].end
  BY <1>1, <1>6 DEF OrderOf
<1>7. OrderOf(su, s, p, snd, resets)
  BY <1>2, <1>3, <1>4, <1>5, <1>6 DEF OrderOf
<1> QED BY <1>7 DEF p

\* A frame of another stream, or one that this sender may add.
LEMMA OrderAppend ==
    ASSUME NEW q \in Seq(ToEndpoint), NEW f \in ToEndpoint, NEW s \in RxStreams, NEW st, NEW snd, NEW tnd,
           NEW resets \in BOOLEAN, OrderOf(st, s, q, snd, resets), tnd # "idle" \/ tnd = snd,
           \/ f.stream # s /\ tnd = snd
           \/ f.stream = s /\ f.type = "HEADERS" /\ ~f.end /\ snd = "idle" /\ tnd = "body"
           \/ f.stream = s /\ f.type = "DATA" /\ snd = "body" /\ tnd # "idle" /\ (f.end => tnd # "body")
           \/ f.stream = s /\ f.type = "RST_STREAM" /\ tnd = "reset"
    PROVE  OrderOf(st, s, Append(q, f), tnd, resets)
<1> DEFINE p == Append(q, f)
<1>1. /\ Len(p) = Len(q) + 1 /\ DOMAIN p = 1..Len(q) + 1 /\ p[Len(q) + 1] = f
      /\ DOMAIN q = 1..Len(q) /\ Len(q) \in Nat /\ \A i \in DOMAIN q : p[i] = q[i]
  OBVIOUS
<1> HIDE DEF p
<1>2. tnd = "idle" => st = "none" /\ \A i \in DOMAIN p : p[i].stream # s
  BY <1>1 DEF OrderOf
<1>3. ASSUME NEW i \in DOMAIN p, p[i].stream = s, p[i].type = "HEADERS"
      PROVE  st = "none" /\ \A j \in DOMAIN p : j # i /\ p[j].stream = s => p[j].type # "HEADERS"
  <2>1. CASE i = Len(q) + 1
    BY <1>1, <1>3, <2>1 DEF OrderOf
  <2>2. CASE i # Len(q) + 1
    <3>1. i \in DOMAIN q /\ p[i] = q[i]
      BY <1>1, <2>2
    <3>2. st = "none" /\ \A j \in DOMAIN q : j # i /\ q[j].stream = s => q[j].type # "HEADERS"
      BY <1>3, <3>1 DEF OrderOf
    <3>3. f.stream = s => f.type # "HEADERS"
      BY <1>3, <3>1 DEF OrderOf
    <3> QED BY <1>1, <3>2, <3>3
  <2> QED BY <2>1, <2>2
<1>4. ASSUME ~resets
      PROVE  \A i, j \in DOMAIN p : i < j /\ p[i].stream = s /\ p[j].stream = s /\ p[i].end => p[j].type # "DATA"
  <2> SUFFICES ASSUME NEW i \in DOMAIN p, NEW j \in DOMAIN p, i < j, p[i].stream = s, p[j].stream = s, p[i].end
               PROVE  p[j].type # "DATA"
    OBVIOUS
  <2>1. i \in DOMAIN q /\ p[i] = q[i]
    BY <1>1
  <2>2. CASE j \in DOMAIN q
    BY <1>1, <1>4, <2>1, <2>2 DEF OrderOf
  <2>3. CASE j \notin DOMAIN q
    <3>1. p[j] = f
      BY <1>1, <2>3
    <3> QED BY <1>4, <2>1, <3>1 DEF OrderOf
  <2> QED BY <2>2, <2>3
<1>5. ASSUME ~resets, st \in {"half_closed_remote", "closed"}
      PROVE  \A i \in DOMAIN p : p[i].stream = s => p[i].type # "DATA"
  BY <1>1, <1>5 DEF OrderOf
<1>6. ASSUME ~resets, tnd \in {"idle", "body"}
      PROVE  st \notin {"half_closed_remote", "closed"} /\ \A i \in DOMAIN p : p[i].stream = s => ~p[i].end
  <2>1. snd \in {"idle", "body"}
    BY <1>6
  <2> QED BY <1>1, <1>6, <2>1 DEF OrderOf
<1>7. OrderOf(st, s, p, tnd, resets)
  BY <1>2, <1>3, <1>4, <1>5, <1>6 DEF OrderOf
<1> QED BY <1>7 DEF p

\* Our END_STREAM or our reset: the stream goes on, with no frame taken.
LEMMA OrderState ==
    ASSUME NEW q, NEW s, NEW st, NEW su, NEW snd, NEW resets \in BOOLEAN, OrderOf(st, s, q, snd, resets),
           st # "none" /\ su # "none",
           resets \/ su \notin {"half_closed_remote", "closed"} \/ st \in {"half_closed_remote", "closed"}
    PROVE  OrderOf(su, s, q, snd, resets)
BY DEF OrderOf

\* The endpoint changes one stream, and takes a frame of that stream or none.
LEMMA EndpointStep ==
    ASSUME CreditInv, NEW s \in RxStreams, rxconfig' = rxconfig, rxpeer' = rxpeer,
           rxclosed' \in BOOLEAN, rxclosed => rxclosed', held' \in [RxStreams -> Nat],
           rxconn' \in Endpoints, Elsewhere(rxconn, rxconn', s),
           inbox' = inbox \/ (inbox # <<>> /\ inbox' = Tail(inbox) /\ Head(inbox).stream = s),
           BooksOf(rxconn', s, rxconfig.auto_release_credit),
           ~rxclosed' => AgreeOn(rxconn', s, inbox', rxpeer),
           OrderOf(rxconn'.state[s], s, inbox', rxpeer.sending[s], rxconfig.resets),
           ConnCreditKept'
    PROVE  CreditInv'
<1>1. /\ rxconfig \in [auto_release_credit : BOOLEAN, resets : BOOLEAN, max_streams : Nat]
      /\ inbox \in Seq(ToEndpoint) /\ Len(inbox) <= RxMaxFlight /\ RxMaxFlight \in Nat
      /\ rxconn \in Endpoints
  BY RecvAssumption DEF CreditInv, RxTypes
<1>2. inbox' \in Seq(ToEndpoint) /\ Len(inbox') <= RxMaxFlight
  <2>1. CASE inbox' = inbox
    BY <1>1, <2>1
  <2>2. CASE inbox # <<>> /\ inbox' = Tail(inbox)
    BY <1>1, <2>2
  <2> QED BY <2>1, <2>2
<1>3. RxTypes'
  BY <1>2 DEF CreditInv, RxTypes
<1>4. ASSUME NEW t \in RxStreams \ {s}
      PROVE  /\ BooksOf(rxconn', t, rxconfig.auto_release_credit)
             /\ ~rxclosed' => AgreeOn(rxconn', t, inbox', rxpeer)
             /\ OrderOf(rxconn'.state[t], t, inbox', rxpeer.sending[t], rxconfig.resets)
  <2>1. /\ rxconn'.state[t] = rxconn.state[t] /\ rxconn'.recv_window[t] = rxconn.recv_window[t]
        /\ rxconn'.recv_unreleased[t] = rxconn.recv_unreleased[t] /\ Granted(rxconn', t) = Granted(rxconn, t)
    BY DEF Elsewhere
  <2>2. BooksOf(rxconn', t, rxconfig.auto_release_credit)
    BY <2>1 DEF CreditInv, BooksOf, RxLive
  <2>3. Flying(inbox', "DATA", t) = Flying(inbox, "DATA", t)
    <3>1. CASE inbox' = inbox
      BY <3>1
    <3>2. CASE inbox # <<>> /\ inbox' = Tail(inbox) /\ Head(inbox).stream = s
      <4>1. Carried(Head(inbox), "DATA", {t}) = 0
        BY <3>2 DEF Carried
      <4>2. \A g \in ToEndpoint : g.len \in Nat
        BY DEF ToEndpoint
      <4>3. /\ Total(Bytes(inbox, "DATA", {t})) = Carried(Head(inbox), "DATA", {t}) + Total(Bytes(inbox', "DATA", {t}))
            /\ Total(Bytes(inbox', "DATA", {t})) \in Nat
        BY <1>1, <3>2, <4>2, BytesTail
      <4> QED BY <4>1, <4>3 DEF Flying
    <3> QED BY <3>1, <3>2
  <2>4. ~rxclosed' => AgreeOn(rxconn', t, inbox', rxpeer)
    BY <2>1, <2>3 DEF CreditInv, AgreeOn
  <2>5. OrderOf(rxconn.state[t], t, inbox, rxpeer.sending[t], rxconfig.resets) /\ rxconfig.resets \in BOOLEAN
    BY <1>1 DEF CreditInv
  <2>6. OrderOf(rxconn.state[t], t, inbox', rxpeer.sending[t], rxconfig.resets)
    <3>1. CASE inbox' = inbox
      BY <2>5, <3>1
    <3>2. CASE inbox # <<>> /\ inbox' = Tail(inbox) /\ Head(inbox).stream = s
      BY <1>1, <2>5, <3>2, OrderTail
    <3> QED BY <3>1, <3>2
  <2> QED BY <2>1, <2>2, <2>4, <2>6
<1>5. ASSUME NEW t \in RxStreams
      PROVE  /\ BooksOf(rxconn', t, rxconfig.auto_release_credit)
             /\ ~rxclosed' => AgreeOn(rxconn', t, inbox', rxpeer)
             /\ OrderOf(rxconn'.state[t], t, inbox', rxpeer.sending[t], rxconfig.resets)
  BY <1>4
<1> QED BY <1>3, <1>5 DEF CreditInv

\* Connection credit as the sum of what the sender has, what spends it and what returns it.
LEMMA CreditSum == ConnCredit = rxpeer.credit + FlyingData + Granted(rxconn, "conn") + rxconn.conn_pending_release
BY DEF ConnCredit, Granted, Flying

\* It suffices that a step returns what it takes off the way.
LEMMA CreditFollows ==
    ASSUME CreditInv, rxconfig' = rxconfig, rxclosed => rxclosed', rxpeer' = rxpeer, rxconn' \in Endpoints,
           FlyingData' \in Nat,
           ~rxclosed' /\ rxconfig.auto_release_credit /\ ~rxconfig.resets =>
              FlyingData' + Returned(rxconn') >= FlyingData + Returned(rxconn)
    PROVE  ConnCreditKept'
<1>1. rxpeer.credit \in Nat /\ rxconn \in Endpoints /\ ConnInit \in Nat
  BY RecvAssumption DEF CreditInv, RxTypes
<1>2. /\ Granted(rxconn, "conn") \in Nat /\ rxconn.conn_pending_release \in Nat
      /\ Granted(rxconn', "conn") \in Nat /\ rxconn'.conn_pending_release \in Nat
  BY <1>1, GrantedTypes, Fields
<1>3. FlyingData \in Nat
  <2>2. \A g \in ToEndpoint : g.len \in Nat
    BY DEF ToEndpoint
  <2>3. inbox \in Seq(ToEndpoint)
    BY DEF CreditInv, RxTypes
  <2>4. CASE inbox = <<>>
    BY <2>4, BytesNothing DEF FlyingData
  <2>5. CASE inbox # <<>>
    <3>1. Head(inbox) \in ToEndpoint
      BY <2>3, <2>5
    <3> QED BY <2>2, <2>3, <3>1, BytesAppend DEF FlyingData
  <2> QED BY <2>4, <2>5
<1>4. SUFFICES ASSUME ~rxclosed', rxconfig.auto_release_credit, ~rxconfig.resets
               PROVE  ConnCredit' >= ConnInit
  BY DEF ConnCreditKept
<1>5. rxpeer.credit + FlyingData + Granted(rxconn, "conn") + rxconn.conn_pending_release >= ConnInit
  BY <1>4, CreditSum DEF CreditInv, ConnCreditKept
<1>6. ConnCredit' = rxpeer.credit + FlyingData' + Granted(rxconn', "conn") + rxconn'.conn_pending_release
  BY DEF ConnCredit, Granted, Flying
<1>7. FlyingData' + (Granted(rxconn', "conn") + rxconn'.conn_pending_release)
        >= FlyingData + (Granted(rxconn, "conn") + rxconn.conn_pending_release)
  BY <1>4 DEF Returned
<1> QED BY <1>1, <1>2, <1>3, <1>5, <1>6, <1>7

\* What every step on stream s starts from.
LEMMA StreamFacts ==
    ASSUME CreditInv, NEW s \in RxStreams
    PROVE  /\ rxconn \in Endpoints /\ rxconfig.resets \in BOOLEAN /\ rxconfig.auto_release_credit \in BOOLEAN
           /\ rxclosed \in BOOLEAN /\ held \in [RxStreams -> Nat] /\ inbox \in Seq(ToEndpoint)
           /\ rxconn.recv_window[s] \in Nat /\ rxconn.recv_unreleased[s] \in Nat
           /\ Granted(rxconn, s) \in Nat /\ Returned(rxconn) \in Nat
           /\ rxpeer.window[s] \in Nat /\ InitWindow \in Nat
           /\ Flying(inbox, "DATA", s) \in Nat /\ FlyingData \in Nat
           /\ BooksOf(rxconn, s, rxconfig.auto_release_credit)
           /\ ~rxclosed => AgreeOn(rxconn, s, inbox, rxpeer)
           /\ OrderOf(rxconn.state[s], s, inbox, rxpeer.sending[s], rxconfig.resets)
<1>1. rxconn \in Endpoints /\ inbox \in Seq(ToEndpoint) /\ rxclosed \in BOOLEAN /\ held \in [RxStreams -> Nat]
  BY DEF CreditInv, RxTypes
<1>2. rxconfig.resets \in BOOLEAN /\ rxconfig.auto_release_credit \in BOOLEAN /\ rxpeer.window[s] \in Nat
  BY DEF CreditInv, RxTypes
<1>3. Granted(rxconn, s) \in Nat /\ Granted(rxconn, "conn") \in Nat /\ rxconn.conn_pending_release \in Nat
  BY <1>1, GrantedTypes, Fields
<1>4. \A S : Total(Bytes(inbox, "DATA", S)) \in Nat
  <2>1. CASE inbox = <<>>
    BY <2>1, BytesNothing
  <2>2. CASE inbox # <<>>
    <3>1. Head(inbox) \in ToEndpoint /\ \A g \in ToEndpoint : g.len \in Nat
      BY <1>1, <2>2 DEF ToEndpoint
    <3> QED BY <1>1, <3>1, BytesAppend
  <2> QED BY <2>1, <2>2
<1>5. Flying(inbox, "DATA", s) \in Nat /\ FlyingData \in Nat
  BY <1>4 DEF Flying, FlyingData
<1>6. Returned(rxconn) \in Nat
  BY <1>3 DEF Returned
<1>7. rxconn.recv_window[s] \in Nat /\ rxconn.recv_unreleased[s] \in Nat
  BY <1>1, Fields
<1>8. /\ BooksOf(rxconn, s, rxconfig.auto_release_credit)
      /\ ~rxclosed => AgreeOn(rxconn, s, inbox, rxpeer)
      /\ OrderOf(rxconn.state[s], s, inbox, rxpeer.sending[s], rxconfig.resets)
  BY DEF CreditInv
<1>9. InitWindow \in Nat
  BY RecvAssumption
<1> QED BY <1>1, <1>2, <1>3, <1>5, <1>6, <1>7, <1>8, <1>9

\* What taking the first frame does to what is under way.
LEMMA TakenFacts ==
    ASSUME CreditInv, inbox # <<>>, inbox' = Tail(inbox), NEW f, f = Head(inbox)
    PROVE  /\ f \in ToEndpoint /\ f.stream \in RxStreams /\ f.len \in Nat
           /\ Flying(inbox', "DATA", f.stream) \in Nat /\ FlyingData' \in Nat
           /\ f.type # "DATA" => /\ Flying(inbox', "DATA", f.stream) = Flying(inbox, "DATA", f.stream)
                                 /\ FlyingData' = FlyingData
           /\ f.type = "DATA" => /\ Flying(inbox, "DATA", f.stream) = f.len + Flying(inbox', "DATA", f.stream)
                                 /\ FlyingData = f.len + FlyingData'
<1>1. inbox \in Seq(ToEndpoint)
  BY DEF CreditInv, RxTypes
<1>2. f \in ToEndpoint
  BY <1>1
<1>3. f.stream \in RxStreams /\ f.len \in Nat /\ \A g \in ToEndpoint : g.len \in Nat
  BY <1>2 DEF ToEndpoint
<1>4. \A S : /\ Total(Bytes(inbox, "DATA", S)) = Carried(f, "DATA", S) + Total(Bytes(inbox', "DATA", S))
             /\ Total(Bytes(inbox', "DATA", S)) \in Nat
  BY <1>1, <1>3, BytesTail
<1>5. /\ Flying(inbox, "DATA", f.stream) = Carried(f, "DATA", {f.stream}) + Flying(inbox', "DATA", f.stream)
      /\ FlyingData = Carried(f, "DATA", RxStreams) + FlyingData'
      /\ Flying(inbox', "DATA", f.stream) \in Nat /\ FlyingData' \in Nat
  BY <1>4 DEF Flying, FlyingData
<1>6. f.type # "DATA" => Carried(f, "DATA", {f.stream}) = 0 /\ Carried(f, "DATA", RxStreams) = 0
  BY DEF Carried
<1>7. f.type = "DATA" => Carried(f, "DATA", {f.stream}) = f.len /\ Carried(f, "DATA", RxStreams) = f.len
  BY <1>3 DEF Carried
<1> QED BY <1>2, <1>3, <1>5, <1>6, <1>7

LEMMA HeadersStep ==
    ASSUME CreditInv, NEW f, f = Head(inbox), f.type = "HEADERS", inbox # <<>>, ~rxclosed,
           inbox' = Tail(inbox), UNCHANGED <<rxconfig, rxpeer>>, RxOnHeaders(f)
    PROVE  CreditInv'
<1>1. PICK s \in RxStreams : s = f.stream
  BY TakenFacts
<1>2. /\ Flying(inbox', "DATA", s) = Flying(inbox, "DATA", s) /\ FlyingData' = FlyingData /\ FlyingData' \in Nat
      /\ f \in ToEndpoint
  BY <1>1, TakenFacts
<1>3. /\ rxconn \in Endpoints /\ rxconfig.resets \in BOOLEAN /\ InitWindow \in Nat /\ inbox \in Seq(ToEndpoint)
      /\ BooksOf(rxconn, s, rxconfig.auto_release_credit) /\ AgreeOn(rxconn, s, inbox, rxpeer)
      /\ OrderOf(rxconn.state[s], s, inbox, rxpeer.sending[s], rxconfig.resets)
      /\ rxclosed \in BOOLEAN /\ held \in [RxStreams -> Nat]
  BY StreamFacts
<1>4. rxconn.state[s] = "none"
  <2>1. 1 \in DOMAIN inbox /\ inbox[1] = f
    BY <1>3
  <2> QED BY <1>1, <1>3, <2>1 DEF OrderOf
<1>5. rxconn' = [rxconn EXCEPT !.state[s] = "open", !.recv_window[s] = InitWindow] /\ UNCHANGED <<rxclosed, held>>
  BY <1>1 DEF RxOnHeaders
<1>6. /\ rxconn' \in Endpoints /\ rxconn'.state[s] = "open" /\ rxconn'.recv_window[s] = InitWindow
      /\ rxconn'.recv_unreleased = rxconn.recv_unreleased /\ rxconn'.pending_frames = rxconn.pending_frames
      /\ rxconn'.conn_pending_release = rxconn.conn_pending_release
      /\ \A t \in RxStreams \ {s} : rxconn'.state[t] = rxconn.state[t] /\ rxconn'.recv_window[t] = rxconn.recv_window[t]
  BY <1>3, <1>5 DEF Endpoints
<1>7. \A x : Granted(rxconn', x) = Granted(rxconn, x)
  BY <1>6 DEF Granted
<1>8. Elsewhere(rxconn, rxconn', s)
  BY <1>6, <1>7 DEF Elsewhere
<1>9. BooksOf(rxconn', s, rxconfig.auto_release_credit)
  BY <1>3, <1>4, <1>6, ThresholdTypes DEF BooksOf, RxLive
<1>10. AgreeOn(rxconn', s, inbox', rxpeer)
  BY <1>2, <1>3, <1>4, <1>6, <1>7 DEF AgreeOn
<1>11. OrderOf(rxconn'.state[s], s, inbox', rxpeer.sending[s], rxconfig.resets)
  BY <1>1, <1>3, <1>6, OrderTail
<1>12. ConnCreditKept'
  <2>1. Returned(rxconn') = Returned(rxconn) /\ Returned(rxconn) \in Nat /\ FlyingData \in Nat
    BY <1>1, <1>6, <1>7, StreamFacts DEF Returned
  <2> QED BY <1>2, <1>5, <1>6, <2>1, CreditFollows
<1> QED BY <1>1, <1>3, <1>5, <1>6, <1>8, <1>9, <1>10, <1>11, <1>12, EndpointStep

LEMMA RstStep ==
    ASSUME CreditInv, NEW f, f = Head(inbox), f.type = "RST_STREAM", inbox # <<>>, ~rxclosed,
           inbox' = Tail(inbox), UNCHANGED <<rxconfig, rxpeer>>, OnRst(f)
    PROVE  CreditInv'
<1>1. PICK s \in RxStreams : s = f.stream
  BY TakenFacts
<1>2. /\ Flying(inbox', "DATA", s) = Flying(inbox, "DATA", s) /\ FlyingData' = FlyingData /\ FlyingData' \in Nat
      /\ f.end
  BY <1>1, TakenFacts DEF ToEndpoint
<1>3. /\ rxconn \in Endpoints /\ rxconfig.resets \in BOOLEAN /\ InitWindow \in Nat /\ inbox \in Seq(ToEndpoint)
      /\ BooksOf(rxconn, s, rxconfig.auto_release_credit) /\ AgreeOn(rxconn, s, inbox, rxpeer)
      /\ OrderOf(rxconn.state[s], s, inbox, rxpeer.sending[s], rxconfig.resets)
      /\ rxclosed \in BOOLEAN /\ held \in [RxStreams -> Nat]
      /\ Returned(rxconn) \in Nat /\ FlyingData \in Nat /\ rxconn.recv_unreleased[s] \in Nat
  BY StreamFacts
<1>4. UNCHANGED <<rxclosed, held>> /\ rxconn' = IF RxLive(rxconn, s) THEN RxCloseStream(rxconn, s) ELSE rxconn
  BY <1>1 DEF OnRst
<1>5. CASE RxLive(rxconn, s)
  <2>1. /\ rxconn' \in Endpoints /\ rxconn'.state[s] = "closed" /\ Elsewhere(rxconn, rxconn', s)
        /\ rxconn'.recv_window[s] = 0 /\ rxconn'.recv_unreleased[s] = 0
        /\ Returned(rxconn') = Returned(rxconn) + rxconn.recv_unreleased[s]
    BY <1>3, <1>4, <1>5, CloseEffect
  <2>2. BooksOf(rxconn', s, rxconfig.auto_release_credit) /\ AgreeOn(rxconn', s, inbox', rxpeer)
    BY <2>1 DEF BooksOf, AgreeOn, RxLive
  <2>3. OrderOf(rxconn'.state[s], s, inbox', rxpeer.sending[s], rxconfig.resets)
    BY <1>1, <1>2, <1>3, <1>5, OrderTail DEF RxLive
  <2>4. ConnCreditKept'
    BY <1>2, <1>3, <1>4, <2>1, CreditFollows
  <2> QED BY <1>1, <1>3, <1>4, <2>1, <2>2, <2>3, <2>4, EndpointStep
<1>6. CASE ~RxLive(rxconn, s)
  <2>1. rxconn' = rxconn
    BY <1>4, <1>6
  <2>2. Elsewhere(rxconn, rxconn', s)
    BY <2>1 DEF Elsewhere
  <2>3. BooksOf(rxconn', s, rxconfig.auto_release_credit) /\ AgreeOn(rxconn', s, inbox', rxpeer)
    BY <1>2, <1>3, <2>1 DEF AgreeOn
  <2>4. OrderOf(rxconn'.state[s], s, inbox', rxpeer.sending[s], rxconfig.resets)
    BY <1>3, <2>1, OrderTail
  <2>5. ConnCreditKept'
    BY <1>2, <1>3, <1>4, <2>1, CreditFollows
  <2> QED BY <1>1, <1>3, <1>4, <2>1, <2>2, <2>3, <2>4, <2>5, EndpointStep
<1> QED BY <1>5, <1>6

LEMMA DataClosedStep ==
    ASSUME CreditInv, NEW f, f = Head(inbox), f.type = "DATA", inbox # <<>>, ~rxclosed,
           inbox' = Tail(inbox), UNCHANGED <<rxconfig, rxpeer>>, OnDataClosed(f)
    PROVE  CreditInv'
<1>1. PICK s \in RxStreams : s = f.stream
  BY TakenFacts
<1>2. FlyingData' \in Nat
  BY TakenFacts
<1>3. /\ rxconn \in Endpoints /\ rxconfig.resets \in BOOLEAN /\ inbox \in Seq(ToEndpoint)
      /\ BooksOf(rxconn, s, rxconfig.auto_release_credit)
      /\ OrderOf(rxconn.state[s], s, inbox, rxpeer.sending[s], rxconfig.resets)
      /\ rxclosed \in BOOLEAN /\ held \in [RxStreams -> Nat]
  BY StreamFacts
<1>4. rxconn.state[s] = "closed" /\ rxconn' = RxQueue(rxconn, Rst(s)) /\ UNCHANGED <<rxclosed, held>>
  BY <1>1 DEF OnDataClosed
<1>5. /\ rxconn' \in Endpoints /\ rxconn'.state = rxconn.state /\ rxconn'.recv_window = rxconn.recv_window
      /\ rxconn'.recv_unreleased = rxconn.recv_unreleased /\ \A y : Granted(rxconn', y) = Granted(rxconn, y)
  BY <1>3, <1>4, QueueRst
<1>6. Elsewhere(rxconn, rxconn', s)
  BY <1>5 DEF Elsewhere
<1>7. BooksOf(rxconn', s, rxconfig.auto_release_credit) /\ AgreeOn(rxconn', s, inbox', rxpeer)
  BY <1>3, <1>4, <1>5 DEF BooksOf, AgreeOn, RxLive
<1>8. OrderOf(rxconn'.state[s], s, inbox', rxpeer.sending[s], rxconfig.resets)
  BY <1>3, <1>5, OrderTail
<1>9. rxconfig.resets
  <2>1. 1 \in DOMAIN inbox /\ inbox[1] = f
    BY <1>3
  <2> QED BY <1>1, <1>3, <1>4, <2>1 DEF OrderOf
<1>10. ConnCreditKept'
  BY <1>9 DEF ConnCreditKept
<1> QED BY <1>1, <1>3, <1>4, <1>5, <1>6, <1>7, <1>8, <1>10, EndpointStep

LEMMA DataErrorStep ==
    ASSUME CreditInv, NEW f, f = Head(inbox), f.type = "DATA", inbox # <<>>, ~rxclosed,
           inbox' = Tail(inbox), UNCHANGED <<rxconfig, rxpeer>>, OnDataError(f)
    PROVE  CreditInv'
<1>1. PICK s \in RxStreams : s = f.stream
  BY TakenFacts
<1>2. /\ rxconn \in Endpoints /\ rxconfig.resets \in BOOLEAN /\ inbox \in Seq(ToEndpoint)
      /\ BooksOf(rxconn, s, rxconfig.auto_release_credit)
      /\ OrderOf(rxconn.state[s], s, inbox, rxpeer.sending[s], rxconfig.resets)
      /\ held \in [RxStreams -> Nat]
  BY StreamFacts
<1>3. rxclosed' = TRUE /\ UNCHANGED <<rxconn, held>>
  BY DEF OnDataError
<1>4. Elsewhere(rxconn, rxconn', s)
  BY <1>3 DEF Elsewhere
<1>5. OrderOf(rxconn'.state[s], s, inbox', rxpeer.sending[s], rxconfig.resets)
  BY <1>2, <1>3, OrderTail
<1>6. ConnCreditKept'
  BY <1>3 DEF ConnCreditKept
<1> QED BY <1>1, <1>2, <1>3, <1>4, <1>5, <1>6, EndpointStep

\* on_data(): the frame is charged to both windows.
LEMMA ChargeEffect ==
    ASSUME NEW c \in Endpoints, NEW f \in ToEndpoint, NEW s \in RxStreams, s = f.stream, RxLive(c, s),
           c.recv_window[s] >= f.len, c.conn_recv_window >= f.len, NEW d, d = Charge(c, f)
    PROVE  /\ d \in Endpoints /\ Elsewhere(c, d, s) /\ \A x : Granted(d, x) = Granted(c, x)
           /\ d.recv_window[s] = c.recv_window[s] - f.len
           /\ d.recv_unreleased[s] = c.recv_unreleased[s] + f.len
           /\ Returned(d) = Returned(c)
           /\ d.state[s] = (IF ~f.end THEN c.state[s]
                            ELSE IF c.state[s] = "open" THEN "half_closed_remote" ELSE "closed")
<1>1. f.len \in Nat /\ c.recv_window[s] \in Nat /\ c.recv_unreleased[s] \in Nat /\ c.conn_recv_window \in 0..RxMaxWindow
  BY Fields DEF ToEndpoint, Endpoints
<1>2. PICK w \in Nat, u \in Nat, k \in 0..RxMaxWindow :
         w = c.recv_window[s] - f.len /\ u = c.recv_unreleased[s] + f.len /\ k = c.conn_recv_window - f.len
  BY <1>1, RecvAssumption
<1>3. PICK st \in {"none", "open", "half_closed_local", "half_closed_remote", "closed"} :
         st = IF ~f.end THEN c.state[s] ELSE IF c.state[s] = "open" THEN "half_closed_remote" ELSE "closed"
  <2>1. c.state[s] \in {"none", "open", "half_closed_local", "half_closed_remote", "closed"}
    BY DEF Endpoints
  <2> QED BY <2>1
<1>4. d = [c EXCEPT !.recv_window[s] = w, !.recv_unreleased[s] = u, !.conn_recv_window = k, !.state[s] = st]
  BY <1>2, <1>3 DEF Charge
<1>5. /\ d \in Endpoints /\ d.recv_window[s] = w /\ d.recv_unreleased[s] = u /\ d.state[s] = st
      /\ d.pending_frames = c.pending_frames /\ d.conn_pending_release = c.conn_pending_release
      /\ \A t \in RxStreams \ {s} : /\ d.state[t] = c.state[t] /\ d.recv_window[t] = c.recv_window[t]
                                    /\ d.recv_unreleased[t] = c.recv_unreleased[t]
  <2>1. PICK a, b, g : /\ a = [c.recv_window EXCEPT ![s] = w] /\ b = [c.recv_unreleased EXCEPT ![s] = u]
                       /\ g = [c.state EXCEPT ![s] = st]
    OBVIOUS
  <2>2. /\ a \in [RxStreams -> Nat] /\ b \in [RxStreams -> Nat]
        /\ g \in [RxStreams -> {"none", "open", "half_closed_local", "half_closed_remote", "closed"}]
        /\ a[s] = w /\ b[s] = u /\ g[s] = st
        /\ \A t \in RxStreams \ {s} : g[t] = c.state[t] /\ a[t] = c.recv_window[t] /\ b[t] = c.recv_unreleased[t]
    BY <2>1 DEF Endpoints
  <2>3. d = [c EXCEPT !.recv_window = a, !.recv_unreleased = b, !.conn_recv_window = k, !.state = g]
    BY <1>4, <2>1
  <2>4. d \in Endpoints
    BY <2>2, <2>3 DEF Endpoints
  <2>5. /\ d.recv_window = a /\ d.recv_unreleased = b /\ d.state = g
        /\ d.pending_frames = c.pending_frames /\ d.conn_pending_release = c.conn_pending_release
    BY <2>3 DEF Endpoints
  <2> QED BY <2>2, <2>4, <2>5
<1>6. \A x : Granted(d, x) = Granted(c, x)
  BY <1>5 DEF Granted
<1>7. Elsewhere(c, d, s) /\ Returned(d) = Returned(c)
  BY <1>5, <1>6 DEF Elsewhere, Returned
<1> QED BY <1>2, <1>3, <1>5, <1>6, <1>7

\* The sums of the next proof.
LEMMA Balances ==
    /\ \A a, b, n, i \in Nat : a >= n /\ a + b = i => (a - n) + (b + n) = i /\ a - n \in Nat /\ b + n \in Nat
    /\ \A a, g, n, y, w, b, h \in Nat : a = w + (n + y) + g /\ b + g = (a - n) + h => b = w + y + h
    /\ \A a, b, n, u \in Nat : a + (b + n + u) >= (n + a) + b
OBVIOUS

LEMMA DataAcceptStep ==
    ASSUME CreditInv, NEW f, f = Head(inbox), f.type = "DATA", inbox # <<>>, ~rxclosed,
           inbox' = Tail(inbox), UNCHANGED <<rxconfig, rxpeer>>, NEW wrong \in BOOLEAN, OnDataAccept(f, wrong)
    PROVE  CreditInv'
<1>1. PICK s \in RxStreams : s = f.stream
  BY TakenFacts
<1>2. /\ Flying(inbox, "DATA", s) = f.len + Flying(inbox', "DATA", s) /\ FlyingData = f.len + FlyingData'
      /\ FlyingData' \in Nat /\ f \in ToEndpoint /\ f.len \in Nat /\ Flying(inbox', "DATA", s) \in Nat
  BY <1>1, TakenFacts
<1>3. /\ rxconn \in Endpoints /\ rxconfig.resets \in BOOLEAN /\ InitWindow \in Nat /\ inbox \in Seq(ToEndpoint)
      /\ BooksOf(rxconn, s, rxconfig.auto_release_credit) /\ AgreeOn(rxconn, s, inbox, rxpeer)
      /\ OrderOf(rxconn.state[s], s, inbox, rxpeer.sending[s], rxconfig.resets)
      /\ rxclosed \in BOOLEAN /\ held \in [RxStreams -> Nat] /\ rxconfig.auto_release_credit \in BOOLEAN
      /\ Returned(rxconn) \in Nat /\ FlyingData \in Nat /\ rxconn.recv_unreleased[s] \in Nat
      /\ rxconn.recv_window[s] \in Nat /\ Granted(rxconn, s) \in Nat /\ rxpeer.window[s] \in Nat
  BY StreamFacts
<1>4. PICK c : c = Charge(rxconn, f)
  OBVIOUS
<1>5. PICK r : r = IF rxconfig.auto_release_credit THEN ReleaseData(c, s, f.len) ELSE c
  OBVIOUS
<1>6. /\ RxLive(rxconn, s) /\ rxconn.recv_window[s] >= f.len /\ rxconn.conn_recv_window >= f.len
      /\ wrong => f.end /\ rxconfig.resets
      /\ rxconn' = IF wrong THEN ResetStream(c, s) ELSE IF r.state[s] = "closed" THEN RxCloseStream(r, s) ELSE r
      /\ UNCHANGED rxclosed
      /\ held' = IF wrong \/ rxconfig.auto_release_credit THEN held ELSE [held EXCEPT ![s] = @ + f.len]
  BY <1>1, <1>4, <1>5 DEF OnDataAccept
<1>7. /\ c \in Endpoints /\ Elsewhere(rxconn, c, s) /\ \A x : Granted(c, x) = Granted(rxconn, x)
      /\ c.recv_window[s] = rxconn.recv_window[s] - f.len
      /\ c.recv_unreleased[s] = rxconn.recv_unreleased[s] + f.len
      /\ Returned(c) = Returned(rxconn)
      /\ c.state[s] = (IF ~f.end THEN rxconn.state[s]
                       ELSE IF rxconn.state[s] = "open" THEN "half_closed_remote" ELSE "closed")
  <2>1. rxconn \in Endpoints /\ f \in ToEndpoint /\ s = f.stream
    BY <1>1, <1>2, <1>3
  <2>2. RxLive(rxconn, s) /\ rxconn.recv_window[s] >= f.len /\ rxconn.conn_recv_window >= f.len
    BY <1>6
  <2> QED BY <1>4, <2>1, <2>2, ChargeEffect
<1>8. held' \in [RxStreams -> Nat]
  <2>1. held \in [RxStreams -> Nat] /\ s \in RxStreams /\ f.len \in Nat
    BY <1>2, <1>3
  <2>2. held[s] + f.len \in Nat
    BY <2>1
  <2>3. [held EXCEPT ![s] = @ + f.len] \in [RxStreams -> Nat]
    BY <2>1, <2>2
  <2> QED BY <1>6, <2>1, <2>3
<1>9. rxconn.recv_window[s] + rxconn.recv_unreleased[s] = InitWindow
  BY <1>3, <1>6 DEF BooksOf
<1>10. c.recv_window[s] + c.recv_unreleased[s] = InitWindow /\ c.recv_window[s] \in Nat /\ c.recv_unreleased[s] \in Nat
  <2>1. PICK a \in Nat, b \in Nat, n \in Nat :
           a = rxconn.recv_window[s] /\ b = rxconn.recv_unreleased[s] /\ n = f.len /\ a >= n /\ a + b = InitWindow
    BY <1>2, <1>3, <1>6, <1>9
  <2>2. c.recv_window[s] = a - n /\ c.recv_unreleased[s] = b + n
    BY <1>7, <2>1
  <2>3. a >= n /\ a + b = InitWindow /\ InitWindow \in Nat
    BY <1>3, <2>1
  <2>4. (a - n) + (b + n) = InitWindow /\ a - n \in Nat /\ b + n \in Nat
    BY <2>3, Balances
  <2> QED BY <2>2, <2>4
<1>11. /\ r \in Endpoints /\ Elsewhere(c, r, s) /\ r.state = c.state
       /\ r.recv_window[s] + r.recv_unreleased[s] = InitWindow
       /\ r.recv_window[s] + Granted(c, s) = c.recv_window[s] + Granted(r, s)
       /\ rxconfig.auto_release_credit => Returned(r) = Returned(c) + f.len
       /\ rxconfig.auto_release_credit /\ RxLive(c, s) => r.recv_unreleased[s] < StreamThreshold
  <2>1. CASE rxconfig.auto_release_credit
    <3>1. r = ReleaseData(c, s, f.len) /\ c \in Endpoints /\ c.recv_window[s] + c.recv_unreleased[s] <= InitWindow
      BY <1>3, <1>5, <1>7, <1>10, <2>1
    <3>2. /\ r \in Endpoints /\ Elsewhere(c, r, s) /\ r.state = c.state /\ Returned(r) = Returned(c) + f.len
          /\ r.recv_window[s] + r.recv_unreleased[s] = c.recv_window[s] + c.recv_unreleased[s]
          /\ r.recv_window[s] + Granted(c, s) = c.recv_window[s] + Granted(r, s)
          /\ r.recv_unreleased[s] < StreamThreshold
      <4>1. f.len \in Nat
        BY <1>2
      <4> QED BY <3>1, <4>1, ReleaseEffect
    <3> QED BY <1>10, <3>2
  <2>2. CASE ~rxconfig.auto_release_credit
    BY <1>5, <1>7, <1>10, <2>2 DEF Elsewhere
  <2> QED BY <2>1, <2>2
<1>12. /\ r.recv_window[s] \in Nat /\ r.recv_unreleased[s] \in Nat /\ Granted(r, s) \in Nat
       /\ Returned(r) \in Nat
  <2>1. r \in Endpoints
    BY <1>11
  <2> QED BY <2>1, Fields, GrantedTypes DEF Returned
<1>13. rxconn.state[s] # "none" /\ Head(inbox).type # "HEADERS" /\ Head(inbox).stream = s
  BY <1>1, <1>6 DEF RxLive
<1>14. CASE wrong
  <2>1. rxconn' = ResetStream(c, s) /\ f.end /\ rxconfig.resets
    BY <1>6, <1>14
  <2>2. /\ rxconn' \in Endpoints /\ rxconn'.state[s] = "closed" /\ Elsewhere(c, rxconn', s)
        /\ rxconn'.recv_window[s] = 0 /\ rxconn'.recv_unreleased[s] = 0
    BY <1>7, <2>1, ResetEffect
  <2>3. Elsewhere(rxconn, rxconn', s)
    BY <1>7, <2>2 DEF Elsewhere
  <2>4. BooksOf(rxconn', s, rxconfig.auto_release_credit) /\ AgreeOn(rxconn', s, inbox', rxpeer)
    BY <2>2 DEF BooksOf, AgreeOn, RxLive
  <2>5. OrderOf(rxconn'.state[s], s, inbox', rxpeer.sending[s], rxconfig.resets)
    BY <1>3, <1>13, <2>1, OrderTail
  <2>6. ConnCreditKept'
    BY <2>1 DEF ConnCreditKept
  <2> QED BY <1>3, <1>6, <1>8, <1>13, <2>2, <2>3, <2>4, <2>5, <2>6, EndpointStep
<1>15. CASE ~wrong /\ r.state[s] = "closed"
  <2>1. rxconn' = RxCloseStream(r, s) /\ r \in Endpoints
    BY <1>6, <1>11, <1>15
  <2>2. /\ rxconn' \in Endpoints /\ rxconn'.state[s] = "closed" /\ Elsewhere(r, rxconn', s)
        /\ rxconn'.recv_window[s] = 0 /\ rxconn'.recv_unreleased[s] = 0
        /\ Returned(rxconn') = Returned(r) + r.recv_unreleased[s]
    BY <2>1, CloseEffect
  <2>3. Elsewhere(rxconn, rxconn', s)
    BY <1>7, <1>11, <2>2 DEF Elsewhere
  <2>4. BooksOf(rxconn', s, rxconfig.auto_release_credit) /\ AgreeOn(rxconn', s, inbox', rxpeer)
    BY <2>2 DEF BooksOf, AgreeOn, RxLive
  <2>5. f.end
    BY <1>6, <1>7, <1>11, <1>15 DEF RxLive
  <2>6. OrderOf(rxconn'.state[s], s, inbox', rxpeer.sending[s], rxconfig.resets)
    BY <1>3, <1>13, <2>5, OrderTail
  <2>7. ConnCreditKept'
    <3>1. rxconfig.auto_release_credit => FlyingData' + Returned(rxconn') >= FlyingData + Returned(rxconn)
      <4>1. PICK a \in Nat, b \in Nat, n \in Nat, u \in Nat :
               a = FlyingData' /\ b = Returned(rxconn) /\ n = f.len /\ u = r.recv_unreleased[s] /\ FlyingData = n + a
        BY <1>2, <1>3, <1>12
      <4>2. rxconfig.auto_release_credit => Returned(rxconn') = b + n + u
        BY <1>7, <1>11, <2>2, <4>1
      <4>3. a + (b + n + u) >= (n + a) + b
        BY Balances
      <4> QED BY <4>1, <4>2, <4>3
    <3> QED BY <1>2, <1>6, <2>2, <3>1, CreditFollows
  <2> QED BY <1>3, <1>6, <1>8, <1>13, <2>2, <2>3, <2>4, <2>6, <2>7, EndpointStep
<1>16. CASE ~wrong /\ r.state[s] # "closed"
  <2>1. rxconn' = r
    BY <1>6, <1>16
  <2>2. Elsewhere(rxconn, rxconn', s) /\ rxconn' \in Endpoints
    BY <1>7, <1>11, <2>1 DEF Elsewhere
  <2>3. RxLive(c, s) /\ RxLive(r, s)
    BY <1>6, <1>7, <1>11, <1>16 DEF RxLive
  <2>4. BooksOf(rxconn', s, rxconfig.auto_release_credit)
    BY <1>11, <2>1, <2>3 DEF BooksOf
  <2>5. AgreeOn(rxconn', s, inbox', rxpeer)
    <3>1. rxconn.recv_window[s] = rxpeer.window[s] + Flying(inbox, "DATA", s) + Granted(rxconn, s)
      BY <1>3, <1>6 DEF AgreeOn, RxLive
    <3>2. r.recv_window[s] = rxpeer.window[s] + Flying(inbox', "DATA", s) + Granted(r, s)
      <4>1. PICK a \in Nat, g \in Nat, n \in Nat, y \in Nat, w \in Nat :
               /\ a = rxconn.recv_window[s] /\ g = Granted(rxconn, s) /\ n = f.len
               /\ y = Flying(inbox', "DATA", s) /\ w = rxpeer.window[s] /\ a = w + (n + y) + g
        BY <1>2, <1>3, <3>1, ZenonT(60)
      <4>2. PICK b \in Nat, h \in Nat : b = r.recv_window[s] /\ h = Granted(r, s)
        BY <1>12
      <4>3. b + g = (a - n) + h
        BY <1>7, <1>11, <4>1, <4>2
      <4>4. a = w + (n + y) + g
        BY <4>1
      <4>5. b = w + y + h
        BY <4>3, <4>4, Balances
      <4> QED BY <4>1, <4>2, <4>5
    <3> QED BY <2>1, <2>3, <3>2 DEF AgreeOn, RxLive
  <2>6. OrderOf(rxconn'.state[s], s, inbox', rxpeer.sending[s], rxconfig.resets)
    <3>1. CASE f.end
      BY <1>3, <1>13, <3>1, OrderTail
    <3>2. CASE ~f.end
      <4>1. rxconn'.state[s] = rxconn.state[s]
        BY <1>7, <1>11, <2>1, <3>2
      <4> QED BY <1>3, <4>1, OrderTail
    <3> QED BY <3>1, <3>2
  <2>7. ConnCreditKept'
    <3>1. rxconfig.auto_release_credit => FlyingData' + Returned(rxconn') >= FlyingData + Returned(rxconn)
      <4>1. PICK a \in Nat, b \in Nat, n \in Nat :
               a = FlyingData' /\ b = Returned(rxconn) /\ n = f.len /\ FlyingData = n + a
        BY <1>2, <1>3
      <4>2. rxconfig.auto_release_credit => Returned(rxconn') = b + n
        BY <1>7, <1>11, <2>1, <4>1
      <4> QED BY <4>1, <4>2
    <3> QED BY <1>2, <1>6, <2>2, <3>1, CreditFollows
  <2> QED BY <1>3, <1>6, <1>8, <1>13, <2>2, <2>4, <2>5, <2>6, <2>7, EndpointStep
<1> QED BY <1>14, <1>15, <1>16

LEMMA ReceiveStep == ASSUME CreditInv, Receive PROVE CreditInv'
<1>1. PICK f : f = Head(inbox)
  OBVIOUS
<1>2. ~rxclosed /\ inbox # <<>> /\ inbox' = Tail(inbox) /\ UNCHANGED <<rxconfig, rxpeer>>
  BY DEF Receive
<1>3. \/ f.type = "HEADERS" /\ RxOnHeaders(f)
      \/ f.type = "RST_STREAM" /\ OnRst(f)
      \/ f.type = "DATA" /\ (OnDataClosed(f) \/ OnDataError(f) \/ \E wrong \in BOOLEAN : OnDataAccept(f, wrong))
  BY <1>1 DEF Receive
<1>4. CASE f.type = "HEADERS" /\ RxOnHeaders(f)
  BY <1>1, <1>2, <1>4, HeadersStep
<1>5. CASE f.type = "RST_STREAM" /\ OnRst(f)
  BY <1>1, <1>2, <1>5, RstStep
<1>6. CASE f.type = "DATA" /\ OnDataClosed(f)
  BY <1>1, <1>2, <1>6, DataClosedStep
<1>7. CASE f.type = "DATA" /\ OnDataError(f)
  BY <1>1, <1>2, <1>7, DataErrorStep
<1>8. CASE f.type = "DATA" /\ \E wrong \in BOOLEAN : OnDataAccept(f, wrong)
  <2>1. PICK wrong \in BOOLEAN : OnDataAccept(f, wrong)
    BY <1>8
  <2> QED BY <1>1, <1>2, <1>8, <2>1, DataAcceptStep
<1> QED BY <1>3, <1>4, <1>5, <1>6, <1>7, <1>8

LEMMA EndStreamStep == ASSUME CreditInv, NEW s \in RxStreams, EndStream(s) PROVE CreditInv'
<1>1. /\ rxconn \in Endpoints /\ rxconfig.resets \in BOOLEAN /\ InitWindow \in Nat
      /\ BooksOf(rxconn, s, rxconfig.auto_release_credit) /\ (~rxclosed => AgreeOn(rxconn, s, inbox, rxpeer))
      /\ OrderOf(rxconn.state[s], s, inbox, rxpeer.sending[s], rxconfig.resets)
      /\ rxclosed \in BOOLEAN /\ held \in [RxStreams -> Nat]
      /\ Returned(rxconn) \in Nat /\ FlyingData \in Nat /\ rxconn.recv_unreleased[s] \in Nat
  BY StreamFacts
<1>2. UNCHANGED <<rxconfig, rxclosed, held, inbox, rxpeer>> /\ ~rxclosed
  BY DEF EndStream
<1>3. FlyingData' = FlyingData
  BY <1>2 DEF FlyingData
<1>4. CASE rxconn.state[s] = "open" /\ rxconn' = [rxconn EXCEPT !.state[s] = "half_closed_local"]
  <2>1. /\ rxconn' \in Endpoints /\ rxconn'.state[s] = "half_closed_local"
        /\ rxconn'.recv_window = rxconn.recv_window /\ rxconn'.recv_unreleased = rxconn.recv_unreleased
        /\ rxconn'.pending_frames = rxconn.pending_frames
        /\ rxconn'.conn_pending_release = rxconn.conn_pending_release
        /\ \A t \in RxStreams \ {s} : rxconn'.state[t] = rxconn.state[t]
    BY <1>1, <1>4 DEF Endpoints
  <2>2. \A x : Granted(rxconn', x) = Granted(rxconn, x)
    BY <2>1 DEF Granted
  <2>3. Elsewhere(rxconn, rxconn', s) /\ Returned(rxconn') = Returned(rxconn)
    BY <2>1, <2>2 DEF Elsewhere, Returned
  <2>4. BooksOf(rxconn', s, rxconfig.auto_release_credit) /\ AgreeOn(rxconn', s, inbox', rxpeer)
    BY <1>1, <1>2, <1>4, <2>1, <2>2 DEF BooksOf, AgreeOn, RxLive
  <2>5. OrderOf(rxconn'.state[s], s, inbox', rxpeer.sending[s], rxconfig.resets)
    BY <1>1, <1>2, <1>4, <2>1, OrderState
  <2>6. ConnCreditKept'
    BY <1>1, <1>2, <1>3, <2>1, <2>3, CreditFollows
  <2> QED BY <1>1, <1>2, <2>1, <2>3, <2>4, <2>5, <2>6, EndpointStep
<1>5. CASE rxconn.state[s] = "half_closed_remote" /\ rxconn' = RxCloseStream(rxconn, s)
  <2>1. /\ rxconn' \in Endpoints /\ rxconn'.state[s] = "closed" /\ Elsewhere(rxconn, rxconn', s)
        /\ rxconn'.recv_window[s] = 0 /\ rxconn'.recv_unreleased[s] = 0
        /\ Returned(rxconn') = Returned(rxconn) + rxconn.recv_unreleased[s]
    BY <1>1, <1>5, CloseEffect
  <2>2. BooksOf(rxconn', s, rxconfig.auto_release_credit) /\ AgreeOn(rxconn', s, inbox', rxpeer)
    BY <2>1 DEF BooksOf, AgreeOn, RxLive
  <2>3. OrderOf(rxconn'.state[s], s, inbox', rxpeer.sending[s], rxconfig.resets)
    BY <1>1, <1>2, <1>5, <2>1, OrderState
  <2>4. ConnCreditKept'
    BY <1>1, <1>2, <1>3, <2>1, CreditFollows
  <2> QED BY <1>1, <1>2, <2>1, <2>2, <2>3, <2>4, EndpointStep
<1> QED BY <1>4, <1>5 DEF EndStream

LEMMA RxResetStep == ASSUME CreditInv, NEW s \in RxStreams, RxReset(s) PROVE CreditInv'
<1>1. /\ rxconn \in Endpoints /\ rxconfig.resets \in BOOLEAN
      /\ OrderOf(rxconn.state[s], s, inbox, rxpeer.sending[s], rxconfig.resets)
      /\ rxclosed \in BOOLEAN /\ held \in [RxStreams -> Nat]
  BY StreamFacts
<1>2. /\ UNCHANGED <<rxconfig, rxclosed, held, inbox, rxpeer>> /\ rxconfig.resets /\ RxLive(rxconn, s)
      /\ rxconn' = ResetStream(rxconn, s)
  BY DEF RxReset
<1>3. /\ rxconn' \in Endpoints /\ rxconn'.state[s] = "closed" /\ Elsewhere(rxconn, rxconn', s)
      /\ rxconn'.recv_window[s] = 0 /\ rxconn'.recv_unreleased[s] = 0
  BY <1>1, <1>2, ResetEffect
<1>4. BooksOf(rxconn', s, rxconfig.auto_release_credit) /\ AgreeOn(rxconn', s, inbox', rxpeer)
  BY <1>3 DEF BooksOf, AgreeOn, RxLive
<1>5. OrderOf(rxconn'.state[s], s, inbox', rxpeer.sending[s], rxconfig.resets)
  <2>1. rxconn.state[s] # "none" /\ rxconn'.state[s] # "none" /\ inbox' = inbox /\ rxconfig.resets = TRUE
    BY <1>1, <1>2, <1>3 DEF RxLive
  <2>2. OrderOf(rxconn.state[s], s, inbox, rxpeer.sending[s], TRUE)
    BY <1>1, <2>1
  <2>3. OrderOf(rxconn'.state[s], s, inbox, rxpeer.sending[s], TRUE)
    BY <2>1, <2>2, OrderState
  <2> QED BY <2>1, <2>3
<1>6. ConnCreditKept'
  BY <1>2 DEF ConnCreditKept
<1> QED BY <1>1, <1>2, <1>3, <1>4, <1>5, <1>6, EndpointStep

LEMMA AppReleaseStep ==
    ASSUME CreditInv, NEW s \in RxStreams, NEW n \in 1..InitWindow, Release(s, n) PROVE CreditInv'
<1>1. /\ rxconn \in Endpoints /\ rxconfig.resets \in BOOLEAN /\ InitWindow \in Nat
      /\ BooksOf(rxconn, s, rxconfig.auto_release_credit) /\ (~rxclosed => AgreeOn(rxconn, s, inbox, rxpeer))
      /\ OrderOf(rxconn.state[s], s, inbox, rxpeer.sending[s], rxconfig.resets)
      /\ rxclosed \in BOOLEAN /\ held \in [RxStreams -> Nat]
      /\ rxconn.recv_window[s] \in Nat /\ Granted(rxconn, s) \in Nat /\ rxpeer.window[s] \in Nat
      /\ Flying(inbox, "DATA", s) \in Nat
  BY StreamFacts
<1>2. /\ UNCHANGED <<rxconfig, rxclosed, inbox, rxpeer>> /\ ~rxclosed /\ ~rxconfig.auto_release_credit
      /\ n <= held[s] /\ held' = [held EXCEPT ![s] = @ - n] /\ rxconn' = ReleaseData(rxconn, s, n)
  BY DEF Release
<1>3. held' \in [RxStreams -> Nat] /\ n \in Nat
  BY <1>1, <1>2
<1>4. rxconn.recv_window[s] + rxconn.recv_unreleased[s] <= InitWindow
  BY <1>1 DEF BooksOf
<1>5. /\ rxconn' \in Endpoints /\ Elsewhere(rxconn, rxconn', s) /\ rxconn'.state = rxconn.state
      /\ rxconn'.recv_window[s] + rxconn'.recv_unreleased[s] = rxconn.recv_window[s] + rxconn.recv_unreleased[s]
      /\ rxconn'.recv_window[s] + Granted(rxconn, s) = rxconn.recv_window[s] + Granted(rxconn', s)
      /\ rxconn.recv_unreleased[s] = 0 => /\ rxconn'.recv_unreleased[s] = 0
                                         /\ rxconn'.recv_window[s] = rxconn.recv_window[s]
  <2>1. rxconn \in Endpoints
    BY <1>1
  <2> QED BY <1>2, <1>3, <1>4, <2>1, ReleaseEffect
<1>6. BooksOf(rxconn', s, rxconfig.auto_release_credit)
  BY <1>1, <1>2, <1>5 DEF BooksOf, RxLive
<1>7. AgreeOn(rxconn', s, inbox', rxpeer)
  <2>1. PICK a \in Nat, g \in Nat, w \in Nat, y \in Nat, b \in Nat, h \in Nat :
           /\ a = rxconn.recv_window[s] /\ g = Granted(rxconn, s) /\ w = rxpeer.window[s]
           /\ y = Flying(inbox, "DATA", s) /\ b = rxconn'.recv_window[s] /\ h = Granted(rxconn', s)
    <3>1. rxconn'.recv_window[s] \in Nat /\ Granted(rxconn', s) \in Nat
      BY <1>5, Fields, GrantedTypes
    <3> QED BY <1>1, <3>1
  <2>2. b + g = a + h
    BY <1>5, <2>1
  <2>3. rxconn.state[s] # "closed" => IF rxconn.state[s] = "none" THEN InitWindow = w + y + g ELSE a = w + y + g
    BY <1>1, <1>2, <2>1 DEF AgreeOn
  <2>4. a = w + y + g => b = w + y + h
    BY <2>2
  <2>5. rxconn.state[s] = "none" => b = a
    BY <1>1, <1>5, <2>1 DEF BooksOf, RxLive
  <2>6. b = a => h = g
    BY <2>2
  <2> QED BY <1>2, <1>5, <2>1, <2>3, <2>4, <2>5, <2>6 DEF AgreeOn
<1>8. OrderOf(rxconn'.state[s], s, inbox', rxpeer.sending[s], rxconfig.resets)
  BY <1>1, <1>2, <1>5
<1>9. ConnCreditKept'
  BY <1>2 DEF ConnCreditKept
<1> QED BY <1>1, <1>2, <1>3, <1>5, <1>6, <1>7, <1>8, <1>9, EndpointStep

Senders == [credit : Nat, window : [RxStreams -> Nat], sending : [RxStreams -> {"idle", "body", "ended", "reset"}]]

\* The sender adds a frame and pays for it.
LEMMA SenderStep ==
    ASSUME CreditInv, NEW s \in RxStreams, NEW f \in ToEndpoint, f.stream = s, Len(inbox) < RxMaxFlight,
           inbox' = Append(inbox, f), UNCHANGED <<rxconfig, rxconn, rxclosed, held>>, rxpeer' \in Senders,
           \A t \in RxStreams \ {s} : rxpeer'.window[t] = rxpeer.window[t] /\ rxpeer'.sending[t] = rxpeer.sending[t],
           rxpeer'.window[s] + Carried(f, "DATA", {s}) = rxpeer.window[s],
           rxpeer'.credit + Carried(f, "DATA", RxStreams) = rxpeer.credit,
           \/ f.type = "HEADERS" /\ ~f.end /\ rxpeer.sending[s] = "idle" /\ rxpeer'.sending[s] = "body"
           \/ /\ f.type = "DATA" /\ rxpeer.sending[s] = "body" /\ rxpeer'.sending[s] # "idle"
              /\ f.end => rxpeer'.sending[s] # "body"
           \/ f.type = "RST_STREAM" /\ rxpeer'.sending[s] = "reset"
    PROVE  CreditInv'
<1>1. inbox \in Seq(ToEndpoint) /\ RxMaxFlight \in Nat /\ rxconn \in Endpoints /\ rxconfig.resets \in BOOLEAN
  BY RecvAssumption DEF CreditInv, RxTypes
<1>2. inbox' \in Seq(ToEndpoint) /\ Len(inbox') <= RxMaxFlight
  BY <1>1
<1>3. RxTypes'
  BY <1>2 DEF CreditInv, RxTypes, Senders
<1>4. \A g \in ToEndpoint : g.len \in Nat
  BY DEF ToEndpoint
<1>5. \A S : /\ Total(Bytes(inbox', "DATA", S)) = Total(Bytes(inbox, "DATA", S)) + Carried(f, "DATA", S)
             /\ Total(Bytes(inbox, "DATA", S)) \in Nat
  BY <1>1, <1>4, BytesAppend
<1>6. \A S : Carried(f, "DATA", S) \in Nat
  BY <1>4 DEF Carried
<1>7. ConnCreditKept'
  <2>1. PICK a \in Nat, b \in Nat, y \in Nat, n \in Nat :
           a = rxpeer.credit /\ b = rxpeer'.credit /\ y = FlyingData /\ n = Carried(f, "DATA", RxStreams)
    BY <1>5, <1>6 DEF CreditInv, RxTypes, Senders, FlyingData
  <2>2. FlyingData' = y + n /\ a = b + n
    BY <1>5, <2>1 DEF FlyingData
  <2>3. PICK g \in Nat, k \in Nat : g = Granted(rxconn, "conn") /\ k = rxconn.conn_pending_release
    BY <1>1, GrantedTypes, Fields
  <2>4. ConnCredit = a + y + g + k
    BY <2>1, <2>3, CreditSum
  <2>5. ConnCredit' = b + (y + n) + g + k
    BY <2>1, <2>2, <2>3 DEF ConnCredit, Granted, Flying
  <2>6. b + (y + n) + g + k = a + y + g + k
    BY <2>2
  <2> QED BY <2>4, <2>5, <2>6 DEF CreditInv, ConnCreditKept
<1>8. ASSUME NEW t \in RxStreams PROVE BooksOf(rxconn', t, rxconfig'.auto_release_credit)
  BY DEF CreditInv
<1>9. ASSUME NEW t \in RxStreams, ~rxclosed' PROVE AgreeOn(rxconn', t, inbox', rxpeer')
  <2>1. AgreeOn(rxconn, t, inbox, rxpeer)
    BY <1>9 DEF CreditInv
  <2>2. PICK n \in Nat, y \in Nat, a \in Nat, b \in Nat, g \in Nat :
           /\ n = Carried(f, "DATA", {t}) /\ y = Flying(inbox, "DATA", t) /\ a = rxpeer.window[t]
           /\ b = rxpeer'.window[t] /\ g = Granted(rxconn, t)
    BY <1>1, <1>5, <1>6, GrantedTypes DEF CreditInv, RxTypes, Senders, Flying
  <2>3. Flying(inbox', "DATA", t) = y + n
    BY <1>5, <2>2 DEF Flying
  <2>4. b + n = a
    <3>1. CASE t = s
      BY <2>2, <3>1
    <3>2. CASE t # s
      <4>1. n = 0 /\ b = a
        BY <2>2, <3>2 DEF Carried
      <4> QED BY <4>1
    <3> QED BY <3>1, <3>2
  <2>5. b + (y + n) + g = a + y + g
    BY <2>4
  <2> QED BY <2>1, <2>2, <2>3, <2>5 DEF AgreeOn
<1>10. ASSUME NEW t \in RxStreams
       PROVE  OrderOf(rxconn'.state[t], t, inbox', rxpeer'.sending[t], rxconfig'.resets)
  <2>1. OrderOf(rxconn.state[t], t, inbox, rxpeer.sending[t], rxconfig.resets)
    BY DEF CreditInv
  <2>2. CASE t = s
    BY <1>1, <2>1, <2>2, OrderAppend
  <2>3. CASE t # s
    BY <1>1, <2>1, <2>3, OrderAppend
  <2> QED BY <2>2, <2>3
<1> QED BY <1>3, <1>7, <1>8, <1>9, <1>10 DEF CreditInv

LEMMA PeerOpenStep == ASSUME CreditInv, NEW s \in RxStreams, PeerOpen(s) PROVE CreditInv'
<1>1. rxpeer \in Senders
  BY DEF CreditInv, RxTypes, Senders
<1>2. PICK f \in ToEndpoint : f = Headers(s)
  BY DEF Headers, ToEndpoint
<1>3. f.stream = s /\ f.type = "HEADERS" /\ ~f.end /\ \A S : Carried(f, "DATA", S) = 0
  BY <1>2 DEF Headers, Carried
<1>4. /\ rxpeer' \in Senders /\ rxpeer'.window = rxpeer.window /\ rxpeer'.credit = rxpeer.credit
      /\ rxpeer'.sending[s] = "body" /\ rxpeer.sending[s] = "idle"
      /\ \A t \in RxStreams \ {s} : rxpeer'.sending[t] = rxpeer.sending[t]
  BY <1>1 DEF PeerOpen, Senders
<1>5. /\ inbox' = Append(inbox, f) /\ Len(inbox) < RxMaxFlight /\ UNCHANGED <<rxconfig, rxconn, rxclosed, held>>
  BY <1>2 DEF PeerOpen
<1>6. /\ rxpeer'.window[s] + Carried(f, "DATA", {s}) = rxpeer.window[s]
      /\ rxpeer'.credit + Carried(f, "DATA", RxStreams) = rxpeer.credit
  <2>1. rxpeer.window[s] \in Nat /\ rxpeer.credit \in Nat
    BY <1>1 DEF Senders
  <2> QED BY <1>3, <1>4, <2>1
<1> QED BY <1>3, <1>4, <1>5, <1>6, SenderStep

LEMMA PeerRstStep == ASSUME CreditInv, NEW s \in RxStreams, PeerRst(s) PROVE CreditInv'
<1>1. rxpeer \in Senders
  BY DEF CreditInv, RxTypes, Senders
<1>2. PICK f \in ToEndpoint : f = Rst(s)
  BY DEF Rst, ToEndpoint
<1>3. f.stream = s /\ f.type = "RST_STREAM" /\ \A S : Carried(f, "DATA", S) = 0
  BY <1>2 DEF Rst, Carried
<1>4. /\ rxpeer' \in Senders /\ rxpeer'.window = rxpeer.window /\ rxpeer'.credit = rxpeer.credit
      /\ rxpeer'.sending[s] = "reset"
      /\ \A t \in RxStreams \ {s} : rxpeer'.sending[t] = rxpeer.sending[t]
  BY <1>1 DEF PeerRst, Senders
<1>5. /\ inbox' = Append(inbox, f) /\ Len(inbox) < RxMaxFlight /\ UNCHANGED <<rxconfig, rxconn, rxclosed, held>>
  BY <1>2 DEF PeerRst
<1>6. /\ rxpeer'.window[s] + Carried(f, "DATA", {s}) = rxpeer.window[s]
      /\ rxpeer'.credit + Carried(f, "DATA", RxStreams) = rxpeer.credit
  <2>1. rxpeer.window[s] \in Nat /\ rxpeer.credit \in Nat
    BY <1>1 DEF Senders
  <2> QED BY <1>3, <1>4, <2>1
<1> QED BY <1>3, <1>4, <1>5, <1>6, SenderStep

LEMMA PeerDataStep ==
    ASSUME CreditInv, NEW s \in RxStreams, NEW n \in DataSizes \cup {0}, NEW e \in BOOLEAN, PeerData(s, n, e)
    PROVE  CreditInv'
<1>1. rxpeer \in Senders /\ n \in Nat
  BY RecvAssumption DEF CreditInv, RxTypes, Senders
<1>2. PICK f \in ToEndpoint : f = Data(s, n, e)
  BY <1>1 DEF Data, ToEndpoint
<1>3. /\ f.stream = s /\ f.type = "DATA" /\ f.end = e
      /\ Carried(f, "DATA", {s}) = n /\ Carried(f, "DATA", RxStreams) = n
  BY <1>2 DEF Data, Carried
<1>4. PICK a \in Nat, b \in Nat : a = rxpeer.window[s] - n /\ b = rxpeer.credit - n
  <2>1. rxpeer.window[s] \in Nat /\ rxpeer.credit \in Nat
    BY <1>1 DEF Senders
  <2> QED BY <1>1, <2>1 DEF PeerData
<1>5. PICK q : q = IF e THEN "ended" ELSE "body"
  OBVIOUS
<1>6. rxpeer' = [rxpeer EXCEPT !.window[s] = a, !.credit = b, !.sending[s] = q] /\ rxpeer.sending[s] = "body"
  BY <1>4, <1>5 DEF PeerData
<1>7. /\ rxpeer' \in Senders /\ rxpeer'.window[s] = a /\ rxpeer'.credit = b /\ rxpeer'.sending[s] = q
      /\ \A t \in RxStreams \ {s} : rxpeer'.window[t] = rxpeer.window[t] /\ rxpeer'.sending[t] = rxpeer.sending[t]
  BY <1>1, <1>5, <1>6 DEF Senders
<1>8. /\ inbox' = Append(inbox, f) /\ Len(inbox) < RxMaxFlight /\ UNCHANGED <<rxconfig, rxconn, rxclosed, held>>
  BY <1>2 DEF PeerData
<1>9. /\ rxpeer'.window[s] + Carried(f, "DATA", {s}) = rxpeer.window[s]
      /\ rxpeer'.credit + Carried(f, "DATA", RxStreams) = rxpeer.credit
  <2>1. rxpeer.window[s] \in Nat /\ rxpeer.credit \in Nat
    BY <1>1 DEF Senders
  <2> QED BY <1>1, <1>3, <1>4, <1>7, <2>1
<1>10. f.end => rxpeer'.sending[s] # "body"
  BY <1>3, <1>5, <1>7
<1>11. rxpeer'.sending[s] # "idle"
  BY <1>5, <1>7
<1> QED BY <1>3, <1>6, <1>7, <1>8, <1>9, <1>10, <1>11, SenderStep

\* The sender reads a WINDOW_UPDATE or an RST_STREAM.
LEMMA PeerReceiveStep == ASSUME CreditInv, PeerReceive PROVE CreditInv'
<1>1. /\ rxpeer \in Senders /\ rxconn \in Endpoints /\ inbox \in Seq(ToEndpoint) /\ rxconfig.resets \in BOOLEAN
  BY DEF CreditInv, RxTypes, Senders
<1>2. /\ rxconn.pending_frames # <<>> /\ rxconn' = [rxconn EXCEPT !.pending_frames = Tail(@)]
      /\ UNCHANGED <<rxconfig, rxclosed, held, inbox>>
  BY DEF PeerReceive
<1>3. rxconn.pending_frames \in Seq(ToSender) /\ \A g \in ToSender : g.len \in Nat
  BY <1>1 DEF Endpoints, ToSender
<1>4. PICK f \in ToSender : f = Head(rxconn.pending_frames)
  BY <1>2, <1>3
<1>5. PICK q \in Seq(ToSender) : q = Tail(rxconn.pending_frames)
  BY <1>2, <1>3, HeadTailProperties
<1>6. /\ rxconn' \in Endpoints /\ rxconn'.state = rxconn.state /\ rxconn'.recv_window = rxconn.recv_window
      /\ rxconn'.recv_unreleased = rxconn.recv_unreleased
      /\ rxconn'.conn_pending_release = rxconn.conn_pending_release /\ rxconn'.pending_frames = q
  <2>1. rxconn' = [rxconn EXCEPT !.pending_frames = q]
    BY <1>2, <1>5
  <2> QED BY <1>1, <2>1 DEF Endpoints
<1>7. \A x : Granted(rxconn, x) = Carried(f, "WINDOW_UPDATE", {x}) + Granted(rxconn', x) /\ Granted(rxconn', x) \in Nat
  BY <1>2, <1>3, <1>4, <1>5, <1>6, BytesTail DEF Granted
<1>8. f.len \in Nat /\ f.stream \in RxStreams \cup {"conn"} /\ f.type \in {"WINDOW_UPDATE", "RST_STREAM"}
  BY DEF ToSender
<1>9. rxpeer' = IF f.type = "RST_STREAM" THEN [rxpeer EXCEPT !.sending[f.stream] = "reset"]
                ELSE IF f.stream = "conn" THEN [rxpeer EXCEPT !.credit = @ + f.len]
                ELSE [rxpeer EXCEPT !.window[f.stream] = @ + f.len]
  BY <1>4 DEF PeerReceive
<1>10. /\ rxpeer' \in Senders
       /\ rxpeer'.credit = rxpeer.credit + Carried(f, "WINDOW_UPDATE", {"conn"})
       /\ \A t \in RxStreams : /\ rxpeer'.window[t] = rxpeer.window[t] + Carried(f, "WINDOW_UPDATE", {t})
                               /\ rxpeer'.sending[t] = rxpeer.sending[t] \/ rxpeer'.sending[t] = "reset"
  <2>1. rxpeer.credit \in Nat /\ \A t \in RxStreams : rxpeer.window[t] \in Nat
    BY <1>1 DEF Senders
  <2>2. "conn" \notin RxStreams
    BY RecvAssumption
  <2>3. CASE f.type = "RST_STREAM"
    <3>1. rxpeer' = [rxpeer EXCEPT !.sending[f.stream] = "reset"]
      BY <1>9, <2>3
    <3>2. /\ rxpeer' \in Senders /\ rxpeer'.credit = rxpeer.credit /\ rxpeer'.window = rxpeer.window
          /\ \A t \in RxStreams : rxpeer'.sending[t] = rxpeer.sending[t] \/ rxpeer'.sending[t] = "reset"
      BY <1>1, <3>1 DEF Senders
    <3>3. \A x : Carried(f, "WINDOW_UPDATE", {x}) = 0
      BY <2>3 DEF Carried
    <3>4. rxpeer'.credit = rxpeer.credit + 0 /\ \A t \in RxStreams : rxpeer'.window[t] = rxpeer.window[t] + 0
      BY <2>1, <3>2
    <3>5. ASSUME NEW t \in RxStreams PROVE rxpeer'.window[t] = rxpeer.window[t] + Carried(f, "WINDOW_UPDATE", {t})
      <4>1. Carried(f, "WINDOW_UPDATE", {t}) = 0
        BY <3>3
      <4> QED BY <3>4, <4>1
    <3>6. rxpeer'.credit = rxpeer.credit + Carried(f, "WINDOW_UPDATE", {"conn"})
      <4>1. Carried(f, "WINDOW_UPDATE", {"conn"}) = 0
        BY <3>3
      <4> QED BY <3>4, <4>1
    <3> QED BY <3>2, <3>5, <3>6
  <2>4. CASE f.type # "RST_STREAM" /\ f.stream = "conn"
    <3>1. PICK k \in Nat : k = rxpeer.credit + f.len
      BY <1>8, <2>1
    <3>2. rxpeer' = [rxpeer EXCEPT !.credit = k]
      BY <1>9, <2>4, <3>1
    <3>3. /\ rxpeer' \in Senders /\ rxpeer'.credit = k /\ rxpeer'.window = rxpeer.window
          /\ rxpeer'.sending = rxpeer.sending
      BY <1>1, <3>2 DEF Senders
    <3>4. Carried(f, "WINDOW_UPDATE", {"conn"}) = f.len
      BY <1>8, <2>4 DEF Carried
    <3>5. \A t \in RxStreams : Carried(f, "WINDOW_UPDATE", {t}) = 0
      BY <2>2, <2>4 DEF Carried
    <3> QED BY <2>1, <3>1, <3>3, <3>4, <3>5
  <2>5. CASE f.type # "RST_STREAM" /\ f.stream # "conn"
    <3>1. PICK s \in RxStreams : s = f.stream
      BY <1>8, <2>5
    <3>2. PICK k \in Nat : k = rxpeer.window[s] + f.len
      BY <1>8, <2>1
    <3>3. rxpeer' = [rxpeer EXCEPT !.window[s] = k]
      BY <1>9, <2>5, <3>1, <3>2
    <3>4. /\ rxpeer' \in Senders /\ rxpeer'.credit = rxpeer.credit /\ rxpeer'.window[s] = k
          /\ rxpeer'.sending = rxpeer.sending
          /\ \A t \in RxStreams \ {s} : rxpeer'.window[t] = rxpeer.window[t]
      BY <1>1, <3>3 DEF Senders
    <3>5. Carried(f, "WINDOW_UPDATE", {"conn"}) = 0 /\ Carried(f, "WINDOW_UPDATE", {s}) = f.len
      BY <1>8, <2>2, <2>5, <3>1 DEF Carried
    <3>6. \A t \in RxStreams \ {s} : Carried(f, "WINDOW_UPDATE", {t}) = 0
      BY <3>1 DEF Carried
    <3>7. rxpeer'.credit = rxpeer.credit + Carried(f, "WINDOW_UPDATE", {"conn"})
      BY <2>1, <3>4, <3>5
    <3>8. ASSUME NEW t \in RxStreams PROVE rxpeer'.window[t] = rxpeer.window[t] + Carried(f, "WINDOW_UPDATE", {t})
      <4>1. CASE t = s
        BY <3>2, <3>4, <3>5, <4>1
      <4>2. CASE t # s
        <5>1. Carried(f, "WINDOW_UPDATE", {t}) = 0 /\ rxpeer'.window[t] = rxpeer.window[t] /\ rxpeer.window[t] \in Nat
          BY <2>1, <3>4, <3>6, <4>2
        <5> QED BY <5>1
      <4> QED BY <4>1, <4>2
    <3> QED BY <3>4, <3>7, <3>8
  <2> QED BY <2>3, <2>4, <2>5
<1>11. RxTypes'
  BY <1>2, <1>6, <1>10 DEF CreditInv, RxTypes, Senders
<1>12. \A x : Carried(f, "WINDOW_UPDATE", {x}) \in Nat
  BY <1>8 DEF Carried
<1>13. ConnCreditKept'
  <2>1. PICK a \in Nat, n \in Nat, g \in Nat, k \in Nat :
           /\ a = rxpeer.credit /\ n = Carried(f, "WINDOW_UPDATE", {"conn"}) /\ g = Granted(rxconn', "conn")
           /\ k = rxconn.conn_pending_release
    BY <1>1, <1>7, <1>12, Fields DEF Senders
  <2>2. PICK y \in Nat : y = FlyingData
    <3>1. CASE RxStreams = {}
      <4>1. ToEndpoint = {}
        BY <3>1 DEF ToEndpoint
      <4>2. inbox = <<>>
        BY <1>1, <4>1
      <4> QED BY <4>2, BytesNothing DEF FlyingData
    <3>2. CASE RxStreams # {}
      BY <3>2, StreamFacts
    <3> QED BY <3>1, <3>2
  <2>3. ConnCredit = a + y + (n + g) + k
    BY <1>7, <2>1, <2>2, CreditSum
  <2>4. ConnCredit' = (a + n) + y + g + k
    <3>1. FlyingData' = y
      BY <1>2, <2>2 DEF FlyingData
    <3>2. ConnCredit' = rxpeer'.credit + FlyingData' + Granted(rxconn', "conn") + rxconn'.conn_pending_release
      BY DEF ConnCredit, Granted, Flying
    <3> QED BY <1>6, <1>10, <2>1, <3>1, <3>2
  <2>5. (a + n) + y + g + k = a + y + (n + g) + k
    OBVIOUS
  <2> QED BY <1>2, <2>3, <2>4, <2>5 DEF CreditInv, ConnCreditKept
<1>14. ASSUME NEW t \in RxStreams
       PROVE  /\ BooksOf(rxconn', t, rxconfig'.auto_release_credit)
              /\ ~rxclosed' => AgreeOn(rxconn', t, inbox', rxpeer')
              /\ OrderOf(rxconn'.state[t], t, inbox', rxpeer'.sending[t], rxconfig'.resets)
  <2>1. /\ BooksOf(rxconn, t, rxconfig.auto_release_credit) /\ (~rxclosed => AgreeOn(rxconn, t, inbox, rxpeer))
        /\ OrderOf(rxconn.state[t], t, inbox, rxpeer.sending[t], rxconfig.resets)
        /\ rxpeer.window[t] \in Nat /\ Flying(inbox, "DATA", t) \in Nat
    BY StreamFacts
  <2>2. BooksOf(rxconn', t, rxconfig'.auto_release_credit)
    BY <1>2, <1>6, <2>1 DEF BooksOf, RxLive
  <2>3. ~rxclosed' => AgreeOn(rxconn', t, inbox', rxpeer')
    <3>1. PICK a \in Nat, n \in Nat, g \in Nat, y \in Nat :
             /\ a = rxpeer.window[t] /\ n = Carried(f, "WINDOW_UPDATE", {t}) /\ g = Granted(rxconn', t)
             /\ y = Flying(inbox, "DATA", t)
      BY <1>7, <1>12, <2>1
    <3>2. Granted(rxconn, t) = n + g /\ rxpeer'.window[t] = a + n
      BY <1>7, <1>10, <3>1
    <3>3. a + y + (n + g) = (a + n) + y + g
      OBVIOUS
    <3> QED BY <1>2, <1>6, <2>1, <3>1, <3>2, <3>3 DEF AgreeOn
  <2>4. OrderOf(rxconn'.state[t], t, inbox', rxpeer'.sending[t], rxconfig'.resets)
    <3>1. CASE rxpeer'.sending[t] = rxpeer.sending[t]
      BY <1>2, <1>6, <2>1, <3>1
    <3>2. CASE rxpeer'.sending[t] = "reset"
      <4>1. OrderOf(rxconn.state[t], t, inbox, "reset", rxconfig.resets)
        BY <2>1 DEF OrderOf
      <4> QED BY <1>2, <1>6, <3>2, <4>1
    <3> QED BY <1>10, <3>1, <3>2
  <2> QED BY <2>2, <2>3, <2>4
<1> QED BY <1>11, <1>13, <1>14 DEF CreditInv

\* The books of the receiving half (on_data, release_data, close_stream): for all streams,
\* windows, thresholds and frame sizes both ends agree on every stream's window, the
\* automatic release keeps half of it open, and no connection credit is lost as long as
\* the endpoint resets nothing.
THEOREM CreditStaysKept == RxSpec => []CreditKept
<1>1. CreditInv /\ [RxNext]_rxvars => CreditInv'
  <2> SUFFICES ASSUME CreditInv, [RxNext]_rxvars PROVE CreditInv'
    OBVIOUS
  <2>1. CASE Receive
    BY <2>1, ReceiveStep
  <2>2. CASE PeerReceive
    BY <2>2, PeerReceiveStep
  <2>3. ASSUME NEW s \in RxStreams, EndStream(s) \/ RxReset(s) \/ PeerOpen(s) \/ PeerRst(s) PROVE CreditInv'
    BY <2>3, EndStreamStep, RxResetStep, PeerOpenStep, PeerRstStep
  <2>4. ASSUME NEW s \in RxStreams, NEW n \in 1..InitWindow, Release(s, n) PROVE CreditInv'
    BY <2>4, AppReleaseStep
  <2>5. ASSUME NEW s \in RxStreams, NEW n \in DataSizes \cup {0}, NEW e \in BOOLEAN, PeerData(s, n, e)
        PROVE  CreditInv'
    BY <2>5, PeerDataStep
  <2>6. CASE UNCHANGED rxvars
    BY <2>6 DEF rxvars, CreditInv, RxTypes, ConnCreditKept, ConnCredit, FlyingData
  <2> QED BY <2>1, <2>2, <2>3, <2>4, <2>5, <2>6 DEF RxNext
<1> QED BY <1>1, CreditStart, CreditEnough, PTL DEF RxSpec
=============================================================================
