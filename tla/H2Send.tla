------------------------------- MODULE H2Send -------------------------------
(***************************************************************************)
(* The sending half of a server's courierust_h2::Connection: response      *)
(* bodies queued per stream, the WUCS scheduler that picks the next DATA   *)
(* frame, and the two flow-control windows that hold frames back.          *)
(*                                                                         *)
(* The connection is driven by one thread, so every call and every inbound *)
(* frame is one step, except flush_outbound(): its frame loop is one step  *)
(* per iteration (`budget` counts the iterations left) and nothing else    *)
(* happens until the loop ends.  Sizes are in units of bytes.              *)
(***************************************************************************)
EXTENDS Integers, Sequences, FiniteSets, SequencesExt, FiniteSetsExt

CONSTANTS Streams,       \* stream ids, 1..n in the order they were opened
          Urgencies,     \* 0..7 in the code; 0 is served first
          Quantum,       \* Bucket::quantum, bytes per round
          None,          \* no stream
          Priorities,    \* priorities requests may carry, a subset of Priority
          Updates,       \* priorities a PRIORITY_UPDATE may carry
          InitWindows,   \* values of SETTINGS_INITIAL_WINDOW_SIZE the peer may set
          FrameSizes,    \* values of SETTINGS_MAX_FRAME_SIZE the peer may set
          ConnWindow,    \* initial connection window
          MaxWindow,     \* MAX_FLOW_WINDOW
          Increments,    \* WINDOW_UPDATE increments the peer may send
          Chunks,        \* chunks the application may queue; trailers are an empty
                         \* chunk that ends the stream
          MaxSendBuffer, \* Config::max_send_buffer
          MaxChunks,     \* bound: chunks queued on one stream
          MaxEntries,    \* bound: scheduler entries of one bucket while queueing
          FlushFrames    \* frames per flush, 64 in the code

Priority == [urgency : Urgencies, incremental : BOOLEAN]
Chunk == [len : Nat, end_stream : BOOLEAN]

ASSUME SchedulerAssumption ==
    /\ Urgencies \subseteq Nat /\ Urgencies # {}
    /\ Quantum \in Nat \ {0}
    /\ None \notin Streams

ASSUME SendAssumption ==
    /\ Streams \subseteq Nat /\ IsFiniteSet(Streams)
    /\ Priorities \subseteq Priority /\ Priorities # {} /\ Updates \subseteq Priorities
    /\ InitWindows \subseteq 0..MaxWindow /\ InitWindows # {}
    /\ FrameSizes \subseteq Nat \ {0} /\ FrameSizes # {}
    /\ MaxWindow \in Nat /\ ConnWindow \in 0..MaxWindow
    /\ Increments \subseteq Nat \ {0} /\ Chunks \subseteq Chunk
    /\ MaxSendBuffer \in Nat /\ MaxChunks \in Nat /\ MaxEntries \in Nat /\ FlushFrames \in Nat \ {0}

VARIABLES state,       \* Stream::state; "none": not opened yet, "closed": record removed
          send_window, \* Stream::send_window
          buffered,    \* Stream::send_buffered
          send_done,   \* streams with Stream::send_done
          priority,    \* Stream::priority
          queue,       \* send_queue: chunks waiting for credit
          conn_window, \* conn_send_window
          buckets,     \* the scheduler
          scheduled,   \* Connection::scheduled
          peer,        \* the peer settings that matter here
          closed,      \* Connection::closed
          budget,      \* iterations left in emit_data_frames, 0 outside it
          served       \* the stream whose frame was emitted by the last step

streamVars == <<state, send_window, buffered, send_done, priority, queue>>
schedVars  == <<buckets, scheduled>>
vars == <<state, send_window, buffered, send_done, priority, queue, conn_window,
          buckets, scheduled, peer, closed, budget, served>>

-----------------------------------------------------------------------------
(***************************************************************************)
(* courierust_h2::priority::Scheduler as operators on its bucket array.  A *)
(* bucket holds two queues of stream ids and a deficit.  `count` and       *)
(* `rounds` are statistics nothing reads and are left out; the saturating  *)
(* u32 additions never saturate below a 4 GiB frame and are plain sums.    *)
(***************************************************************************)
EmptyBuckets ==
    [u \in Urgencies |-> [non_incremental |-> <<>>, incremental |-> <<>>, deficit |-> 0]]

Tracked(b, s) ==
    \E u \in Urgencies : \/ s \in ToSet(b[u].non_incremental)
                         \/ s \in ToSet(b[u].incremental)

Add(b, s, p) ==
    IF p.incremental
    THEN [b EXCEPT ![p.urgency].incremental = Append(@, s)]
    ELSE [b EXCEPT ![p.urgency].non_incremental = Append(@, s)]

\* The first entry in scan order only.
RemoveStream(b, s) ==
    IF ~Tracked(b, s) THEN b
    ELSE LET u == Min({v \in Urgencies : s \in ToSet(b[v].non_incremental)
                                            \cup ToSet(b[v].incremental)})
         IN  IF s \in ToSet(b[u].non_incremental)
             THEN [b EXCEPT ![u].non_incremental = RemoveFirst(@, s)]
             ELSE [b EXCEPT ![u].incremental = RemoveFirst(@, s)]

Update(b, s, old, new) ==
    IF old = new THEN b ELSE Add(RemoveStream(b, s), s, new)

Servable(b, want) ==
    {u \in Urgencies : \/ b[u].incremental # <<>>
                       \/ b[u].non_incremental # <<>> /\ b[u].deficit + want <= Quantum}

\* An incremental stream goes to the back of its queue, a non-incremental one
\* leaves its queue and is charged to the deficit.
Serve(b, want) ==
    LET u == Min(Servable(b, want))
    IN  IF b[u].incremental # <<>>
        THEN [sid |-> Head(b[u].incremental),
              buckets |-> [b EXCEPT ![u].incremental = Append(Tail(@), Head(@))]]
        ELSE [sid |-> Head(b[u].non_incremental),
              buckets |-> [b EXCEPT ![u].non_incremental = Tail(@),
                                    ![u].deficit = @ + want]]

\* Faulty variant: a spent bucket is never given a new round.
ResetNothing(b) == b

ResetDeficits(b) == [u \in Urgencies |-> [b[u] EXCEPT !.deficit = 0]]

NextStream(b, want) ==
    IF Servable(b, want) # {} THEN Serve(b, want)
    ELSE IF \A u \in Urgencies : b[u].non_incremental = <<>>
         THEN [sid |-> None, buckets |-> b]
    ELSE LET r == ResetDeficits(b)
         IN  IF Servable(r, want) # {} THEN Serve(r, want)
                                       ELSE [sid |-> None, buckets |-> r]

-----------------------------------------------------------------------------
DefaultPriority == CHOOSE p \in Priorities : TRUE

Live(s) == state[s] \in {"open", "half_closed_remote", "half_closed_local"}

CanSend(s) == state[s] \in {"open", "half_closed_remote"} /\ s \notin send_done

\* Between two calls of the driver: no flush is under way.
Ready == ~closed /\ budget = 0

Init ==
    /\ state = [s \in Streams |-> "none"]
    /\ send_window = [s \in Streams |-> 0]
    /\ buffered = [s \in Streams |-> 0]
    /\ send_done = {}
    /\ priority = [s \in Streams |-> DefaultPriority]
    /\ queue = [s \in Streams |-> <<>>]
    /\ conn_window = ConnWindow
    /\ buckets = EmptyBuckets
    /\ scheduled = {}
    /\ peer \in [init : InitWindows, frame : FrameSizes]
    /\ closed = FALSE
    /\ budget = 0
    /\ served = None

-----------------------------------------------------------------------------
(* Scheduling *)

Sched == [buckets |-> buckets, scheduled |-> scheduled]

SchedIs(sch) == buckets' = sch.buckets /\ scheduled' = sch.scheduled

\* scheduler.remove() and scheduled.remove().
Deschedule(sch, s) ==
    [buckets |-> RemoveStream(sch.buckets, s), scheduled |-> sch.scheduled \ {s}]

\* What maybe_schedule() asks of a stream, given the queues and windows the call sees.
Due(sch, s, q, w) == s \notin sch.scheduled /\ q[s] # <<>> /\ Live(s) /\ w[s] > 0

\* maybe_schedule()
MaybeSchedule(sch, s, q, w) ==
    IF Due(sch, s, q, w)
    THEN [buckets |-> Add(sch.buckets, s, priority[s]),
          scheduled |-> sch.scheduled \cup {s}]
    ELSE sch

\* Faulty variant: new connection credit wakes nobody.
RescheduleNobody(w) == Sched

\* The streams of a set in id order, as a BTreeMap iterates over them.
InIdOrder(S) == [i \in 1..Cardinality(S) |-> CHOOSE s \in S : Cardinality({t \in S : t < s}) = i - 1]

\* The loop of maybe_schedule() over the streams with send_buffered > 0, in id order:
\* no stream's turn depends on another's, and each queue gets its own in that order.
RescheduleBuffered(w) ==
    LET due == {s \in Streams : buffered[s] > 0 /\ Due(Sched, s, queue, w)}
        joining(u, inc) == InIdOrder({s \in due : priority[s] = [urgency |-> u, incremental |-> inc]})
    IN  [buckets |-> [u \in Urgencies |->
                        [buckets[u] EXCEPT !.incremental = @ \o joining(u, TRUE),
                                           !.non_incremental = @ \o joining(u, FALSE)]],
         scheduled |-> scheduled \cup due]

\* close_stream(): the record and its chunks go, one scheduler entry goes.
CloseStream(s, b) ==
    /\ state' = [state EXCEPT ![s] = "closed"]
    /\ buffered' = [buffered EXCEPT ![s] = 0]
    /\ send_window' = [send_window EXCEPT ![s] = 0]
    /\ send_done' = send_done \ {s}
    /\ priority' = [priority EXCEPT ![s] = DefaultPriority]
    /\ queue' = [queue EXCEPT ![s] = <<>>]
    /\ SchedIs(Deschedule([buckets |-> b, scheduled |-> scheduled], s))

\* conn_error(): the connection is closed and only GOAWAY still leaves.
ConnError ==
    /\ closed' = TRUE
    /\ UNCHANGED <<streamVars, schedVars, conn_window, peer>>

-----------------------------------------------------------------------------
(* Calls of the application *)

\* send_headers() with END_STREAM, a response without a body.  Without END_STREAM
\* it leaves the sending state as it is.
SendHeaders(s) ==
    /\ Ready /\ CanSend(s) /\ queue[s] = <<>>
    /\ \/ /\ state[s] = "half_closed_remote"
          /\ CloseStream(s, buckets)
       \/ /\ state[s] = "open"
          /\ state' = [state EXCEPT ![s] = "half_closed_local"]
          /\ send_done' = send_done \cup {s}
          /\ UNCHANGED <<send_window, buffered, priority, queue, schedVars>>
    /\ served' = None
    /\ UNCHANGED <<conn_window, peer, closed, budget>>

\* send_data() and send_trailers(); a chunk over the buffer cap is refused
\* (Overflow) and changes nothing.
Enqueue(s, c) ==
    /\ Ready /\ CanSend(s)
    /\ buffered[s] + c.len <= MaxSendBuffer
    /\ Len(queue[s]) < MaxChunks
    /\ \A u \in Urgencies : Len(buckets[u].incremental \o buckets[u].non_incremental) <= MaxEntries
    /\ buffered' = [buffered EXCEPT ![s] = @ + c.len]
    /\ send_done' = IF c.end_stream THEN send_done \cup {s} ELSE send_done
    /\ queue' = [queue EXCEPT ![s] = Append(@, c)]
    /\ SchedIs(MaybeSchedule(Sched, s, queue', send_window))
    /\ served' = None
    /\ UNCHANGED <<state, send_window, priority, conn_window, peer, closed, budget>>

\* send_rst() of the application, or a RST_STREAM of the peer.
Reset(s) ==
    /\ Ready /\ Live(s)
    /\ CloseStream(s, buckets)
    /\ served' = None
    /\ UNCHANGED <<conn_window, peer, closed, budget>>

-----------------------------------------------------------------------------
(* Frames of the peer *)

\* HEADERS of a new request, in increasing id order.
PeerHeaders(s, end, p) ==
    /\ Ready /\ state[s] = "none"
    /\ \A t \in Streams : t < s => state[t] # "none"
    /\ state' = [state EXCEPT ![s] = IF end THEN "half_closed_remote" ELSE "open"]
    /\ send_window' = [send_window EXCEPT ![s] = peer.init]
    /\ priority' = [priority EXCEPT ![s] = p]
    /\ served' = None
    /\ UNCHANGED <<buffered, send_done, queue, schedVars, conn_window,
                   peer, closed, budget>>

\* END_STREAM of the request body: finish_header_block() or on_data().
PeerEnd(s) ==
    /\ Ready
    /\ \/ /\ state[s] = "open"
          /\ state' = [state EXCEPT ![s] = "half_closed_remote"]
          /\ UNCHANGED <<send_window, buffered, send_done, priority, queue, schedVars>>
       \/ /\ state[s] = "half_closed_local"
          /\ CloseStream(s, buckets)
    /\ served' = None
    /\ UNCHANGED <<conn_window, peer, closed, budget>>

\* WINDOW_UPDATE on stream 0.
ConnWindowUpdate(n) ==
    /\ Ready
    /\ \/ /\ conn_window + n > MaxWindow
          /\ ConnError
       \/ /\ conn_window + n <= MaxWindow
          /\ conn_window' = conn_window + n
          /\ SchedIs(RescheduleBuffered(send_window))
          /\ UNCHANGED <<streamVars, peer, closed>>
    /\ served' = None
    /\ UNCHANGED budget

\* WINDOW_UPDATE on a live stream; on a closed one it is ignored.
StreamWindowUpdate(s, n) ==
    /\ Ready /\ Live(s)
    /\ \/ /\ send_window[s] + n > MaxWindow
          /\ ConnError
       \/ /\ send_window[s] + n <= MaxWindow
          /\ send_window' = [send_window EXCEPT ![s] = @ + n]
          /\ SchedIs(MaybeSchedule(Sched, s, queue, send_window'))
          /\ UNCHANGED <<state, buffered, send_done, priority, queue, conn_window,
                         peer, closed>>
    /\ served' = None
    /\ UNCHANGED budget

\* SETTINGS: the change of the initial window moves every live stream's window,
\* possibly below zero.
PeerSettings(new) ==
    LET delta == new.init - peer.init
        moved == [s \in Streams |-> IF Live(s) THEN send_window[s] + delta
                                               ELSE send_window[s]]
    IN  /\ Ready
        /\ \/ /\ \E s \in Streams : Live(s) /\ moved[s] > MaxWindow /\ delta # 0
              /\ ConnError
           \/ /\ \A s \in Streams : Live(s) => moved[s] <= MaxWindow \/ delta = 0
              /\ send_window' = moved
              /\ peer' = new
              /\ SchedIs(RescheduleBuffered(moved))
              /\ UNCHANGED <<state, buffered, send_done, priority, queue,
                             conn_window, closed>>
        /\ served' = None
        /\ UNCHANGED budget

\* PRIORITY_UPDATE: update() adds the stream even when it was not tracked.
PriorityUpdate(s, p) ==
    /\ Ready /\ Live(s)
    /\ priority' = [priority EXCEPT ![s] = p]
    /\ buckets' = Update(buckets, s, priority[s], p)
    /\ served' = None
    /\ UNCHANGED <<state, send_window, buffered, send_done, queue, scheduled,
                   conn_window, peer, closed, budget>>

-----------------------------------------------------------------------------
(* flush_outbound() and emit_data_frames() *)

FlushStart ==
    /\ Ready /\ conn_window > 0
    /\ budget' = FlushFrames
    /\ served' = None
    /\ UNCHANGED <<streamVars, schedVars, conn_window, peer, closed>>

\* No servable stream: the loop breaks; the deficits may have been reset.
EmitNothing ==
    LET pick == NextStream(buckets, peer.frame)
    IN  /\ budget > 0 /\ pick.sid = None
        /\ buckets' = pick.buckets
        /\ budget' = 0
        /\ served' = None
        /\ UNCHANGED <<streamVars, scheduled, conn_window, peer, closed>>

\* The record is gone, a window is exhausted or the queue is empty: the stream
\* is taken off the scheduler and the loop continues.
EmitSkip ==
    LET pick == NextStream(buckets, peer.frame)
        s    == pick.sid
    IN  /\ budget > 0 /\ s # None
        /\ ~Live(s) \/ send_window[s] <= 0 \/ conn_window <= 0 \/ queue[s] = <<>>
        /\ SchedIs(Deschedule([buckets |-> pick.buckets, scheduled |-> scheduled], s))
        /\ budget' = budget - 1
        /\ served' = None
        /\ UNCHANGED <<streamVars, conn_window, peer, closed>>

\* Faulty variant: the frame is not clamped to the connection window.
FrameLenIgnoresConn(s) == Min({send_window[s], peer.frame, Head(queue[s]).len})

FrameLen(s) == Min({send_window[s], conn_window, peer.frame, Head(queue[s]).len})

\* The frame empties the last chunk and that chunk ends the stream.
Ends(s) ==
    /\ FrameLen(s) = Head(queue[s]).len
    /\ Head(queue[s]).end_stream /\ Tail(queue[s]) = <<>>

\* The chunks that stay queued after the frame.
Rest(s) ==
    IF FrameLen(s) = Head(queue[s]).len THEN Tail(queue[s])
    ELSE <<[Head(queue[s]) EXCEPT !.len = @ - FrameLen(s)]>> \o Tail(queue[s])

\* One DATA frame (or trailer block) of the picked stream.
EmitFrame ==
    LET pick == NextStream(buckets, peer.frame)
        s == pick.sid
        popped == [buckets |-> pick.buckets, scheduled |-> scheduled \ {s}]
        q == [queue EXCEPT ![s] = Rest(s)]
        w == [send_window EXCEPT ![s] = @ - FrameLen(s)]
    IN  /\ budget > 0 /\ s # None
        /\ Live(s) /\ send_window[s] > 0 /\ conn_window > 0 /\ queue[s] # <<>>
        /\ conn_window' = conn_window - FrameLen(s)
        /\ \/ /\ Ends(s) /\ state[s] = "half_closed_remote"
              /\ CloseStream(s, pick.buckets)
           \/ /\ ~Ends(s) \/ state[s] # "half_closed_remote"
              /\ send_window' = w
              /\ buffered' = [buffered EXCEPT ![s] = @ - FrameLen(s)]
              /\ queue' = q
              /\ state' = IF Ends(s) /\ state[s] = "open"
                          THEN [state EXCEPT ![s] = "half_closed_local"] ELSE state
              /\ SchedIs(IF Rest(s) = <<>> THEN Deschedule(popped, s)
                                           ELSE MaybeSchedule(popped, s, q, w))
              /\ UNCHANGED <<send_done, priority>>
        /\ budget' = budget - 1
        /\ served' = s
        /\ UNCHANGED <<peer, closed>>

-----------------------------------------------------------------------------

Application ==
    \E s \in Streams :
        \/ SendHeaders(s)
        \/ \E c \in Chunks : Enqueue(s, c)
        \/ Reset(s)

Peer ==
    \/ \E s \in Streams : \/ \E end \in BOOLEAN, p \in Priorities : PeerHeaders(s, end, p)
                          \/ PeerEnd(s)
                          \/ \E n \in Increments : StreamWindowUpdate(s, n)
                          \/ \E p \in Updates : PriorityUpdate(s, p)
    \/ \E n \in Increments : ConnWindowUpdate(n)
    \/ \E new \in [init : InitWindows, frame : FrameSizes] : PeerSettings(new)

Flush == FlushStart \/ EmitNothing \/ EmitSkip \/ EmitFrame

Next == Application \/ Peer \/ Flush

Spec == Init /\ [][Next]_vars

(***************************************************************************)
(* The driver polls, and a poll flushes to the end; the peer is one that   *)
(* returns credit: it replenishes a window it keeps seeing exhausted       *)
(* (strong fairness, because its frames are not read during a flush).      *)
(***************************************************************************)
Fairness ==
    /\ WF_vars(Flush)
    /\ SF_vars(conn_window <= 0 /\ \E n \in Increments : ConnWindowUpdate(n))
    /\ \A s \in Streams :
          SF_vars(send_window[s] <= 0 /\ \E n \in Increments : StreamWindowUpdate(s, n))

FairSpec == Spec /\ Fairness

-----------------------------------------------------------------------------
(* Properties *)

TypeOK ==
    /\ state \in [Streams -> {"none", "open", "half_closed_remote",
                              "half_closed_local", "closed"}]
    /\ send_window \in [Streams -> Int] /\ conn_window \in Int
    /\ buffered \in [Streams -> Nat]
    /\ send_done \subseteq Streams /\ scheduled \subseteq Streams
    /\ priority \in [Streams -> Priorities]
    /\ \A s \in Streams : queue[s] \in Seq(Chunk)
    /\ \A u \in Urgencies : buckets[u].deficit <= Quantum
    /\ peer \in [init : InitWindows, frame : FrameSizes]
    /\ budget \in 0..FlushFrames /\ served \in Streams \cup {None}

HasBytes(s) == \E i \in DOMAIN queue[s] : queue[s][i].len > 0

\* Credit that arrives wakes the body it lets through: a live stream with queued
\* bytes and credit on both windows is in the scheduler.  emit_data_frames() takes
\* streams off it whenever a window is exhausted; maybe_schedule() after each
\* WINDOW_UPDATE, SETTINGS, send_data() and frame has to put them back.
BodyIsScheduled ==
    \A s \in Streams :
        Live(s) /\ HasBytes(s) /\ send_window[s] > 0 /\ conn_window > 0
            => Tracked(buckets, s)

\* `scheduled` never claims a stream the scheduler has lost: maybe_schedule()
\* would skip such a stream for ever.
ScheduledIsTracked == \A s \in scheduled : Tracked(buckets, s)

\* What is sent was granted: a frame never takes a window below zero, whatever
\* SETTINGS and WINDOW_UPDATEs came in between (flow.rs and connection.rs keep
\* signed windows because SETTINGS may leave a negative one).
NeverOverspends ==
    [][served' # None => conn_window' >= 0 /\ send_window'[served'] >= 0]_vars

\* END_STREAM leaves last: once a stream is half-closed locally nothing of its
\* body is still queued.
EndAfterBody ==
    \A s \in Streams : state[s] = "half_closed_local" => queue[s] = <<>> /\ buffered[s] = 0

\* The state of the sending half between any two steps.
SendStateKept == TypeOK /\ BodyIsScheduled /\ ScheduledIsTracked /\ EndAfterBody

\* emit_data_frames() met the stream with the connection window spent and took it off
\* the scheduler.  Its place is lost: the next WINDOW_UPDATE puts it behind streams that
\* send_data() has queued meanwhile, and not at all when only its end is left, which
\* counts no buffered bytes.
LostItsPlace(s) == conn_window <= 0 /\ ~Tracked(buckets, s)

\* priority.rs: lower urgencies can never starve: a stream the scheduler tracks gets a
\* frame out, or runs out of data, or is reset, unless the connection window is spent
\* on the way to it.
Fed(s) == served = s \/ ~Live(s) \/ queue[s] = <<>> \/ closed \/ LostItsPlace(s)

=============================================================================
