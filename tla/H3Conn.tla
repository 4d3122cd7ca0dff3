------------------------------- MODULE H3Conn -------------------------------
(***************************************************************************)
(* The life of a request over one HTTP/3 connection: the client's driver   *)
(* thread (commands, streams, deadlines, GOAWAY), the server's loop        *)
(* (streams, pending requests, worker tasks, responses) and the datagrams  *)
(* between them, which arrive in any order and may be repeated.  A message *)
(* is sent in one or more chunks of its stream, the last with FIN; the     *)
(* first is its field section, which may refer to an instruction of the    *)
(* QPACK encoder stream.  Loss and congestion are QuicLoss's subject.      *)
(***************************************************************************)
EXTENDS Integers, Sequences, FiniteSets, SequencesExt

CONSTANTS HReqs,         \* the requests of the callers
          HDyn,          \* requests and responses whose section refers to the table
          HFlawed,       \* requests that may be malformed or above the client's limit
          HShort,        \* requests that take one chunk, like their responses
          HChunks,       \* chunks of every other message
          HMaxStreams,   \* MAX_H3_STREAMS
          HPeerLimit,    \* streams the server's MAX_STREAMS allows
          HMaxPending,   \* MAX_H3_PENDING_REQUESTS
          HMaxCompleted, \* MAX_COMPLETED_STREAMS
          HTasks,        \* task_limit
          HResends       \* bound: repeated datagrams

ASSUME H3Assumption ==
  /\ {HChunks, HMaxStreams, HMaxPending, HMaxCompleted, HTasks} \subseteq Nat \ {0}
  /\ {HPeerLimit, HResends} \subseteq Nat
  /\ HFlawed \subseteq HReqs /\ HShort \subseteq HReqs

VARIABLES h3c,     \* the client's driver
          h3s,     \* the server: the connection, its tasks, its channel of results
          h3net,   \* datagrams under way, and those ever sent
          h3ask    \* the callers: replies received, requests that are late

h3vars == <<h3c, h3s, h3net, h3ask>>

Flaw(r, f) == r \in HFlawed /\ h3ask.flaw = f
Offs(r) == IF r \in HShort THEN {0} ELSE 0..(HChunks - 1)
\* What a stream carries (r, kind) is kept with the chunks of it that arrived.
NewStream(r, kind) == [got |-> {}, hdrs |-> FALSE, blocked |-> FALSE, r |-> r, kind |-> kind]
Dir(k) == IF k \in {"req", "sset", "senc", "sclose"} THEN "server" ELSE "client"

H3Init ==
  /\ h3c = [chan |-> <<>>, waiting |-> <<>>, active |-> <<>>, off |-> <<>>, streams |-> <<>>, next |-> 0,
            settings |-> FALSE, goaway |-> FALSE, enc |-> FALSE, open |-> TRUE, accepting |-> TRUE]
  /\ h3s = [streams |-> <<>>, completed |-> <<>>, pending |-> <<>>, settings |-> FALSE, enc |-> FALSE, open |-> TRUE,
            tasks |-> 0, running |-> {}, done |-> <<>>, runs |-> [r \in HReqs |-> 0]]
  /\ h3net = [air |-> {[k |-> "sset"], [k |-> "cset"]} \cup {[k |-> k] : k \in IF HDyn = {} THEN {} ELSE {"senc", "cenc"}},
              sent |-> {[k |-> "sset"], [k |-> "cset"]}, resends |-> 0]
  /\ \E f \in {"none", "malformed", "huge"} :
       h3ask = [replies |-> [r \in HReqs |-> <<>>], asked |-> {}, late |-> {}, flaw |-> f]

Air(ms) == [h3net EXCEPT !.air = @ \cup ms, !.sent = @ \cup ms]
Taken(m, ms) == [h3net EXCEPT !.air = (@ \ {m}) \cup ms, !.sent = @ \cup ms]
\* Nobody hears what is sent to an end that is gone.
Deaf(net, end) ==
  [net EXCEPT !.air = {m \in @ : Dir(m.k) # end}, !.sent = {m \in @ : Dir(m.k) # end}]
Reply(ask, r, kind, of) == [ask EXCEPT !.replies[r] = Append(@, <<kind, of>>)]
ReplyAll(ask, rs, kind) == [ask EXCEPT !.replies = [r \in HReqs |-> IF r \in rs THEN Append(@[r], <<kind, r>>) ELSE @[r]]]
Removed(f, ids) == [i \in DOMAIN f \ ids |-> f[i]]
With(f, i, v) == [j \in DOMAIN f \cup {i} |-> IF j = i THEN v ELSE f[j]]

\* Faulty variant: the end of a stream that was blocked is not looked at again.
DrainOnce(s, enc) ==
  LET t == IF s.blocked \/ s.hdrs \/ 0 \notin s.got THEN s
           ELSE [s EXCEPT !.hdrs = enc, !.blocked = ~enc]
  IN [st |-> t, complete |-> ~t.blocked /\ t.hdrs /\ t.got = Offs(t.r) /\ ~s.hdrs]

\* drain_request_frames(), drain_response_frames(): the field section once the first
\* chunk is there (or blocked on the table), the message once FIN is.
Drain(s, enc) ==
  LET t == IF s.blocked \/ s.hdrs \/ 0 \notin s.got THEN s
           ELSE [s EXCEPT !.hdrs = enc, !.blocked = ~enc]
  IN [st |-> t, complete |-> ~t.blocked /\ t.hdrs /\ t.got = Offs(t.r)]

\* resume_request_stream(), resume_stream_response(): the decoded section is handed over.
Resume(s) == Drain([s EXCEPT !.hdrs = TRUE, !.blocked = FALSE], TRUE)

(***************************************************************************)
(* The client.                                                             *)
(***************************************************************************)
\* H3Conn::send(): the channel, then a nudge of the driver.
Submit(r) ==
  /\ h3c.open /\ h3c.accepting /\ r \notin h3ask.asked
  /\ h3c' = [h3c EXCEPT !.chan = Append(@, r)]
  /\ h3ask' = [h3ask EXCEPT !.asked = @ \cup {r}]
  /\ UNCHANGED <<h3s, h3net>>

\* fail_all(), and the commands dropped with the channel.
FailAll(ask) ==
  ReplyAll(ask, Range(h3c.chan) \cup Range(h3c.waiting) \cup {h3c.active[i] : i \in DOMAIN h3c.active}, "err")

ClientClosed == [h3c EXCEPT !.chan = <<>>, !.waiting = <<>>, !.active = <<>>, !.streams = <<>>, !.open = FALSE, !.accepting = FALSE]

\* flush_requests(): the streams the waiting requests get, in order; a request the
\* peer's limit or its own size forbids is answered, and a stream id is spent on the latter.
Opens(ws, c, a) ==
  FoldLeft(LAMBDA x, r :
             IF x.full \/ Cardinality(DOMAIN x.c.active) >= HMaxStreams
             THEN [x EXCEPT !.full = TRUE, !.left = Append(@, r)]
             ELSE IF x.c.next >= HPeerLimit THEN [x EXCEPT !.ask = Reply(@, r, "err", r)]
             ELSE IF Flaw(r, "huge")
             THEN [x EXCEPT !.ask = Reply(@, r, "err", r), !.c.next = @ + 1]
             ELSE [x EXCEPT !.c.active = With(@, x.c.next, r), !.c.off = With(@, x.c.next, 0), !.c.next = @ + 1],
           [c |-> c, ask |-> a, left |-> <<>>, full |-> FALSE], ws)

\* send_request_chunks(): as many chunks as the transport takes.
Chunks(c, n) ==
  UNION {{[k |-> "req", id |-> i, off |-> o, r |-> c.active[i]] : o \in Offs(c.active[i]) \cap (c.off[i]..(n - 1))} : i \in DOMAIN c.active}

\* check_timeouts()
Expired(c) == {r \in Range(c.waiting) \cup {c.active[i] : i \in DOMAIN c.active} : r \in h3ask.late}

\* The commands taken from the channel, and what flush_requests() makes of them.
Opened ==
  IF h3c.goaway
  THEN Opens(h3c.waiting, [h3c EXCEPT !.chan = <<>>], ReplyAll(h3ask, Range(h3c.chan), "err"))
  ELSE IF h3c.settings THEN Opens(h3c.waiting \o h3c.chan, [h3c EXCEPT !.chan = <<>>], h3ask)
  ELSE [c |-> [h3c EXCEPT !.chan = <<>>], ask |-> h3ask, left |-> h3c.waiting \o h3c.chan]

\* One turn of run_client_driver() up to its wait.
ClientLoop ==
  /\ h3c.open
  /\ \E x \in {Opened} : \E c \in {[x.c EXCEPT !.waiting = x.left]} : \E gone \in {Expired(c)}, n \in 0..HChunks :
       \E ids \in {{i \in DOMAIN c.active : c.active[i] \in gone}} :
         /\ h3net' = Air(IF h3s.open THEN Chunks(c, n) ELSE {})
         /\ h3c' = [c EXCEPT !.off = [i \in DOMAIN c.active \ ids |-> IF n > c.off[i] THEN n ELSE c.off[i]],
                             !.waiting = SelectSeq(@, LAMBDA r : r \notin gone),
                             !.active = Removed(@, ids), !.streams = Removed(@, ids),
                             !.accepting = @ /\ ~h3c.goaway]
         /\ h3ask' = ReplyAll(x.ask, gone, "timeout")
  /\ UNCHANGED h3s

\* The application shuts the driver down, or it has been idle: GOAWAY and CONNECTION_CLOSE.
ClientEnds3 ==
  /\ h3c.open
  /\ h3ask' = FailAll(h3ask) /\ h3c' = ClientClosed /\ h3net' = Deaf(Air(IF h3s.open THEN {[k |-> "sclose"]} ELSE {}), "client")
  /\ UNCHANGED h3s

Finished(c, ends) ==
  [c EXCEPT !.active = Removed(@, ends), !.off = Removed(@, ends), !.streams = Removed(@, ends)]

\* take_finished(), abort_stream(): the whole response s of stream i is handed over.
HandOver(ask, i, s) == Reply(ask, h3c.active[i], IF s.kind = "bad" THEN "err" ELSE s.kind, s.r)

\* receive_stream() of a response stream; late data of a finished one is ignored.
OnResponse(m) ==
  /\ m.k = "resp"
  /\ h3net' = Taken(m, {})
  /\ IF m.id \notin DOMAIN h3c.active THEN UNCHANGED <<h3c, h3ask>>
     ELSE LET s == IF m.id \in DOMAIN h3c.streams THEN h3c.streams[m.id] ELSE NewStream(m.r, m.kind)
              d == Drain([s EXCEPT !.got = @ \cup {m.off}], m.r \notin HDyn \/ h3c.enc)
          IN IF d.complete THEN h3ask' = HandOver(h3ask, m.id, d.st) /\ h3c' = Finished(h3c, {m.id})
             ELSE h3c' = [h3c EXCEPT !.streams = With(@, m.id, d.st)] /\ UNCHANGED h3ask

\* unblock_streams(): what the encoder stream brings releases the blocked responses.
OnClientEncoder(m) ==
  /\ m.k = "cenc"
  /\ h3net' = Taken(m, {})
  /\ LET woken == {i \in DOMAIN h3c.streams : h3c.streams[i].blocked}
         ends == {i \in woken : Resume(h3c.streams[i]).complete}
         c == [h3c EXCEPT !.enc = TRUE, !.streams = [i \in DOMAIN @ |-> IF i \in woken THEN Resume(@[i]).st ELSE @[i]]]
     IN /\ h3ask' = FoldLeft(LAMBDA ask, i : HandOver(ask, i, h3c.streams[i]), h3ask, SetToSeq(ends))
        /\ h3c' = Finished(c, ends)

OnClientControl(m) ==
  /\ m.k \in {"cset", "goaway"}
  /\ m.k = "goaway" => h3c.settings          \* one stream: in order
  /\ h3c' = IF m.k = "cset" THEN [h3c EXCEPT !.settings = TRUE] ELSE [h3c EXCEPT !.goaway = TRUE]
  /\ h3net' = Taken(m, {}) /\ UNCHANGED h3ask

\* CONNECTION_CLOSE: fail_all().
OnClientClose(m) ==
  /\ m.k = "cclose"
  /\ h3ask' = FailAll(h3ask) /\ h3c' = ClientClosed /\ h3net' = Deaf(h3net, "client")

ClientReceive ==
  /\ h3c.open
  /\ \E m \in h3net.air : OnResponse(m) \/ OnClientEncoder(m) \/ OnClientControl(m) \/ OnClientClose(m)
  /\ UNCHANGED h3s

(***************************************************************************)
(* The server.                                                             *)
(***************************************************************************)
ServerClosed(s) == [s EXCEPT !.streams = <<>>, !.completed = <<>>, !.pending = <<>>, !.open = FALSE]

\* note_completed_stream()
NoteCompleted(s, id) ==
  [s EXCEPT !.completed = Append(IF Len(@) >= HMaxCompleted THEN Tail(@) ELSE @, id)]

\* drain_request_frames() at FIN: SETTINGS must have come, there must be room; a
\* malformed request is a stream error, and is discarded.
Complete(s, id, r) ==
  IF ~s.settings \/ Len(s.pending) >= HMaxPending THEN ServerClosed(s)
  ELSE LET t == NoteCompleted([s EXCEPT !.streams = Removed(@, {id})], id)
       IN IF Flaw(r, "malformed") THEN t ELSE [t EXCEPT !.pending = Append(@, [id |-> id, r |-> r])]

\* The datagram is taken; an error closes the connection.
Heard(m, s) ==
  IF s.open THEN Taken(m, {})
  ELSE Deaf(Air(IF h3c.open THEN {[k |-> "cclose"]} ELSE {}), "server")

\* receive_stream() of a request stream.
OnRequest(m) ==
  /\ m.k = "req"
  /\ LET s == IF m.id \in DOMAIN h3s.streams THEN h3s.streams[m.id] ELSE NewStream(m.r, "req")
         d == Drain([s EXCEPT !.got = @ \cup {m.off}], m.r \notin HDyn \/ h3s.enc)
         t == IF m.id \notin DOMAIN h3s.streams /\ m.id \in Range(h3s.completed) THEN h3s
              ELSE IF d.complete THEN Complete(h3s, m.id, m.r)
              ELSE [h3s EXCEPT !.streams = With(@, m.id, d.st)]
     IN h3s' = t /\ h3net' = Heard(m, t)

OnServerEncoder(m) ==
  /\ m.k = "senc"
  /\ LET woken == {i \in DOMAIN h3s.streams : h3s.streams[i].blocked}
         one(s, i) == LET d == Resume(s.streams[i])
                      IN IF ~s.open THEN s
                         ELSE IF d.complete THEN Complete(s, i, s.streams[i].r)
                         ELSE [s EXCEPT !.streams = With(@, i, d.st)]
         t == FoldLeft(one, [h3s EXCEPT !.enc = TRUE], SetToSeq(woken))
     IN h3s' = t /\ h3net' = Heard(m, t)

OnServerControl(m) ==
  /\ m.k \in {"sset", "sclose"}
  /\ h3s' = IF m.k = "sset" THEN [h3s EXCEPT !.settings = TRUE] ELSE ServerClosed(h3s)
  /\ h3net' = IF m.k = "sset" THEN Taken(m, {}) ELSE Deaf(h3net, "server")

ServerReceive ==
  /\ h3s.open
  /\ \E m \in h3net.air : OnRequest(m) \/ OnServerEncoder(m) \/ OnServerControl(m)
  /\ UNCHANGED <<h3c, h3ask>>

\* pool.spawn(): the handler's response (503 when it panics), or one the client will
\* not take.
Worker ==
  /\ \E j \in h3s.running, kind \in {"ok", "bad"} :
       h3s' = [h3s EXCEPT !.running = @ \ {j}, !.done = Append(@, [j |-> j, kind |-> kind])]
  /\ UNCHANGED <<h3c, h3net, h3ask>>

Completions(s) == [s EXCEPT !.done = <<>>, !.tasks = @ - Len(s.done)]

\* take_request(): one by one, up to the limit on tasks.
Dispatch(s) ==
  LET n == IF Len(s.pending) <= HTasks - s.tasks THEN Len(s.pending) ELSE HTasks - s.tasks
      jobs == Range(SubSeq(s.pending, 1, n))
  IN IF ~s.open THEN s
     ELSE [s EXCEPT !.pending = SubSeq(@, n + 1, Len(@)), !.tasks = @ + n, !.running = @ \cup jobs,
                    !.runs = [r \in HReqs |-> @[r] + Cardinality({j \in jobs : j.r = r})]]

\* One turn of run_server() after the datagrams: the results are queued on their
\* streams, the connection is ticked and requests go to the pool.
ServerLoop ==
  /\ h3s.done # <<>> \/ (h3s.pending # <<>> /\ h3s.tasks < HTasks)
  /\ h3s' = Dispatch(Completions(h3s))
  /\ h3net' = Air(IF h3s.open /\ h3c.open
                  THEN UNION {{[k |-> "resp", id |-> x.j.id, off |-> o, r |-> x.j.r, kind |-> x.kind] : o \in Offs(x.j.r)} :
                              x \in Range(h3s.done)}
                  ELSE {})
  /\ UNCHANGED <<h3c, h3ask>>

\* The idle timeout: GOAWAY, CONNECTION_CLOSE, and the connection is removed.
ServerIdle ==
  /\ h3s.open
  /\ h3s' = ServerClosed(h3s) /\ h3net' = Deaf(Air(IF h3c.open THEN {[k |-> "goaway"], [k |-> "cclose"]} ELSE {}), "server")
  /\ UNCHANGED <<h3c, h3ask>>

(* ---- the environment ---- *)
\* A deadline passes.
Late(r) ==
  /\ r \in h3ask.asked \ h3ask.late /\ h3ask.replies[r] = <<>>
  /\ h3ask' = [h3ask EXCEPT !.late = @ \cup {r}]
  /\ UNCHANGED <<h3c, h3s, h3net>>

\* A datagram is retransmitted although it arrived.
Again ==
  /\ h3net.resends < HResends
  /\ \E m \in {m \in h3net.sent \ h3net.air : m.k \in {"req", "resp"}} :
       h3net' = [h3net EXCEPT !.air = @ \cup {m}, !.resends = @ + 1]
  /\ UNCHANGED <<h3c, h3s, h3ask>>

H3Next ==
  \/ \E r \in HReqs : Submit(r) \/ Late(r)
  \/ ClientLoop \/ ClientReceive \/ ClientEnds3
  \/ ServerReceive \/ ServerLoop \/ Worker \/ ServerIdle \/ Again

(***************************************************************************)
(* Properties.                                                             *)
(***************************************************************************)
\* A caller is answered at most once, and with the response to its own request.
RepliesExact ==
  \A r \in HReqs :
    /\ Len(h3ask.replies[r]) <= 1
    /\ \A i \in 1..Len(h3ask.replies[r]) :
         h3ask.replies[r][i] \in {"err", "timeout", "ok"} \X {r}

\* However often its datagrams are repeated a request runs once; one that is malformed never.
RunOnce ==
  /\ \A r \in HReqs : h3s.runs[r] <= (IF Flaw(r, "malformed") THEN 0 ELSE 1)
  /\ h3s.tasks = Cardinality(h3s.running) + Len(h3s.done) /\ h3s.tasks <= HTasks

\* A message all of which has arrived is held back only by a field section whose
\* instruction of the encoder stream has not.
NoneStuck ==
  /\ \A i \in DOMAIN h3s.streams : h3s.streams[i].got = Offs(h3s.streams[i].r) => h3s.streams[i].blocked /\ ~h3s.enc
  /\ \A i \in DOMAIN h3c.streams : h3c.streams[i].got = Offs(h3c.streams[i].r) => h3c.streams[i].blocked /\ ~h3c.enc

\* Every caller is answered, and the server's tasks come back, whatever ends the connection.
RequestsSettled ==
  /\ \A r \in h3ask.asked : h3ask.replies[r] # <<>>
  /\ h3s.tasks = 0 /\ h3s.pending = <<>>

\* Requests on one connection: run once, answered once and with the right response, none
\* held back without cause.
RequestsExact == RepliesExact /\ RunOnce /\ NoneStuck
=============================================================================
