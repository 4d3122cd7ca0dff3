----------------------------- MODULE WsSession ------------------------------
(***************************************************************************)
(* courierust_ws::{frame, utf8}: the header of a frame, the mask, the UTF-8 *)
(* automaton and the payload of a Close frame.  A header is the fields of   *)
(* its two fixed bytes, the extended length and the key; how many of its    *)
(* bytes are there is a number.  The three ranges of lengths are scaled.    *)
(*                                                                          *)
(* courierust_ws::session: the reading half of a connection.  Bytes of the  *)
(* peer's frames arrive in any pieces; poll_message takes what is there     *)
(* and keeps header, payload, message and an open UTF-8 character across    *)
(* calls.                                                                   *)
(***************************************************************************)
EXTENDS Integers, Sequences, SequencesExt, FiniteSets, FiniteSetsExt

CONSTANTS WsSmall,   \* 125: the longest length the second byte holds; MAX_CONTROL_PAYLOAD
          WsU16      \* 65535: the longest length of the 16-bit form

OpCodes == {0, 1, 2, 8, 9, 10}
Continuation == 0
Text == 1
Binary == 2
Close == 8
Ping == 9
Pong == 10
IsControl(op) == op >= 8

\* The length field: 126 and 127 announce the 16-bit and the 64-bit form.
Len7(n) == IF n <= WsSmall THEN n ELSE IF n <= WsU16 THEN WsSmall + 1 ELSE WsSmall + 2

\* FrameHeader::header_len_hint, from the two first bytes.
HeaderLen(w) ==
    (CASE w.len7 = WsSmall + 1 -> 4 [] w.len7 = WsSmall + 2 -> 10 [] OTHER -> 2)
    + (IF w.masked THEN 4 ELSE 0)

\* FrameHeader::write: always the shortest form.
WriteHeader(h) ==
    [op |-> h.op, fin |-> h.fin, rsv1 |-> h.rsv1, rsv2 |-> FALSE, masked |-> h.masked,
     len7 |-> Len7(h.len), len |-> h.len, msb |-> FALSE]

\* FrameHeader::parse of a whole header.
ParseOk(w) ==
    /\ w.op \in OpCodes
    /\ w.len7 = WsSmall + 1 => w.len > WsSmall
    /\ w.len7 = WsSmall + 2 => w.len > WsU16 /\ ~w.msb
    /\ IsControl(w.op) => w.fin /\ w.len <= WsSmall

\* check_reserved: RSV1 is for data frames, once compression was negotiated.
CheckReserved(w, compression) == ~w.rsv2 /\ (w.rsv1 => compression /\ ~IsControl(w.op))

-----------------------------------------------------------------------------
(* Mask::apply takes a piece of a payload that starts at an offset of the frame: *)
(* lanes of four (and of sixteen) bytes rotated by the phase, then the tail.      *)

\* The byte of the key that byte i (from 0) of a piece of n bytes is combined with.
MaskIndex(offset, i, n) ==
    IF i < (n \div 4) * 4 THEN ((offset % 4) + (i % 4)) % 4 ELSE ((offset % 4) + i) % 4

\* A byte comes out as it was if the same byte of the key is taken off again.
Unmask(piece, offset) ==
    [k \in 1..Len(piece) |->
        IF MaskIndex(offset, k - 1, Len(piece)) = (offset + k - 1) % 4 THEN piece[k] ELSE 255 - piece[k]]

-----------------------------------------------------------------------------
(* Utf8Validator: 0 between characters, 1..3 plain continuation bytes owed,   *)
(* 4..7 a second byte with a range of its own; -1 an error.                    *)

Second == <<<<160, 191>>, <<128, 159>>, <<144, 191>>, <<128, 143>>>>

FeedByte(st, b) ==
    CASE st < 0 -> -1
      [] st = 0 -> CASE b <= 127 -> 0
                     [] b \in 194..223 -> 1
                     [] b \in (225..236) \cup (238..239) -> 2
                     [] b = 224 -> 4
                     [] b = 237 -> 5
                     [] b = 240 -> 6
                     [] b \in 241..243 -> 3
                     [] b = 244 -> 7
                     [] OTHER -> -1
      [] st \in 1..3 -> IF b \in 128..191 THEN st - 1 ELSE -1
      [] OTHER -> IF b \in Second[st - 3][1]..Second[st - 3][2]
                  THEN (IF st \in {4, 5} THEN 1 ELSE 2) ELSE -1

\* feed: an open character is finished first, the rest is checked in bulk up to the
\* first defect and from there byte by byte; the outcome is that of the bytes in turn.
Feed(st, bytes) == FoldLeft(FeedByte, st, bytes)
Validate(bytes) == Feed(0, bytes) = 0

\* What UTF-8 is: the concatenated encodings of scalar values.
Encode(cp) ==
    CASE cp < 128 -> <<cp>>
      [] cp \in 128..2047 -> <<192 + (cp \div 64), 128 + (cp % 64)>>
      [] cp \in 2048..65535 -> <<224 + (cp \div 4096), 128 + ((cp \div 64) % 64), 128 + (cp % 64)>>
      [] OTHER -> <<240 + (cp \div 262144), 128 + ((cp \div 4096) % 64),
                    128 + ((cp \div 64) % 64), 128 + (cp % 64)>>
Scalar(cp) == cp \in 0..1114111 /\ cp \notin 55296..57343

\* The scalar value that starts at i, if one does: the bytes say how long it would be.
CharAt(s, i) ==
    LET n == CASE s[i] < 128 -> 1 [] s[i] \in 192..223 -> 2 [] s[i] \in 224..239 -> 3
               [] s[i] \in 240..247 -> 4 [] OTHER -> 0
        part(k) == s[i + k] % 64
        cp == CASE n = 1 -> s[i]
                [] n = 2 -> ((s[i] % 32) * 64) + part(1)
                [] n = 3 -> ((s[i] % 16) * 4096) + (part(1) * 64) + part(2)
                [] n = 4 -> ((s[i] % 8) * 262144) + (part(1) * 4096) + (part(2) * 64) + part(3)
    IN  IF n = 0 \/ i + n > Len(s) + 1 THEN 0
        ELSE IF Scalar(cp) /\ Encode(cp) = SubSeq(s, i, i + n - 1) THEN n ELSE 0

WellFormed(s) ==
    LET step(at, i) == IF i # at THEN at ELSE IF CharAt(s, i) = 0 THEN 0 ELSE i + CharAt(s, i)
    IN  FoldLeft(step, 1, [i \in 1..Len(s) |-> i]) = Len(s) + 1

-----------------------------------------------------------------------------
(* close: a payload is [size, code, utf8]: its length, and what it holds *)

NORMAL == 1000
IsValidCode(code) == code \in (1000..1003) \cup (1007..1014) \cup (3000..4999)

\* close::parse and failure_code: which code answers a payload that is not one.
CloseVerdict(p) ==
    CASE p.size = 0 -> "ok"
      [] p.size = 1 -> "1002"
      [] p.size > 1 /\ ~IsValidCode(p.code) -> "1002"
      [] p.size > 1 /\ IsValidCode(p.code) /\ ~p.utf8 -> "1007"
      [] OTHER -> "ok"

-----------------------------------------------------------------------------
(* The session *)


CONSTANTS WsRoles,         \* subset of {"server", "client"}: which end the session is
          WsFrames,        \* the frames a peer may send, with their bodies
          WsMaxFrames,     \* bound: frames of a run
          WsMaxFrame,      \* SessionConfig::max_frame
          WsMaxMessage,    \* SessionConfig::max_message
          WsMaxFragments,  \* SessionConfig::max_fragments, 0 for none
          WsCompression    \* whether permessage-deflate was negotiated

NoFrame == [op |-> -1]

VARIABLES ses,   \* Session: phase, filled, got, msg, msg_opcode, msg_compressed, fragments, utf8, closes
          line,  \* the frame under way on the transport: how much of it arrived and was taken
          said,  \* what the session wrote: Pongs and its Close
          told,  \* the events poll_message returned, the last error among them
          past   \* history: the frames taken whole

wsvars == <<ses, line, said, told, past>>

WsInit ==
    /\ \E role \in WsRoles :
         ses = [role |-> role, phase |-> "header", filled |-> 0, got |-> 0, msg |-> <<>>, ctl |-> <<>>,
                op |-> -1, comp |-> FALSE, fragments |-> 0, utf8 |-> 0,
                close_sent |-> FALSE, close_received |-> FALSE, err |-> "none"]
    /\ line = [frame |-> NoFrame, here |-> 0, taken |-> 0]
    /\ said = <<>> /\ told = <<>> /\ past = <<>>

\* A compressed body is a run, <<byte, count>>: inflate_message and its limit.
Inflate(body) == IF Len(body) # 2 \/ body[2] > WsMaxMessage THEN <<-1>>
                 ELSE [i \in 1..body[2] |-> body[1]]

-----------------------------------------------------------------------------
(* The steps of poll_message, on the session and the transport *)

Fatal(s, kind) == [s EXCEPT !.phase = "finished", !.err = kind]

\* Faulty variant: a control frame between fragments closes the message.
BeginFrameForgets(s, w) ==
    IF IsControl(w.op) THEN [s EXCEPT !.op = -1, !.phase = "payload", !.got = 0]
    ELSE IF (s.op = -1) = (w.op = Continuation) \/ w.len > WsMaxFrame THEN Fatal(s, "protocol")
    ELSE [s EXCEPT !.op = IF @ = -1 THEN w.op ELSE @, !.phase = "payload", !.got = 0]

\* begin_frame: the checks in the order of the code.
BeginFrame(s, w) ==
    LET first == s.op = -1
        s1 == IF first THEN [s EXCEPT !.msg = <<>>, !.utf8 = 0, !.comp = w.rsv1, !.fragments = 0]
              ELSE [s EXCEPT !.fragments = @ + 1]
        size == (IF first THEN 0 ELSE Len(s.msg)) + w.len
    IN  CASE ~CheckReserved(w, WsCompression) -> Fatal(s, "protocol")
          [] (s.role = "server") # w.masked -> Fatal(s, "protocol")
          [] IsControl(w.op) ->
               IF w.len > WsMaxFrame THEN Fatal(s, "overflow")
               ELSE [s EXCEPT !.ctl = <<>>, !.phase = "payload", !.got = 0]
          [] first = (w.op = Continuation) -> Fatal(s, "protocol")
          [] w.rsv1 /\ ~first -> Fatal(s, "protocol")
          [] w.len > WsMaxFrame \/ size > WsMaxMessage -> Fatal(s1, "overflow")
          [] WsMaxFragments # 0 /\ s1.fragments >= WsMaxFragments -> Fatal(s1, "overflow")
          [] OTHER -> [s1 EXCEPT !.op = IF first THEN w.op ELSE @, !.phase = "payload", !.got = 0]

\* read_header: from the buffer at once, or byte by byte into head.  A header that
\* does not parse is an error, but not a fatal one: the phase stays as it is.
ReadHeader(s, l) ==
    LET need == HeaderLen(l.frame)
    IN  IF l.frame = NoFrame \/ l.here < need
        THEN [s EXCEPT !.filled = IF l.frame = NoFrame THEN 0 ELSE l.here]
        ELSE IF ParseOk(l.frame) THEN BeginFrame([s EXCEPT !.filled = 0], l.frame)
        ELSE [s EXCEPT !.err = "protocol"]

\* read_payload_step: unmask and append what is there; uncompressed text is checked
\* as it comes.
ReadPayload(s, l) ==
    LET from == s.got
        upto == l.here - HeaderLen(l.frame)
        raw == SubSeq(l.frame.body, from + 1, upto)
        piece == IF l.frame.masked THEN Unmask(raw, from) ELSE raw
        utf8 == IF s.op = Text /\ ~s.comp /\ ~IsControl(l.frame.op) THEN Feed(s.utf8, piece) ELSE s.utf8
    IN  IF IsControl(l.frame.op) THEN [s EXCEPT !.ctl = @ \o piece, !.got = upto]
        ELSE IF utf8 < 0 THEN Fatal([s EXCEPT !.msg = @ \o piece], "protocol")
        ELSE [s EXCEPT !.msg = @ \o piece, !.got = upto, !.utf8 = utf8]

Event(k, data) == [kind |-> k, data |-> data]
Nothing == [kind |-> "none", data |-> <<>>]

\* finish_frame of a data frame: with FIN the message is complete.
FinishData(s, w) ==
    LET bytes == IF s.comp THEN Inflate(s.msg) ELSE s.msg
        s1 == [s EXCEPT !.op = -1, !.comp = FALSE, !.phase = "header", !.msg = <<>>]
        bad == \/ bytes = <<-1>>
               \/ s.op = Text /\ (IF s.comp THEN ~Validate(bytes) ELSE s.utf8 # 0)
    IN  IF ~w.fin THEN [s |-> [s EXCEPT !.phase = "header"], ev |-> Nothing]
        ELSE IF bad THEN [s |-> Fatal(s1, "protocol"), ev |-> Nothing]
        ELSE [s |-> s1, ev |-> Event(IF s.op = Text THEN "text" ELSE "binary", bytes)]

\* What a control frame makes the session write.
Reply(s, w) ==
    CASE w.op = Ping /\ ~s.close_sent -> <<Event("pong", s.ctl)>>
      [] w.op = Close /\ ~s.close_sent ->
           <<Event("close", IF CloseVerdict(w.close) = "ok"
                            THEN <<IF w.close.size = 0 THEN NORMAL ELSE w.close.code>>
                            ELSE <<IF CloseVerdict(w.close) = "1007" THEN 1007 ELSE 1002>>)>>
      [] OTHER -> <<>>

\* finish_frame of a control frame: a Pong with the same payload, the closing
\* handshake; a payload that is no Close is answered all the same, then fatal.
FinishControl(s, w) ==
    LET closed == [s EXCEPT !.close_received = TRUE, !.close_sent = TRUE, !.phase = "finished"]
    IN  CASE w.op = Ping -> [s |-> [s EXCEPT !.phase = "header"], ev |-> Event("ping", s.ctl)]
          [] w.op = Pong -> [s |-> [s EXCEPT !.phase = "header"], ev |-> Event("pong", s.ctl)]
          [] OTHER -> IF CloseVerdict(w.close) = "ok" THEN [s |-> closed, ev |-> Event("close", s.ctl)]
                      ELSE [s |-> Fatal(closed, "protocol"), ev |-> Nothing]

-----------------------------------------------------------------------------
(* Actions *)

\* The peer begins a frame, and its bytes arrive: one, the header, or up to any byte.
Arrive ==
    /\ ses.err = "none" /\ ses.phase # "finished"
    /\ \/ /\ line.frame = NoFrame /\ Len(past) < WsMaxFrames
          /\ \E w \in WsFrames : \E n \in {1, 2, HeaderLen(w) - 1} \cup (HeaderLen(w)..HeaderLen(w) + w.len) :
               line' = [frame |-> w, here |-> n, taken |-> 0]
       \/ /\ line.frame # NoFrame
          /\ LET all == HeaderLen(line.frame) + line.frame.len
             IN  \E n \in (IF line.here < HeaderLen(line.frame) THEN {HeaderLen(line.frame)} ELSE {})
                          \cup {line.here + 1, all} :
                   n \in line.here + 1..all /\ n > line.taken /\ line' = [line EXCEPT !.here = n]
    /\ UNCHANGED <<ses, said, told, past>>

\* poll_message: as far as the bytes go, an event, or an error.
PollMessage ==
    LET s1 == IF ses.phase = "header" THEN ReadHeader(ses, line) ELSE ses
        s2 == IF s1.phase = "payload" /\ s1.err = "none" THEN ReadPayload(s1, line) ELSE s1
        whole == s2.phase = "payload" /\ s2.err = "none" /\ s2.got = line.frame.len
        fin == IF IsControl(line.frame.op) THEN FinishControl(s2, line.frame) ELSE FinishData(s2, line.frame)
    IN  /\ ses.err = "none" /\ ses.phase # "finished"
        /\ line.frame # NoFrame /\ line.here > line.taken
        /\ IF whole
           THEN /\ ses' = [fin.s EXCEPT !.ctl = <<>>, !.got = 0]
                /\ told' = IF fin.ev = Nothing THEN told ELSE Append(told, fin.ev)
                /\ said' = IF IsControl(line.frame.op) THEN said \o Reply(s2, line.frame) ELSE said
                /\ past' = Append(past, line.frame)
                /\ line' = [frame |-> NoFrame, here |-> 0, taken |-> 0]
           ELSE /\ ses' = s2
                /\ line' = [line EXCEPT !.taken = line.here]
                /\ UNCHANGED <<told, said, past>>

\* Session::close by its owner; every later send of the owner is refused.
OwnClose ==
    /\ ~ses.close_sent /\ ses.err = "none" /\ ses.phase # "finished"
    /\ ses' = [ses EXCEPT !.close_sent = TRUE,
                          !.phase = IF ses.close_received THEN "finished" ELSE @]
    /\ said' = Append(said, Event("close", <<NORMAL>>))
    /\ UNCHANGED <<line, told, past>>

WsNext == Arrive \/ PollMessage \/ OwnClose

-----------------------------------------------------------------------------
(* Properties *)

DataEnds(n) == {i \in 1..n : ~IsControl(past[i].op) /\ past[i].fin}
Start(i) == Max({0} \cup DataEnds(i - 1))

\* The message that ends with frame i: the bodies of its data frames, in order.
Assembled(i) ==
    LET frames == SelectSeq(SubSeq(past, Start(i) + 1, i), LAMBDA w : ~IsControl(w.op))
        bytes == FlattenSeq([k \in DOMAIN frames |-> frames[k].body])
    IN  Event(IF Head(frames).op = Text THEN "text" ELSE "binary",
              IF Head(frames).rsv1 THEN Inflate(bytes) ELSE bytes)

Expected ==
    LET ends == SelectSeq([i \in 1..Len(past) |-> i], LAMBDA i : past[i].fin)
    IN  [k \in DOMAIN ends |->
            LET w == past[ends[k]]
            IN  CASE w.op = Ping -> Event("ping", w.body)
                  [] w.op = Pong -> Event("pong", w.body)
                  [] w.op = Close -> Event("close", w.body)
                  [] OTHER -> Assembled(ends[k])]

\* Every Ping before our Close is answered once with its payload, in order, and the
\* Close is sent once and last.
RepliesRight ==
    LET payloads(es, k) == LET of == SelectSeq(es, LAMBDA e : e.kind = k) IN [i \in DOMAIN of |-> of[i].data]
        pongs == payloads(said, "pong")
        pings == payloads(told, "ping")
    IN  /\ IsPrefix(pongs, pings) /\ (ses.close_sent \/ pongs = pings)
        /\ \A i \in DOMAIN said : said[i].kind = "close" => i = Len(said) /\ ses.close_sent
        /\ ses.close_received => ses.close_sent

\* However the bytes were cut, and whatever control frames came between the
\* fragments, the application is told exactly the messages the frames make up, and
\* no text that is not UTF-8 (poll_message "never loses" a partial frame); and the
\* replies of the session are those the frames call for.
MessagesWhole ==
    /\ RepliesRight
    /\ told = IF ses.err = "none" THEN Expected ELSE SubSeq(Expected, 1, Len(told))
    /\ \A i \in DOMAIN told : told[i].kind = "text" => WellFormed(told[i].data)

\* The frames taken, with the part of the frame under way that was taken, could be the
\* beginning of a legal stream from a peer of the right role.
OpenAt(n) == \E i \in 1..n : ~IsControl(past[i].op) /\ ~past[i].fin /\ \A j \in i + 1..n : j \notin DataEnds(n)
SoFar(n) == FlattenSeq([i \in 1..n |-> IF IsControl(past[i].op) \/ i <= Start(n + 1) THEN <<>> ELSE past[i].body])
LegalHere(w, n) ==
    /\ ParseOk(w) /\ ~w.rsv2 /\ w.masked = (ses.role = "server")
    /\ w.rsv1 => WsCompression /\ w.op \in {Text, Binary}
    /\ w.len <= WsMaxFrame
    /\ ~IsControl(w.op) => (w.op = Continuation) = OpenAt(n) /\ Len(SoFar(n)) + w.len <= WsMaxMessage
    /\ w.op = Close => CloseVerdict(w.close) = "ok"

\* A session that reports an error was given a stream that breaks a rule: the header,
\* its place in the message, a limit, the Close, or text that no bytes could complete.
ErrorsDeserved ==
    LET done == line.frame = NoFrame
        n == IF done THEN Len(past) - 1 ELSE Len(past)
        w == IF done THEN past[Len(past)] ELSE line.frame
        bytes == SoFar(n) \o (IF done THEN w.body
                              ELSE SubSeq(w.body, 1, Max({0, line.taken - HeaderLen(w)})))
        tails == {<<>>} \cup {<<b>> : b \in {128, 160}} \cup {<<b, 128>> : b \in {128, 144, 160}}
                 \cup {<<b, 128, 128>> : b \in {128, 144}}
        first == Head(SelectSeq(SubSeq(past, Start(n + 1) + 1, n) \o <<w>>, LAMBDA x : ~IsControl(x.op)))
    IN  ses.err # "none" =>
            \/ ~LegalHere(w, n)
            \/ WsMaxFragments # 0 /\ Len(SelectSeq(SubSeq(past, Start(n + 1) + 1, n),
                                                   LAMBDA x : ~IsControl(x.op))) >= WsMaxFragments
            \/ ~IsControl(w.op) /\ first.rsv1
            \/ ~IsControl(w.op) /\ first.op = Text
               /\ \A t \in (IF done /\ w.fin THEN {<<>>} ELSE tails) : ~WellFormed(bytes \o t)

\* The parser: every legal stream is told exactly, and only an illegal one is refused.
SessionExact == MessagesWhole /\ ErrorsDeserved
=============================================================================
