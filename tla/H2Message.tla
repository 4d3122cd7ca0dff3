------------------------------ MODULE H2Message ------------------------------
(***************************************************************************)
(* How a `Connection' makes messages out of bytes: frames that arrive in   *)
(* pieces (FrameReader, read_and_process_one()), what a frame must look    *)
(* like (Frame::parse()), header blocks cut into HEADERS and CONTINUATION  *)
(* (PendingHeaders), which blocks make a message (validate_header_block()) *)
(* and the length a message declares.  One stream is followed, at a server *)
(* that reads a request or at a client that reads a response.  A field is  *)
(* a name with what matters of its value: "nopath" is an empty :path,      *)
(* "ctl" a value with a control character, "s100", "s204" are statuses.    *)
(***************************************************************************)
EXTENDS Integers, Sequences, SequencesExt, FiniteSets, FiniteSetsExt

CONSTANTS HbRoles,     \* [client, head]: which end reads, and whether it asked with HEAD
          HbGood,      \* frames of the right form, towards a server (FALSE) and a client (TRUE)
          HbBad,       \* frames that break one rule: [f, scope] with RFC 9113's scope of the error
          HbFrames,    \* bound: frames sent
          HbHdr,       \* cells of a frame header, nine octets in the code
          HbMaxFrame,  \* our max_frame_size
          HbCap        \* local_header_cap, in fields

ASSUME HbAssumption == HbFrames \in Nat /\ HbHdr \in Nat \ {0} /\ HbMaxFrame \in Nat /\ HbCap \in Nat

VARIABLES hbrole, hbsent,  \* the reading end, the frames the peer has sent
          hbwire,          \* cells <<frame, offset>> that were sent and not yet read
          hbread,          \* FrameReader: header cells, the header once it is whole, payload cells
          hb               \* Connection: pending_headers, the stream, the events, closed

hbvars == <<hbrole, hbsent, hbwire, hbread, hb>>

NoHead == [k |-> "none"]
NoBlock == [sid |-> 0, block |-> <<>>, end |-> FALSE]
EmptyReader == [hdr |-> <<>>, head |-> NoHead, got |-> <<>>]

HbInit ==
  /\ hbrole \in HbRoles
  /\ hbsent = <<>> /\ hbwire = <<>> /\ hbread = EmptyReader
  /\ hb = [conn |-> "ok", pending |-> NoBlock, events |-> <<>>,
           st |-> IF hbrole.client THEN "hcl" ELSE "idle",
           delivered |-> FALSE, cl |-> -1, body |-> 0, expects |-> ~hbrole.head]

(***************************************************************************)
(* Frame::parse(): the stream, the length and the padding of each kind.    *)
(***************************************************************************)
\* `pad' is the declared padding, -1 without the flag (strip_padding()).
DataOk(f) == f.sid # 0 /\ f.pad < f.len
HeadersOk(f) ==
  LET rest == f.len - (IF f.pad >= 0 THEN 1 ELSE 0) - (IF f.prio THEN 5 ELSE 0)
  IN f.sid # 0 /\ rest >= 0 /\ f.pad <= rest
PriorityOk(f) == f.sid # 0 /\ f.len = 5
RstOk(f) == f.sid # 0 /\ f.len = 4
SettingsOk(f) == f.sid = 0 /\ IF f.ack THEN f.len = 0 ELSE f.len % 6 = 0
PushOk(f) == f.sid # 0 /\ f.len >= 4
PingOk(f) == f.sid = 0 /\ f.len = 8
GoAwayOk(f) == f.sid = 0 /\ f.len >= 8
WindowUpdateOk(f) == f.len = 4 /\ f.value # 0
ContinuationOk(f) == f.sid # 0
PriorityUpdateOk(f) == f.sid = 0 /\ f.len >= 4 /\ f.value # 0

Parses(f) ==
  CASE f.k = "data" -> DataOk(f)
    [] f.k = "headers" -> HeadersOk(f)
    [] f.k = "priority" -> PriorityOk(f)
    [] f.k = "rst" -> RstOk(f)
    [] f.k = "settings" -> SettingsOk(f)
    [] f.k = "push" -> PushOk(f)
    [] f.k = "ping" -> PingOk(f)
    [] f.k = "goaway" -> GoAwayOk(f)
    [] f.k = "window_update" -> WindowUpdateOk(f)
    [] f.k = "continuation" -> ContinuationOk(f)
    [] f.k = "priority_update" -> PriorityUpdateOk(f)
    [] OTHER -> TRUE

\* The two malformed frames that concern their stream alone.
StreamScoped(f) ==
  \/ f.k = "priority" /\ f.sid # 0 /\ f.len # 5
  \/ f.k = "window_update" /\ f.sid # 0 /\ f.len = 4 /\ f.value = 0

(***************************************************************************)
(* Errors.  close_stream() takes the stream out of the table.              *)
(***************************************************************************)
HbConnError(s) == [s EXCEPT !.conn = "error"]
Note(s, e) == [s EXCEPT !.events = Append(@, e)]
HbStreamError(s, sid) ==
  IF sid # 1 THEN s
  ELSE [(IF s.st = "idle" THEN s ELSE Note(s, [k |-> "error"])) EXCEPT !.st = "reset"]

(***************************************************************************)
(* validate_header_block(), parse_content_length().                        *)
(***************************************************************************)
HbPseudo == {"GET", "HEAD", "CONNECT", "scheme", "path", "nopath", "auth", "s100", "s200", "s204", "sbad", "other"}
HbSlot(f) ==
  CASE f \in {"GET", "HEAD", "CONNECT"} -> "method"
    [] f \in {"path", "nopath"} -> "path"
    [] f \in {"s100", "s200", "s204", "sbad"} -> "status"
    [] OTHER -> f
HopFields == {"connection", "tebad"}
FramingFields == {"len0", "len1", "lenbad", "te"}

\* One field of the loop.
CheckField(x, f, request, trailer) ==
  IF f \in HbPseudo
  THEN [x EXCEPT !.seen = @ \cup {HbSlot(f)},
                 !.ok = @ /\ ~x.regular /\ ~trailer /\ HbSlot(f) \notin x.seen /\ f # "sbad"
                          /\ HbSlot(f) \in IF request THEN {"method", "scheme", "path", "auth"} ELSE {"status"}]
  ELSE [x EXCEPT !.regular = TRUE,
                 !.ok = @ /\ f # "ctl" /\ f \notin HopFields /\ (trailer => f \notin FramingFields)]

\* What must be there once all fields were seen.
Complete(fs, seen, request) ==
  IF ~request THEN "status" \in seen
  ELSE IF Contains(fs, "CONNECT") THEN seen \cap {"scheme", "path"} = {} /\ "auth" \in seen
  ELSE {"method", "scheme", "path"} \subseteq seen /\ ~Contains(fs, "nopath")

ValidateHeaderBlock(fs, request, trailer) ==
  LET x == FoldLeft(LAMBDA y, f : CheckField(y, f, request, trailer),
                    [ok |-> TRUE, regular |-> FALSE, seen |-> {}], fs)
  IN x.ok /\ (trailer \/ Complete(fs, x.seen, request))

\* The values content-length fields declare; two that differ, or one that is no
\* number, end the connection.
Lengths(fs) == Range(fs) \cap {"len0", "len1", "lenbad"}
LengthParses(fs) == Cardinality(Lengths(fs)) <= 1 /\ "lenbad" \notin Lengths(fs)
ContentLength(fs) == IF Lengths(fs) = {} THEN -1 ELSE IF "len0" \in Lengths(fs) THEN 0 ELSE 1

\* verify_content_length()
LengthHolds(s) == IF s.expects THEN s.cl = -1 \/ s.body = s.cl ELSE s.body = 0

\* The peer has ended its side.
RemoteEnds(s) == [s EXCEPT !.st = IF @ = "open" THEN "hcr" ELSE IF @ = "hcl" THEN "gone" ELSE @]

\* The end of a message: the event if the length holds, or else a reset.
EndsWith(s, e) == IF LengthHolds(s) THEN Note(s, e) ELSE HbStreamError(s, 1)

(***************************************************************************)
(* finish_header_block()                                                   *)
(***************************************************************************)
HasAny(fs, set) == Range(fs) \cap set # {}
HeadEvent(fs, end) == [k |-> "headers", fields |-> fs, end |-> end, size |-> 0]

\* A request opens the stream.
NewStream(s, fs, end) ==
  LET t == [s EXCEPT !.st = IF end THEN "hcr" ELSE "open", !.delivered = TRUE,
                     !.cl = ContentLength(fs), !.expects = ~HasAny(fs, {"HEAD", "CONNECT"})]
  IN IF ~ValidateHeaderBlock(fs, TRUE, FALSE) THEN HbStreamError(s, 1)
     ELSE IF ~LengthParses(fs) THEN HbConnError(s)
     ELSE IF end THEN EndsWith(t, HeadEvent(fs, TRUE)) ELSE Note(t, HeadEvent(fs, FALSE))

\* A block behind the head is taken as trailers and ends the message, whatever its flag says.
HbTrailers(s, fs) ==
  IF ~ValidateHeaderBlock(fs, FALSE, TRUE) THEN HbStreamError(s, 1)
  ELSE IF LengthHolds(s) THEN RemoteEnds(Note(s, [k |-> "trailers", fields |-> fs, end |-> TRUE, size |-> 0]))
  ELSE HbStreamError(s, 1)

\* The head of a response; an interim one is passed over.
ResponseHead(s, fs, end) ==
  LET t == [s EXCEPT !.delivered = TRUE, !.cl = ContentLength(fs), !.expects = @ /\ ~Contains(fs, "s204")]
      u == IF end THEN RemoteEnds(t) ELSE t
  IN IF ~ValidateHeaderBlock(fs, FALSE, FALSE) THEN HbStreamError(s, 1)
     ELSE IF ~LengthParses(fs) THEN HbConnError(s)
     ELSE IF Contains(fs, "s100") THEN IF end THEN HbStreamError(s, 1) ELSE s
     ELSE IF end THEN EndsWith(u, HeadEvent(fs, TRUE)) ELSE Note(u, HeadEvent(fs, FALSE))

FinishHeaderBlock(s, p) ==
  IF Len(p.block) > HbCap THEN HbConnError(s)
  ELSE IF p.sid # 1 THEN IF ValidateHeaderBlock(p.block, FALSE, FALSE) THEN HbConnError(s) ELSE s
  ELSE IF s.st = "idle" THEN NewStream(s, p.block, p.end)
  ELSE IF s.delivered THEN HbTrailers(s, p.block)
  ELSE ResponseHead(s, p.block, p.end)

\* on_data(), without its windows.
HbOnData(s, f) ==
  LET size == f.len - (IF f.pad >= 0 THEN f.pad + 1 ELSE 0)
      t == [s EXCEPT !.body = @ + size]
      e == [k |-> "data", end |-> f.end, size |-> size]
  IN IF f.sid # 1 \/ s.st = "idle" THEN HbConnError(s)
     ELSE IF ~s.expects \/ s.st = "hcr" THEN HbStreamError(s, 1)
     ELSE IF f.end THEN LET u == RemoteEnds(t) IN EndsWith(u, e) ELSE Note(t, e)

(***************************************************************************)
(* process_frame()                                                         *)
(***************************************************************************)
\* A frame while a header block is incomplete.
OnContinuation(s, f) ==
  IF f.k # "continuation" \/ f.sid # s.pending.sid THEN HbConnError(s)
  ELSE IF Len(s.pending.block) + Len(f.block) > HbCap THEN HbConnError(s)
  ELSE LET p == [s.pending EXCEPT !.block = @ \o f.block]
       IN IF f.eh THEN FinishHeaderBlock([s EXCEPT !.pending = NoBlock], p) ELSE [s EXCEPT !.pending = p]

\* Frames that do not concern the message are accepted here and left to the other models.
ProcessFrame(s, f) ==
  IF s.pending.sid # 0 THEN OnContinuation(s, f)
  ELSE CASE f.k = "headers" ->
              LET p == [sid |-> f.sid, block |-> f.block, end |-> f.end]
              IN IF f.eh THEN FinishHeaderBlock(s, p) ELSE [s EXCEPT !.pending = p]
         [] f.k = "data" -> HbOnData(s, f)
         [] f.k \in {"push", "continuation"} -> HbConnError(s)
         [] f.k = "priority_update" -> IF hbrole.client THEN HbConnError(s) ELSE s
         [] OTHER -> s

(***************************************************************************)
(* read_and_process_one(): the header and then the payload, as far as the  *)
(* transport has them; what was read stays in the reader.                  *)
(***************************************************************************)
\* The header that nine octets make: a frame's own, if they are its first ones.
Garbage == [k |-> "garbage", len |-> 0]
HeaderOf(cells) ==
  IF \A j \in 1..HbHdr : cells[j] = <<cells[1][1], j>> THEN hbsent[cells[1][1]] ELSE Garbage

Whole(s, f) ==
  IF StreamScoped(f) THEN HbStreamError(s, f.sid)
  ELSE IF f.k = "garbage" \/ ~Parses(f) THEN HbConnError(s)
  ELSE ProcessFrame(s, f)

\* Faulty variant: a payload that is not there yet makes the reader start again.
ReadFramePayloadAgain(hdr, f, got, rest, m) ==
  LET new == got \o SubSeq(rest, 1, m)
  IN /\ hbwire' = SubSeq(rest, m + 1, Len(rest))
     /\ hbread' = EmptyReader
     /\ IF Len(new) < f.len THEN UNCHANGED hb ELSE hb' = Whole(hb, f)

\* A read of the payload that finds m cells.
ReadFramePayload(hdr, f, got, rest, m) ==
  LET new == got \o SubSeq(rest, 1, m)
  IN /\ hbwire' = SubSeq(rest, m + 1, Len(rest))
     /\ IF Len(new) < f.len
        THEN hbread' = [hdr |-> hdr, head |-> f, got |-> new] /\ UNCHANGED hb
        ELSE hbread' = EmptyReader /\ hb' = Whole(hb, f)

ReadFrameHeader ==
  /\ hb.conn = "ok" /\ hbread.head = NoHead
  /\ \E n \in 1..Min({HbHdr - Len(hbread.hdr), Len(hbwire)}) :
       LET hdr == hbread.hdr \o SubSeq(hbwire, 1, n)
           rest == SubSeq(hbwire, n + 1, Len(hbwire))
       IN IF Len(hdr) < HbHdr
          THEN hbread' = [hbread EXCEPT !.hdr = hdr] /\ hbwire' = rest /\ UNCHANGED hb
          ELSE LET f == HeaderOf(hdr)
               IN IF f.len > HbMaxFrame
                  THEN hb' = HbConnError(hb) /\ hbwire' = rest /\ hbread' = [hbread EXCEPT !.hdr = hdr]
                  ELSE \E m \in 0..Min({f.len, Len(rest)}) : ReadFramePayload(hdr, f, <<>>, rest, m)
  /\ UNCHANGED <<hbrole, hbsent>>

ReadRest ==
  /\ hb.conn = "ok" /\ hbread.head # NoHead
  /\ \E m \in 1..Min({hbread.head.len - Len(hbread.got), Len(hbwire)}) :
       ReadFramePayload(hbread.hdr, hbread.head, hbread.got, hbwire, m)
  /\ UNCHANGED <<hbrole, hbsent>>

\* The peer's next frame, until the stream is over.  Of the frames that are out of place
\* inside a header block, or outside of one, a few stand for all.
PeerSends ==
  /\ hbwire = <<>> /\ Len(hbsent) < HbFrames
  /\ hb.conn = "ok" /\ hb.st \notin {"reset", "gone"}
  /\ \E f \in HbGood[hbrole.client] \cup {b.f : b \in HbBad} :
       /\ IF hb.pending.sid # 0 THEN f.k \in {"continuation", "data", "ping"} ELSE f.k = "continuation" => f.block = <<"x">>
       /\ hbsent' = Append(hbsent, f)
       /\ hbwire' = [j \in 1..(HbHdr + f.len) |-> <<Len(hbsent) + 1, j>>]
  /\ UNCHANGED <<hbrole, hbread, hb>>

HbNext == PeerSends \/ ReadFrameHeader \/ ReadRest

(***************************************************************************)
(* Properties.  What the frames say, read as a whole.                      *)
(***************************************************************************)
SentOf(k) == {i \in 1..Len(hbsent) : hbsent[i].k = k}
\* Where the block that begins with frame i ends, 0 if it does not.
BlockEnd(i) ==
  LET last == {j \in i..Len(hbsent) : hbsent[j].eh /\ \A l \in (i + 1)..j : hbsent[l].k = "continuation"}
  IN IF last = {} THEN 0 ELSE Min(last)
BlockOf(i) ==
  IF i = 0 THEN <<>> ELSE FlattenSeq([j \in 1..(BlockEnd(i) - i + 1) |-> hbsent[i + j - 1].block])

\* Pseudo-headers first, once each and of the message's kind, and no field of the connection.
InForm(fs, pseudo) ==
  \E n \in 0..Len(fs) :
    /\ \A i \in 1..n : fs[i] \in pseudo /\ \A j \in 1..(i - 1) : HbSlot(fs[i]) # HbSlot(fs[j])
    /\ \A i \in (n + 1)..Len(fs) : fs[i] \in {"x", "te", "len0", "len1", "lenbad"}
IsRequestBlock(fs) ==
  /\ InForm(fs, {"GET", "HEAD", "CONNECT", "scheme", "path", "auth"})
  /\ IF HasAny(fs, {"CONNECT"}) THEN HasAny(fs, {"auth"}) /\ ~HasAny(fs, {"scheme", "path"})
     ELSE HasAny(fs, {"GET", "HEAD"}) /\ HasAny(fs, {"scheme"}) /\ HasAny(fs, {"path"})
IsResponseBlock(fs) == InForm(fs, {"s100", "s200", "s204"}) /\ HasAny(fs, {"s100", "s200", "s204"})
IsHead(fs) == IF hbrole.client THEN IsResponseBlock(fs) ELSE IsRequestBlock(fs)
IsTrailers(fs) == Range(fs) \subseteq {"x"}

\* The peer keeps to RFC 9113: fragments of a block follow each other; heads come first,
\* of which only the last is final; then data, then at most one block of trailers; the
\* last of these, and nothing else, ends the message, which is as long as it says.
OnOne == {i \in 1..Len(hbsent) : hbsent[i].sid = 1 /\ hbsent[i].k \in {"headers", "data"}}
Final == {i \in SentOf("headers") : ~HasAny(BlockOf(i), {"s100"})}
BodySent == FoldLeft(LAMBDA n, f : IF f.k = "data" THEN n + f.len - (IF f.pad >= 0 THEN f.pad + 1 ELSE 0) ELSE n, 0, hbsent)
PeerConforms ==
  /\ Range(hbsent) \subseteq HbGood[hbrole.client]
  /\ \A i \in 1..Len(hbsent) :
       (hbsent[i].k = "continuation") <=> (i > 1 /\ hbsent[i - 1].k \in {"headers", "continuation"} /\ ~hbsent[i - 1].eh)
  /\ \A i \in 1..Len(hbsent) : hbsent[i].sid # 3
  /\ \A i \in SentOf("headers") : BlockEnd(i) # 0 /\ Len(BlockOf(i)) <= HbCap
  /\ hbrole.client => SentOf("priority_update") = {}
  /\ \A i \in OnOne : hbsent[i].end => \A j \in OnOne : j <= i
  /\ \E h \in Final \cup {0} :
       LET fs == BlockOf(h)
           later == {i \in SentOf("headers") : i > h}
           bare == hbrole.head \/ HasAny(fs, {"HEAD", "CONNECT", "s204"})
           ended == \E i \in OnOne : hbsent[i].end
       IN /\ h = 0 => OnOne = {} \/ \A i \in OnOne : hbrole.client
          /\ \A i \in SentOf("headers") :
               CASE i < h \/ h = 0 -> hbrole.client /\ IsResponseBlock(BlockOf(i)) /\ HasAny(BlockOf(i), {"s100"}) /\ ~hbsent[i].end
                 [] i = h -> IsHead(fs) /\ LengthParses(fs)
                 [] OTHER -> IsTrailers(BlockOf(i)) /\ hbsent[i].end
          /\ \A i \in SentOf("headers") : LengthParses(BlockOf(i))
          /\ Cardinality(later) <= 1
          /\ \A i \in SentOf("data") : h # 0 /\ i > h
          /\ bare => SentOf("data") = {}
          /\ (ended /\ ~bare) => ContentLength(fs) \in {-1, BodySent}

\* The application gets heads and trailers that are ones, each put together from the
\* fragments of one block, and sees the end of a message only when all that it declares
\* has come (process_frame(), validate_header_block(), verify_content_length()).
EventsDeserved ==
  \A i \in 1..Len(hb.events) :
    LET e == hb.events[i]
        body == FoldLeft(LAMBDA n, x : IF x.k = "error" THEN n ELSE n + x.size, 0, SubSeq(hb.events, 1, i))
    IN /\ e.k = "headers" => IsHead(e.fields) /\ LengthParses(e.fields)
       /\ e.k = "trailers" => IsTrailers(e.fields)
       /\ e.k \in {"headers", "trailers"} => \E j \in SentOf("headers") : BlockOf(j) = e.fields
       /\ (e.k # "error" /\ e.end) => IF hb.expects THEN hb.cl \in {-1, body} ELSE body = 0

\* What a malformed frame costs is what RFC 9113 says it does: its stream, or the
\* connection; inside a header block it may always be the connection.
ScopeKept ==
  LET last == Last(hbsent)
  IN (hbsent # <<>> /\ hbwire = <<>> /\ hbread = EmptyReader /\ Range(Front(hbsent)) \subseteq HbGood[hbrole.client] /\ hb.pending = NoBlock) =>
       \A b \in HbBad : b.f = last =>
         IF b.scope = "connection" THEN hb.conn = "error" \/ hb.st \in {"reset", "gone"}
         ELSE hb.conn = "ok" /\ (last.sid = 1 => hb.st = "reset")

\* However the bytes are cut, the frames of a peer that keeps to the protocol give its
\* message: no error of the connection and no reset.
ConformingKept == PeerConforms => hb.conn = "ok" /\ hb.st # "reset"

\* The three together: what a Connection makes of the frames on a stream.
BlocksExact == EventsDeserved /\ ScopeKept /\ ConformingKept
=============================================================================
