------------------------------ MODULE H3Message ------------------------------
(***************************************************************************)
(* What a stream of HTTP/3 frames means (drain_request_frames(),           *)
(* drain_response_frames()) and which field sections make a message        *)
(* (request_from_fields(), response_from_fields()): frames arrive one by   *)
(* one and then FIN.  A field is a name with what matters of its value:    *)
(* "len0" and "len1" are content-length 0 and 1, "status1" is an interim   *)
(* status, "status304" one that forbids a body and yet describes one.      *)
(***************************************************************************)
EXTENDS Integers, Sequences, SequencesExt, FiniteSets

CONSTANTS HmFields,    \* per side, the field names that sections are made of
          HmLen,       \* bound: fields of a section
          HmFrames,    \* bound: frames of a message
          HmMaxBody    \* max_body

ASSUME HmAssumption == {HmLen, HmFrames, HmMaxBody} \subseteq Nat

VARIABLES hmside,   \* "request" (the server reads), "response" (the client does), or "head":
                    \* a response to a HEAD, of which the client's reader is not told
          hmin,     \* the frames so far
          hmst      \* the ReceiveStream, and the verdict

hmvars == <<hmside, hmin, hmst>>

Pseudo == {"method", "path", "https", "http", "authority", "status1", "status2", "status304", "other"}
Status == {"status1", "status2", "status304"}
ConnectionFields == {"connection"}
Declares(f) == IF f = "len0" THEN 0 ELSE 1

NoFields == [set |-> FALSE, fields |-> <<>>]
HmInit ==
  /\ hmside \in {"request", "response", "head"}
  /\ hmin = <<>>
  /\ hmst = [headers |-> NoFields, trailers |-> NoFields, body |-> 0, verdict |-> "open"]

\* validate_content_length()
LengthsOk(fs, body) == \A i \in 1..Len(fs) : fs[i] \in {"len0", "len1"} => Declares(fs[i]) = body

\* The key under which request_from_fields() keeps a pseudo-header.
Slot(f) == IF f \in {"https", "http"} THEN "scheme" ELSE f

\* One field of request_from_fields_inner().
RequestStep(x, f) ==
  IF f \in Pseudo
  THEN [x EXCEPT !.ok = @ /\ ~x.regular /\ Slot(f) \in {"method", "path", "scheme", "authority"} /\ Slot(f) \notin x.seen,
                 !.seen = @ \cup {Slot(f)}, !.https = @ \/ f = "https"]
  ELSE [x EXCEPT !.regular = TRUE, !.ok = @ /\ f \notin ConnectionFields]

RequestFromFields(fs, body) ==
  LET x == FoldLeft(RequestStep, [ok |-> TRUE, regular |-> FALSE, seen |-> {}, https |-> FALSE], fs)
  IN x.ok /\ x.https /\ {"method", "path"} \subseteq x.seen /\ LengthsOk(fs, body)

\* response_from_fields_inner(): fields of the connection are not refused here.
ResponseFromFields(fs, body) ==
  LET x == FoldLeft(LAMBDA y, f :
                      IF f \in Status THEN [y EXCEPT !.ok = @ /\ ~y.regular /\ y.status = "none", !.status = f]
                      ELSE [y EXCEPT !.ok = @ /\ f \notin Pseudo, !.regular = TRUE],
                    [ok |-> TRUE, regular |-> FALSE, status |-> "none"], fs)
  IN /\ x.ok /\ x.status # "none" /\ LengthsOk(fs, body)
     /\ x.status \in {"status1", "status304"} => body = 0

\* response_trailers_from_fields()
TrailersFromFields(fs) == Range(fs) \cap (Pseudo \cup ConnectionFields \cup {"len0", "len1"}) = {}

\* A frame on a request stream.
RequestFrame(s, fr) ==
  CASE fr.k = "headers" -> IF s.headers.set THEN [s EXCEPT !.verdict = "connection error"]
                           ELSE [s EXCEPT !.headers = [set |-> TRUE, fields |-> fr.fields]]
    [] fr.k = "data" -> IF ~s.headers.set \/ s.body + 1 > HmMaxBody THEN [s EXCEPT !.verdict = "connection error"]
                        ELSE [s EXCEPT !.body = @ + 1]
    [] fr.k = "unknown" -> s
    [] fr.k = "control" -> [s EXCEPT !.verdict = "connection error"]

Interim(fs) == "status1" \in Range(fs)

\* A frame on a response stream.
ResponseFrame(s, fr) ==
  CASE fr.k = "headers" ->
         IF ~s.headers.set THEN IF Interim(fr.fields) THEN s ELSE [s EXCEPT !.headers = [set |-> TRUE, fields |-> fr.fields]]
         ELSE IF s.trailers.set THEN [s EXCEPT !.verdict = "connection error"]
         ELSE IF TrailersFromFields(fr.fields) THEN [s EXCEPT !.trailers = [set |-> TRUE, fields |-> fr.fields]]
         ELSE [s EXCEPT !.verdict = "stream error"]
    [] fr.k = "data" -> IF s.trailers.set \/ s.body + 1 > HmMaxBody THEN [s EXCEPT !.verdict = "connection error"]
                        ELSE [s EXCEPT !.body = @ + 1]
    [] fr.k = "unknown" -> s
    [] fr.k = "control" -> [s EXCEPT !.verdict = "connection error"]

\* FIN: the message is made, or refused.
AtFin(s) ==
  [s EXCEPT !.verdict =
     IF ~s.headers.set THEN "connection error"
     ELSE IF (hmside = "request" /\ RequestFromFields(s.headers.fields, s.body))
             \/ (hmside # "request" /\ ResponseFromFields(s.headers.fields, s.body))
     THEN "message" ELSE "stream error"]

Sections == UNION {[1..n -> HmFields[hmside]] : n \in 1..HmLen}

Takes(fr) ==
  /\ hmin' = Append(hmin, fr)
  /\ hmst' = IF hmside = "request" THEN RequestFrame(hmst, fr) ELSE ResponseFrame(hmst, fr)

\* Only a section that comes first ranges over all; another is small.
FrameArrives ==
  /\ hmst.verdict = "open" /\ Len(hmin) < HmFrames
  /\ \/ \E k \in {"data", "unknown", "control"} : Takes([k |-> k])
     \/ \E fs \in IF hmin = <<>> THEN Sections ELSE [1..1 -> HmFields[hmside]] : Takes([k |-> "headers", fields |-> fs])
  /\ UNCHANGED hmside

FinArrives ==
  /\ hmst.verdict = "open"
  /\ hmst' = AtFin(hmst)
  /\ UNCHANGED <<hmside, hmin>>

HmNext == FrameArrives \/ FinArrives

(***************************************************************************)
(* build_request_wire(), build_response_wire(): fields of the connection   *)
(* and pseudo-headers of the application are left out; the answer to a     *)
(* HEAD keeps the fields of the GET's and loses its body                   *)
(* (materialize_response()).                                               *)
(***************************************************************************)
Sendable(extra) == SelectSeq(extra, LAMBDA f : f \notin Pseudo \cup ConnectionFields)
BuildRequest(extra) == <<"method", "https", "authority", "path">> \o Sendable(extra)

\* materialize_response(): a HEAD leaves the content out, and only that.
Materialized(body, head) == IF head THEN 0 ELSE body
BuildResponse(status, extra, body, head) ==
  [fields |-> <<status>> \o Sendable(extra), body |-> Materialized(body, head)]

(***************************************************************************)
(* Properties.                                                             *)
(***************************************************************************)
\* The lengths a section declares agree with the body.
LengthsAgree(fs, body) ==
  {"len0", "len1"} \cap Range(fs) \subseteq {IF body = 0 THEN "len0" ELSE IF body = 1 THEN "len1" ELSE "none"}

\* A section is a request's when its pseudo-headers come first, once each, with the
\* ones there must be, and the rest agrees with the body.
IsRequest(fs, body) ==
  /\ LengthsAgree(fs, body)
  /\ \E n \in 0..Len(fs) :
       LET ps == {fs[i] : i \in 1..n}
       IN /\ Cardinality(ps) = n /\ {"method", "path", "https"} \subseteq ps
          /\ ps \subseteq {"method", "path", "https", "authority"}
          /\ \A i \in (n + 1)..Len(fs) : fs[i] \notin Pseudo \cup ConnectionFields

\* A response to a HEAD and a 304 describe a body that they do not have.
Describes(fs) == hmside = "head" \/ fs[1] = "status304"

\* A section is a response's when one status comes first and no other pseudo-header.
IsResponse(fs, body) ==
  /\ fs[1] \in Status
  /\ IF Describes(fs) THEN body = 0 ELSE LengthsAgree(fs, body)
  /\ fs[1] # "status2" => body = 0
  /\ \A i \in 2..Len(fs) : fs[i] \notin Pseudo

\* What the frames say, read as a whole.
OfKind(k) == {i \in 1..Len(hmin) : hmin[i].k = k}
FinalHeaders == {i \in OfKind("headers") : hmside = "request" \/ ~Interim(hmin[i].fields)}

\* A message is accepted exactly when it is one: no control frame is among its frames,
\* its first final section makes a request or a response for the data that came, a
\* request has no second section and a response at most one, of trailers, after which
\* no data.
IsMessage ==
  /\ OfKind("control") = {}
  /\ \E h \in FinalHeaders :
       LET body == Cardinality(OfKind("data"))
           later == {i \in OfKind("headers") : i > h}
       IN /\ \A i \in OfKind("headers") : i < h => i \notin FinalHeaders
          /\ body <= HmMaxBody
          /\ IF hmside = "request"
             THEN later = {} /\ IsRequest(hmin[h].fields, body) /\ \A i \in OfKind("data") : i > h
             ELSE /\ Cardinality(later) <= 1 /\ IsResponse(hmin[h].fields, body)
                  /\ \A t \in later : Range(hmin[t].fields) \subseteq {"x"} /\ \A i \in OfKind("data") : i < t

\* response_from_fields() knows neither the method nor the 304: it refuses one that
\* describes a body, and takes the answer to a HEAD that has one.
DescriptionRefused(fs, body) == hmside # "request" /\ Describes(fs) /\ body = 0 /\ ~LengthsAgree(fs, body)
BodyTaken(fs, body) == hmside = "head" /\ body > 0 /\ LengthsAgree(fs, body)

\* The verdict on a stream of frames is the one its definition as a whole gives, but for
\* the two cases of a response without a body above.  What this code builds, with a
\* content-length that is the body's, it also takes, but for its own answer to a HEAD
\* that says the length of the GET's body.
MessagesExact ==
  /\ hmst.verdict = "message" =>
       IsMessage \/ BodyTaken(hmst.headers.fields, hmst.body)
  /\ hmst.verdict \notin {"open", "message"} =>
       ~IsMessage \/ DescriptionRefused(hmst.headers.fields, hmst.body)
  /\ hmst.headers.set =>
       LET extra == hmst.headers.fields IN
       LengthsAgree(extra, hmst.body) =>
         /\ RequestFromFields(BuildRequest(extra), hmst.body)
         /\ \A head \in BOOLEAN :
              LET r == BuildResponse("status2", extra, hmst.body, head)
              IN ResponseFromFields(r.fields, r.body) <=> ~(head /\ hmst.body > 0 /\ "len1" \in Range(extra))
=============================================================================
