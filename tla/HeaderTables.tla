---------------------------- MODULE HeaderTables ----------------------------
(***************************************************************************)
(* The two compressions of header fields, each with the dynamic table that *)
(* its two ends must keep alike: HPACK for HTTP/2 and QPACK for HTTP/3.    *)
(***************************************************************************)
EXTENDS Integers, Sequences, SequencesExt

(***************************************************************************)
(* HPACK (courierust_hpack): an Encoder, the header blocks and SETTINGS    *)
(* acknowledgements it sends in order, and a decoder.  The receiver may    *)
(* change SETTINGS_HEADER_TABLE_SIZE at any time.  A field is              *)
(* <<name, value>>; sizes count in units of one entry's overhead, so an    *)
(* entry weighs HpSize[name].                                              *)
(***************************************************************************)
CONSTANTS HpBlocks,      \* the header lists that are sent
          HpMax,         \* bound: how many
          HpSizes,       \* table sizes the receiver announces
          HpChanges,     \* bound: how often
          HpSize,        \* the size of an entry, by name
          HpStatic,      \* the static table
          HpSensitive,   \* names that are never indexed
          HpUnindexed    \* values should_index() refuses

ASSUME HpAssumption == HpMax \in Nat /\ HpChanges \in Nat /\ HpSizes \subseteq Nat /\ HpSizes # {}

VARIABLES hpe,     \* the encoder: table, pending size update
          hpd,     \* the decoder: table, the size it allows, the smallest it acknowledged
          hpw      \* the wire in both directions, and the outcome

hpvars == <<hpe, hpd, hpw>>

DefaultSize == CHOOSE n \in HpSizes : \A m \in HpSizes : m <= n
NoUpdate == [min |-> -1, newest |-> -1]
FreshTable == [entries |-> <<>>, max |-> DefaultSize]

HpInit ==
  /\ hpe = [tab |-> FreshTable, pending |-> NoUpdate, sent |-> 0]
  /\ hpd = [tab |-> FreshTable, limit |-> DefaultSize, owed |-> -1]
  /\ hpw = [there |-> <<>>, back |-> <<>>, changes |-> 0, out |-> {}, failed |-> FALSE]

(***************************************************************************)
(* DynamicTable and Table.                                                 *)
(***************************************************************************)
TableSize(es) == FoldLeft(LAMBDA n, f : n + HpSize[f[1]], 0, es)

\* evict_to(): the newest entries that fit.
EvictTo(es, budget) ==
  LET fits == {n \in 0..Len(es) : TableSize(SubSeq(es, 1, n)) <= budget}
  IN SubSeq(es, 1, CHOOSE n \in fits : \A m \in fits : m <= n)

SetMaxSize(t, n) == [entries |-> EvictTo(t.entries, n), max |-> n]

\* insert(): an entry that does not fit empties the table.
InsertField(t, f) ==
  IF HpSize[f[1]] > t.max THEN [t EXCEPT !.entries = <<>>]
  ELSE [t EXCEPT !.entries = <<f>> \o EvictTo(@, t.max - HpSize[f[1]])]

\* find_full(), find_name(): the dynamic table first, 0 when there is none.
FindIn(t, P(_)) ==
  LET es == HpStatic \o t.entries
      is == {i \in 1..Len(es) : P(es[i])}
      dyn == {i \in is : i > Len(HpStatic)}
      best == IF dyn # {} THEN dyn ELSE is
  IN IF is = {} THEN 0 ELSE CHOOSE i \in best : \A j \in best : i <= j

EntryAt(t, i) == (HpStatic \o t.entries)[i]

(***************************************************************************)
(* The encoder.                                                            *)
(***************************************************************************)
\* Faulty variant: only the newest size is kept.
SetPeerTableSizeLast(n) == [hpe EXCEPT !.pending = [min |-> n, newest |-> n]]

\* set_peer_table_size()
SetPeerTableSize(n) ==
  [hpe EXCEPT !.pending = [min |-> IF @ # NoUpdate /\ @.min < n THEN @.min ELSE n, newest |-> n]]

\* SETTINGS arrive and are acknowledged.
OnSettings ==
  /\ hpw.back # <<>>
  /\ hpe' = SetPeerTableSize(Head(hpw.back))
  /\ hpw' = [hpw EXCEPT !.back = Tail(@), !.there = Append(@, [k |-> "ack", size |-> Head(hpw.back)])]
  /\ UNCHANGED hpd

\* One field of encode().
HpackField(x, f) ==
  LET whole == FindIn(x.tab, LAMBDA g : g = f)
      name == FindIn(x.tab, LAMBDA g : g[1] = f[1])
      literal(k) == [k |-> k, i |-> name, n |-> f[1], v |-> f[2]]
      rep(r) == [x EXCEPT !.reps = Append(@, r)]
  IN IF f[1] \in HpSensitive THEN rep(literal("never"))
     ELSE IF whole # 0 THEN rep([k |-> "indexed", i |-> whole])
     ELSE IF f[2] \in HpUnindexed THEN rep(literal("plain"))
     ELSE [rep(literal("insert")) EXCEPT !.tab = InsertField(@, f)]

\* encode(): the size updates that are due, smallest first, then the fields.
EncodeBlock(fs) ==
  /\ hpe.sent < HpMax
  /\ LET p == hpe.pending
         updates == IF p = NoUpdate THEN <<>> ELSE IF p.min # p.newest THEN <<p.min, p.newest>> ELSE <<p.newest>>
         tab == FoldLeft(SetMaxSize, hpe.tab, updates)
         x == FoldLeft(HpackField, [tab |-> tab, reps |-> [i \in 1..Len(updates) |-> [k |-> "size", n |-> updates[i]]]], fs)
     IN /\ hpe' = [tab |-> x.tab, pending |-> NoUpdate, sent |-> hpe.sent + 1]
        /\ hpw' = [hpw EXCEPT !.there = Append(@, [k |-> "block", reps |-> x.reps, of |-> fs])]
  /\ UNCHANGED hpd

(***************************************************************************)
(* The decoder.                                                            *)
(***************************************************************************)
\* One representation of decode(): y carries the table, the fields and whether it failed.
DecodeRep(y, r) ==
  CASE r.k = "size" -> IF r.n > hpd.limit \/ y.fields # <<>> THEN [y EXCEPT !.bad = TRUE]
                       ELSE [y EXCEPT !.tab = SetMaxSize(@, r.n), !.low = IF @ < 0 \/ r.n < @ THEN r.n ELSE @]
    [] r.k = "indexed" -> IF r.i > Len(HpStatic \o y.tab.entries) THEN [y EXCEPT !.bad = TRUE]
                          ELSE [y EXCEPT !.fields = Append(@, <<EntryAt(y.tab, r.i), FALSE>>)]
    [] OTHER ->
         LET n == IF r.i = 0 THEN r.n ELSE EntryAt(y.tab, r.i)[1]
             f == <<n, r.v>>
         IN IF r.i > Len(HpStatic \o y.tab.entries) THEN [y EXCEPT !.bad = TRUE]
            ELSE [y EXCEPT !.fields = Append(@, <<f, r.k = "never">>),
                           !.tab = IF r.k = "insert" THEN InsertField(@, f) ELSE @]

\* decode(), by a receiver that insists, as RFC 7541 4.2 lets it, on hearing of the
\* smallest size it has had acknowledged.
DecodeBlock ==
  /\ hpw.there # <<>> /\ Head(hpw.there).k = "block" /\ ~hpw.failed
  /\ LET b == Head(hpw.there)
         y == FoldLeft(DecodeRep, [tab |-> hpd.tab, fields |-> <<>>, bad |-> FALSE, low |-> -1], b.reps)
         insisted == hpd.owed >= 0 /\ (y.low < 0 \/ y.low > hpd.owed)
     IN /\ hpd' = [hpd EXCEPT !.tab = y.tab, !.owed = -1]
        /\ hpw' = [hpw EXCEPT !.there = Tail(@), !.failed = y.bad \/ insisted,
                              !.out = @ \cup {<<b.of, [i \in 1..Len(y.fields) |-> y.fields[i]]>>}]
  /\ UNCHANGED hpe

\* The receiver announces a size; once acknowledged it is what it allows.
Announce ==
  /\ hpw.changes < HpChanges
  /\ \E n \in HpSizes : hpw' = [hpw EXCEPT !.changes = @ + 1, !.back = Append(@, n)]
  /\ UNCHANGED <<hpe, hpd>>

OnSettingsAck ==
  /\ hpw.there # <<>> /\ Head(hpw.there).k = "ack"
  /\ LET n == Head(hpw.there).size
     IN hpd' = [hpd EXCEPT !.limit = n, !.owed = IF n < hpd.tab.max /\ (@ < 0 \/ n < @) THEN n ELSE @]
  /\ hpw' = [hpw EXCEPT !.there = Tail(@)]
  /\ UNCHANGED hpe

HpNext ==
  \/ OnSettings \/ DecodeBlock \/ Announce \/ OnSettingsAck
  \/ \E fs \in HpBlocks : EncodeBlock(fs)

(***************************************************************************)
(* The property of HPACK.                                                  *)
(***************************************************************************)
\* Every block decodes to the fields that were encoded, a sensitive one still marked so,
\* and both tables are the same once all is delivered, through any changes of size.
TablesAgree ==
  /\ ~hpw.failed
  /\ \A x \in hpw.out : x[2] = [i \in 1..Len(x[1]) |-> <<x[1][i], x[1][i][1] \in HpSensitive>>]
  /\ hpw.there = <<>> => hpd.tab = hpe.tab

-----------------------------------------------------------------------------
(***************************************************************************)
(* QPACK (courierust_h3/qpack.rs, qpack_conn.rs): one end encodes field    *)
(* sections and writes instructions to its encoder stream, the other       *)
(* applies them and decodes.  Sections travel on streams of their own, so  *)
(* they arrive in any order and before or after the instructions they      *)
(* need.  A field is <<name, value>>; every table entry has the same size. *)
(***************************************************************************)
CONSTANTS QpRace,       \* [secs, max]: sections and how many, none of which can evict
          QpEvict,      \* the same when the table is small
          QpRoom,       \* entries that fit, for QpRace
          QpSmall,      \* entries that fit, for QpEvict
          QpBlocked,    \* SETTINGS_QPACK_BLOCKED_STREAMS
          QpStaticField, QpStaticName, QpNeverName

ASSUME QpAssumption ==
  /\ {QpRoom, QpSmall, QpBlocked, QpRace.max, QpEvict.max} \subseteq Nat \ {0}

VARIABLES qpe,     \* the encoder: table, insert count, known received count
          qpd,     \* the decoder: table, insert count, signalled count, blocked sections
          qpw      \* on the wire: encoder stream, decoder stream, sections; and the outcome

qpvars == <<qpe, qpd, qpw>>

Room == IF qpw.mode = "race" THEN QpRoom ELSE QpSmall
QpPlan == IF qpw.mode = "race" THEN QpRace ELSE QpEvict
NewTable == [entries |-> <<>>, count |-> 0, cap |-> 0]

QpInit ==
  /\ qpe = [tab |-> NewTable, known |-> 0, sent |-> 0]
  /\ qpd = [tab |-> NewTable, signalled |-> 0, blocked |-> <<>>]
  /\ \E m \in {"race", "evict"} :
       qpw = [enc |-> <<>>, dec |-> <<>>, air |-> {}, mode |-> m, settings |-> FALSE, out |-> {}, failed |-> "no"]

(***************************************************************************)
(* DynamicTable.                                                           *)
(***************************************************************************)
\* insert(): the oldest give way.
Insert(t, f) ==
  LET kept == IF Len(t.entries) >= t.cap THEN Tail(t.entries) ELSE t.entries
  IN [t EXCEPT !.entries = Append(kept, f), !.count = @ + 1]

SetCapacity(t, n) ==
  [t EXCEPT !.cap = n, !.entries = SubSeq(@, IF Len(@) > n THEN Len(@) - n + 1 ELSE 1, Len(@))]

QpFirst(t) == t.count - Len(t.entries)
Has(t, abs) == abs >= QpFirst(t) /\ abs < t.count
Get(t, abs) == t.entries[abs - QpFirst(t) + 1]

\* find(), find_name(): the newest entry that matches, or -1.
Newest(t, P(_)) ==
  LET is == {i \in 1..Len(t.entries) : P(t.entries[i])}
  IN IF is = {} THEN -1 ELSE QpFirst(t) + (CHOOSE i \in is : \A j \in is : j <= i) - 1
Find(t, f) == Newest(t, LAMBDA x : x = f)
FindName(t, f) == Newest(t, LAMBDA x : x[1] = f[1])

(***************************************************************************)
(* The prefix of a section.                                                *)
(***************************************************************************)
\* encode_field_section_prefix()
EncodePrefix(required, base) ==
  [ric |-> IF required = 0 THEN 0 ELSE (required % (2 * Room)) + 1,
   sign |-> base < required,
   delta |-> IF base >= required THEN base - required ELSE required - base - 1]

\* decode_field_section_prefix(): the required insert count is within Room of ours.
DecodePrefix(p, total) ==
  LET full == 2 * Room
      max == total + Room
      r0 == (max \div full) * full + p.ric - 1
      required == IF p.ric = 0 THEN 0 ELSE IF r0 > max THEN r0 - full ELSE r0
      base == IF p.sign THEN required - p.delta - 1 ELSE required + p.delta
  IN [ok |-> p.ric = 0 \/ ((r0 > max => r0 > full) /\ required # 0 /\ base >= 0), required |-> required, base |-> base]

(***************************************************************************)
(* The encoder.                                                            *)
(***************************************************************************)
\* set_peer_capacity(): SETTINGS arrive.
SetPeerCapacity ==
  /\ ~qpw.settings
  /\ qpe' = [qpe EXCEPT !.tab = SetCapacity(@, Room)]
  /\ qpw' = [qpw EXCEPT !.settings = TRUE, !.enc = Append(@, [i |-> "cap"])]
  /\ UNCHANGED qpd

\* A reference below the base: to entries the peer has acknowledged.
Usable(abs, base) == abs >= 0 /\ abs < qpe.known /\ abs < base

\* One field of encode(): x carries the table, the lines, the instructions, the required
\* insert count and, for the property only, the entries it refers to.
EncodeField(x, f) ==
  LET whole == Find(x.tab, f)
      name == FindName(x.tab, f)
      line(l) == [x EXCEPT !.lines = Append(@, l)]
      literal == line(IF f[1] \in QpStaticName THEN [k |-> "staticName", n |-> f[1], v |-> f[2]] ELSE [k |-> "literal", n |-> f[1], v |-> f[2]])
      need(y, abs) == [y EXCEPT !.required = IF abs + 1 > @ THEN abs + 1 ELSE @, !.refs = @ \cup {abs}]
  IN IF f \in QpStaticField THEN line([k |-> "static", f |-> f])
     ELSE IF Usable(whole, x.base) THEN need(line([k |-> "indexed", i |-> x.base - 1 - whole]), whole)
     ELSE IF Usable(name, x.base) THEN need(line([k |-> "name", i |-> x.base - 1 - name, v |-> f[2]]), name)
     ELSE IF x.tab.cap = 0 \/ f[1] \in QpNeverName THEN literal
     ELSE LET ins == IF f[1] \in QpStaticName \/ name < 0 THEN [i |-> "literal", f |-> f]
                     ELSE [i |-> "name", rel |-> x.tab.count - 1 - name, v |-> f[2]]
          IN need([line([k |-> "post", i |-> x.tab.count - x.base])
                     EXCEPT !.tab = Insert(@, f), !.ins = Append(@, ins)],
                  x.tab.count)

\* encode(): nothing keeps it from evicting entries that sections under way refer to, nor
\* from blocking more streams than the peer allows.
QpEncode(fs) ==
  /\ qpe.sent < QpPlan.max /\ qpw.failed = "no"
  /\ LET x == FoldLeft(EncodeField, [tab |-> qpe.tab, base |-> qpe.tab.count, lines |-> <<>>, ins |-> <<>>, required |-> 0, refs |-> {}], fs)
         s == [id |-> qpe.sent, prefix |-> EncodePrefix(x.required, x.base), lines |-> x.lines, of |-> fs, refs |-> x.refs]
     IN /\ qpe' = [qpe EXCEPT !.tab = x.tab, !.sent = @ + 1]
        /\ qpw' = [qpw EXCEPT !.enc = @ \o x.ins, !.air = @ \cup {s}]
  /\ UNCHANGED qpd

\* on_decoder_stream()
OnDecoderStream ==
  /\ qpw.dec # <<>> /\ qpw.failed = "no"
  /\ LET d == Head(qpw.dec)
         known == qpe.known + (IF d.i = "increment" THEN d.n ELSE 0)
     IN /\ qpe' = [qpe EXCEPT !.known = known]
        /\ qpw' = [qpw EXCEPT !.dec = Tail(@), !.failed = IF known > qpe.tab.count THEN "bad" ELSE @]
  /\ UNCHANGED qpd

(***************************************************************************)
(* The decoder.                                                            *)
(***************************************************************************)
\* flush_icc()
Increment(d) == IF d.tab.count > d.signalled THEN <<[i |-> "increment", n |-> d.tab.count - d.signalled]>> ELSE <<>>

\* decode_field_line(): the field, or <<>> when its entry is missing.
DecodeLine(t, base, l) ==
  CASE l.k = "static" -> l.f
    [] l.k \in {"staticName", "literal"} -> <<l.n, l.v>>
    [] l.k = "indexed" -> IF l.i < base /\ Has(t, base - 1 - l.i) THEN Get(t, base - 1 - l.i) ELSE <<>>
    [] l.k = "name" -> IF l.i < base /\ Has(t, base - 1 - l.i) THEN <<Get(t, base - 1 - l.i)[1], l.v>> ELSE <<>>
    [] l.k = "post" -> IF Has(t, base + l.i) THEN Get(t, base + l.i) ELSE <<>>

\* try_decode()
TryDecode(d, s) ==
  LET p == DecodePrefix(s.prefix, d.tab.count)
      fields == [i \in 1..Len(s.lines) |-> DecodeLine(d.tab, p.base, s.lines[i])]
      kind == IF ~p.ok THEN "error"
              ELSE IF p.required > d.tab.count THEN "blocked"
              ELSE IF \E i \in 1..Len(fields) : fields[i] = <<>> THEN "error" ELSE "fields"
  IN [kind |-> kind, fields |-> fields, ack |-> p.required > 0]

\* An entry the section refers to has left the decoder's table before it was read, or
\* needs the place of one the decoder has yet to insert, which no prefix can say.
Overtaken(t, s) == \E abs \in s.refs : abs < QpFirst(t) \/ abs >= t.count + Room

\* A decoded section: what it gave, and the Section Acknowledgment.
Decoded(w, s, r, t) ==
  [w EXCEPT !.out = @ \cup {[of |-> s.of, fields |-> r.fields, overtaken |-> Overtaken(t, s)]},
            !.dec = IF r.ack THEN Append(@, [i |-> "ack"]) ELSE @]

\* A section that does not decode ends the connection; the record says of which kind it was.
Undecoded(w, s, t) == [w EXCEPT !.failed = IF Overtaken(t, s) THEN "overtaken" ELSE "bad"]

\* decode() of a section that arrives.
OnSection(s) ==
  /\ qpw.failed = "no"
  /\ LET r == TryDecode(qpd, s)
         w == [qpw EXCEPT !.air = @ \ {s}]
     IN \/ /\ r.kind = "fields" /\ qpw' = Decoded(w, s, r, qpd.tab) /\ UNCHANGED qpd
        \/ /\ r.kind = "blocked" /\ Len(qpd.blocked) < QpBlocked
           /\ qpd' = [qpd EXCEPT !.blocked = Append(@, s)] /\ qpw' = w
        \/ /\ r.kind = "blocked" /\ Len(qpd.blocked) >= QpBlocked
           /\ qpw' = [w EXCEPT !.failed = "limit"] /\ UNCHANGED qpd
        \/ /\ r.kind = "error" /\ qpw' = Undecoded(w, s, qpd.tab) /\ UNCHANGED qpd
  /\ UNCHANGED qpe

\* decode_encoder_instruction()
Apply(t, i) ==
  CASE i.i = "cap" -> SetCapacity(t, Room)
    [] i.i = "literal" -> Insert(t, i.f)
    [] i.i = "name" -> Insert(t, <<Get(t, t.count - 1 - i.rel)[1], i.v>>)

\* retry_blocked()
Retry1(d, w) ==
  FoldLeft(LAMBDA x, s :
             LET r == TryDecode(x.d, s)
             IN CASE r.kind = "fields" -> [x EXCEPT !.w = Decoded(@, s, r, d.tab)]
                  [] r.kind = "blocked" -> [x EXCEPT !.d.blocked = Append(@, s)]
                  [] OTHER -> [x EXCEPT !.w = Undecoded(@, s, d.tab)],
           [d |-> [d EXCEPT !.blocked = <<>>], w |-> w], d.blocked)

\* on_encoder_stream(), then retry_blocked(): the next instructions, as many as arrived.
OnEncoderStream ==
  /\ qpw.failed = "no"
  /\ \E n \in 1..Len(qpw.enc) :
       LET tab == FoldLeft(Apply, qpd.tab, SubSeq(qpw.enc, 1, n))
           d == [qpd EXCEPT !.tab = tab]
           x == Retry1([d EXCEPT !.signalled = tab.count],
                       [qpw EXCEPT !.enc = SubSeq(@, n + 1, Len(@)), !.dec = @ \o Increment(d)])
       IN qpd' = x.d /\ qpw' = x.w
  /\ UNCHANGED qpe

\* cancel_stream(): a blocked section is given up.
Cancel ==
  /\ qpd.blocked # <<>> /\ qpw.failed = "no"
  /\ qpw' = [qpw EXCEPT !.dec = Append(@, [i |-> "cancel"])]
  /\ qpd' = [qpd EXCEPT !.blocked = Tail(@)]
  /\ UNCHANGED qpe

QpNext ==
  \/ SetPeerCapacity
  \/ \E fs \in QpPlan.secs : QpEncode(fs)
  \/ \E s \in qpw.air : OnSection(s)
  \/ OnEncoderStream \/ OnDecoderStream \/ Cancel

(***************************************************************************)
(* The property of QPACK.                                                  *)
(***************************************************************************)
\* Whatever the order in which streams bring them, a section decodes to the fields that
\* were encoded, and none waits for instructions that have come, unless the encoder evicted
\* an entry it refers to before it was read, or entries that were never acknowledged
\* (Overtaken): encode() keeps no account of the references of sections under way, and such
\* a section may fail, be taken for another's fields or wait for ever.  The only other
\* failure is a peer that allows fewer blocked streams than encode() makes, of which it
\* keeps no account either.
SectionsDecode ==
  /\ qpw.failed # "bad"
  /\ qpw.failed = "limit" => Len(qpd.blocked) = QpBlocked
  /\ \A x \in qpw.out : x.fields = x.of \/ x.overtaken
  /\ qpw.enc = <<>> =>
       /\ qpd.tab.entries = qpe.tab.entries
       /\ qpw.failed = "no" => \A i \in DOMAIN qpd.blocked : Overtaken(qpd.tab, qpd.blocked[i])
=============================================================================
