------------------------------ MODULE Deflate -------------------------------
(***************************************************************************)
(* courierust_deflate: the compressor and the decompressor of RFC 1951 and *)
(* the contexts of RFC 7692.  A compressed message is a sequence of LZ77   *)
(* tokens (a literal, or a match of a length at a distance) in blocks; the *)
(* bits below them are modelled where they decide something: the canonical *)
(* Huffman codes, their validation and their decoding.                     *)
(* Sizes are scaled: MIN_MATCH is kept, the others are constants.          *)
(***************************************************************************)
EXTENDS Naturals, Sequences, SequencesExt, FiniteSets, FiniteSetsExt, Folds

CONSTANTS DfSymbols,     \* bytes that occur in messages
          DfMaxLen,      \* bound: length of a message
          DfMessages,    \* bound: messages of a run
          DfWindow,      \* WINDOW, the farthest our compressor ever looks back
          DfHashSize,    \* HASH_SIZE: small, so that hashes collide
          DfMaxChain,    \* MAX_CHAIN
          DfMaxMatch,    \* MAX_MATCH
          DfThreshold,   \* Deflater::threshold
          DfMaxOut,      \* max_out of a message
          DfWindows,     \* negotiated window sizes, 2 ^ window_bits
          DfAlphabet,    \* bound: symbols of a Huffman code
          DfCodeLen      \* bound: code lengths tried, of the 15 the format has

MIN_MATCH == 3
EMPTY == 0
MAX_WINDOW == DfMaxOut  \* beyond the length of any message here, as 32 KiB is for the format
Lit(b) == [lit |-> b, len |-> 0, dist |-> 0]
Match(l, d) == [lit |-> 0, len |-> l, dist |-> d]
hash3(a, b, c) == ((4 * a) + (2 * b) + c) % DfHashSize

VARIABLES deflater,  \* Deflater: its MatchFinder (head, prev, touched, max_dist) and 1 << window_bits
          inflater,  \* Inflater: window and its capacity, 1 << window_bits
          lzlog,     \* history: plaintexts that went compressed, and what came out last
          huff       \* the code lengths of a block header, when that is what is looked at

dfvars == <<deflater, inflater, lzlog, huff>>

-----------------------------------------------------------------------------
(* Compression *)

\* Deflater::apply_window_bits: what the peer agreed to keep bounds every match.
applyWindowBits(size) == Min({DfWindow, size})

\* MatchFinder::prepare clears the heads it touched; prev keeps what it held.
Prepare(mf, n) ==
    [mf EXCEPT !.head = [h \in DOMAIN @ |-> IF h \in mf.touched THEN EMPTY ELSE @[h]],
               !.touched = {},
               !.prev = [i \in 1..Max({n, Len(@)}) |-> IF i <= Len(@) THEN @[i] ELSE EMPTY]]

\* Length of the match of data at i with the candidate.
MatchLen(data, cand, i) ==
    LET most == Min({Len(data) - i + 1, DfMaxMatch})
    IN  Max({l \in 0..most : \A k \in 0..l - 1 : data[cand + k] = data[i + k]})

\* The candidates of a hash, the latest first: in reach, at most MAX_CHAIN.
Candidates(mf, h, reach(_)) ==
    LET follow(c, n) == IF reach(Last(c)) THEN Append(c, mf.prev[Last(c)]) ELSE c
    IN  SelectSeq(FoldLeft(follow, <<mf.head[h]>>, [n \in 1..DfMaxChain - 1 |-> n]), reach)

\* Faulty variant: no limit on how far back a candidate may lie.
ChainUnlimited(mf, h, i, window) ==
    LET reach(c) == c # EMPTY IN Candidates(mf, h, reach)

\* In reach of the tighter of the two bounds: the entry point's and the negotiated one.
Chain(mf, h, i, window) ==
    LET reach(c) == c # EMPTY /\ c + Min({window, mf.max_dist}) >= i
    IN  Candidates(mf, h, reach)

\* The first of the longest matches on the chain; a full-length one stops the search.
Best(data, mf, h, i, window) ==
    LET better(b, c) == IF b.len < MatchLen(data, c, i)
                        THEN [len |-> MatchLen(data, c, i), dist |-> i - c] ELSE b
    IN  FoldLeft(better, [len |-> 0, dist |-> 0], Chain(mf, h, i, window))

\* encode_lz77: one pass, greedy.  Positions inside a match are not inserted.
EncodeStep(data, st, i, window) ==
    LET hashed == i + MIN_MATCH <= Len(data) + 1
        h == IF hashed THEN hash3(data[i], data[i + 1], data[i + 2]) ELSE 0
        best == IF hashed THEN Best(data, st.mf, h, i, window) ELSE [len |-> 0, dist |-> 0]
        mf == IF hashed THEN [st.mf EXCEPT !.prev[i] = st.mf.head[h], !.head[h] = i,
                                           !.touched = @ \cup {h}]
              ELSE st.mf
    IN  CASE i < st.next -> st
          [] i >= st.next /\ best.len >= MIN_MATCH ->
               [mf |-> mf, next |-> i + best.len, toks |-> Append(st.toks, Match(best.len, best.dist))]
          [] OTHER -> [mf |-> mf, next |-> i + 1, toks |-> Append(st.toks, Lit(data[i]))]

EncodeLz77(data, mf, window) ==
    FoldLeft(LAMBDA st, i : EncodeStep(data, st, i, window), [mf |-> mf, next |-> 1, toks |-> <<>>],
             [i \in 1..Len(data) |-> i])

-----------------------------------------------------------------------------
(* Decompression *)

\* copy_match: the source may begin in the window, end in the output, and overlap
\* what it produces; over the limit, or beyond the window, is an error.
CopyMatch(out, window, t, cap) ==
    LET all == window \o out
    IN  IF Len(out) + t.len > DfMaxOut \/ t.dist > cap \/ t.dist > Len(all)
        THEN [ok |-> FALSE, out |-> out]
        ELSE [ok |-> TRUE,
              out |-> out \o [k \in 1..t.len |-> all[Len(all) - t.dist + ((k - 1) % t.dist) + 1]]]

\* The body of inflate_huffman: literals and matches up to the end of the block.
InflateStep(window, cap, st, t) ==
    CASE ~st.ok -> st
      [] st.ok /\ t.len = 0 -> [ok |-> Len(st.out) < DfMaxOut,
                                out |-> IF Len(st.out) < DfMaxOut THEN Append(st.out, t.lit) ELSE st.out]
      [] OTHER -> CopyMatch(st.out, window, t, cap)

InflateBlocks(toks, window, cap) ==
    FoldLeft(LAMBDA st, t : InflateStep(window, cap, st, t), [ok |-> TRUE, out |-> <<>>], toks)

\* Inflater::absorb: keep the tail of the history.
Absorb(inf, message) ==
    LET kept == IF Len(message) >= inf.cap THEN <<>>
                ELSE LET over == Len(inf.window) + Len(message)
                     IN  SubSeq(inf.window, 1 + (IF over > inf.cap THEN over - inf.cap ELSE 0), Len(inf.window))
        from == IF Len(message) >= inf.cap THEN Len(message) - inf.cap ELSE 0
    IN  [inf EXCEPT !.window = kept \o SubSeq(message, from + 1, Len(message))]

\* Inflater::inflate_message: a failed message empties the context.
InflateMessage(inf, toks) ==
    LET r == InflateBlocks(toks, inf.window, inf.cap)
    IN  [ok |-> r.ok, out |-> r.out,
         inf |-> IF r.ok THEN Absorb(inf, r.out) ELSE [inf EXCEPT !.window = <<>>]]

-----------------------------------------------------------------------------
(* Huffman codes *)

CountOf(lens, l) == Cardinality({s \in DOMAIN lens : lens[s] = l})
MaxBits == 15

\* The Kraft-McMillan sum of DecodeTable::build, in units of 2^-15.
KraftLeft(lens) ==
    LET step(left, l) == IF left < 0 THEN left ELSE (2 * left) - CountOf(lens, l)
    IN  FoldLeft(step, 1, [l \in 1..MaxBits |-> l])

MaxLenUsed(lens) == Max({0} \cup {lens[s] : s \in DOMAIN lens})

\* DecodeTable::build accepts: not over-subscribed, complete, or the one incomplete shape.
TableOk(lens, single) ==
    LET left == KraftLeft(lens)
    IN  /\ left >= 0
        /\ left # 0 => MaxLenUsed(lens) <= (IF single THEN 1 ELSE 0)

\* The first code of a length, as the walk computes it.
FirstCode(lens, l) ==
    FoldLeft(LAMBDA f, k : 2 * (f + CountOf(lens, k)), 0, [k \in 1..l - 1 |-> k])

\* Symbols in table order: by length, then by value.
RankIn(lens, s) == Cardinality({t \in DOMAIN lens : lens[t] = lens[s] /\ t < s})

\* The code of a symbol as a sequence of bits, most significant first.
CodeBits(v, n) == [i \in 1..n |-> (v \div (2 ^ (n - i))) % 2]
CodeOf(lens, s) == CodeBits(FirstCode(lens, lens[s]) + RankIn(lens, s), lens[s])

BitsValue(bits, n) == FoldLeft(LAMBDA v, i : (2 * v) + bits[i], 0, [i \in 1..n |-> i])

\* decode_symbol: the walk stops at the first length at which the bits are a code.
\* The fast table holds the same pairs, mirrored, for the short codes.
DecodeSymbol(lens, bits) ==
    LET hit(n) == LET d == BitsValue(bits, n) - FirstCode(lens, n)
                  IN  d >= 0 /\ d < CountOf(lens, n)
        lengths == {n \in 1..Min({Len(bits), MaxBits}) : hit(n)}
    IN  IF lengths = {} THEN <<>>
        ELSE LET n == Min(lengths)
             IN  <<n, CHOOSE s \in DOMAIN lens :
                        lens[s] = n /\ RankIn(lens, s) = BitsValue(bits, n) - FirstCode(lens, n)>>

-----------------------------------------------------------------------------
(* gzip *)

FreshFinder(size) ==
    [head |-> [h \in 0..DfHashSize - 1 |-> EMPTY], prev |-> <<>>, touched |-> {},
     max_dist |-> applyWindowBits(size), size |-> size]

\* A container: the fields of the header, the body, the trailer.  crc stands for a
\* digest of the data.
Gzip(data) == [magic |-> TRUE, method |-> 8, reserved |-> FALSE, fields |-> "whole",
               body |-> EncodeLz77(data, Prepare(FreshFinder(MAX_WINDOW), Len(data)), MAX_WINDOW).toks,
               isize |-> Len(data), crc |-> data]

\* What a damaged container may look like.
Damage(z) ==
    {[z EXCEPT !.magic = FALSE], [z EXCEPT !.method = 0], [z EXCEPT !.reserved = TRUE],
     [z EXCEPT !.fields = "cut"], [z EXCEPT !.isize = @ + 1], [z EXCEPT !.body = Tail(@)],
     [z EXCEPT !.body = Append(@, Match(MIN_MATCH, DfMaxOut + 1))]}

\* gunzip: the checks of the header, then the trailer against what came out.
Gunzip(z) ==
    LET r == InflateBlocks(z.body, <<>>, DfMaxOut)
    IN  IF ~z.magic \/ z.method # 8 \/ z.reserved \/ z.fields # "whole" \/ ~r.ok
           \/ Len(r.out) # z.isize \/ r.out # z.crc
        THEN [ok |-> FALSE, out |-> <<>>] ELSE r

-----------------------------------------------------------------------------
(* Two ends of one direction *)

DfInit ==
    \E size \in DfWindows :
        /\ deflater = FreshFinder(size)
        /\ inflater = [window |-> <<>>, cap |-> size]
        /\ lzlog = [plain |-> <<>>, sent |-> <<>>, out |-> <<>>, ok |-> TRUE, mine |-> FALSE, n |-> 0]
        /\ huff \in {<<>>} \cup [1..DfAlphabet -> 0..DfCodeLen]
        /\ huff # <<>> => size = Max(DfWindows)

Messages == UNION {[1..n -> DfSymbols] : n \in 1..DfMaxLen}

\* Deflater::deflate_message and the peer's inflater: a message below the
\* threshold, or one that does not shrink, goes as it is and is not absorbed.
DeflateMessage(m) ==
    LET enc == EncodeLz77(m, Prepare(deflater, Len(m)), deflater.size)
        r == InflateMessage(inflater, enc.toks)
    IN  /\ lzlog.ok /\ huff = <<>> /\ lzlog.n < DfMessages /\ Len(m) >= DfThreshold
        /\ deflater' = enc.mf /\ huff' = huff
        /\ IF Len(enc.toks) >= Len(m)
           THEN /\ lzlog' = [lzlog EXCEPT !.n = @ + 1]
                /\ UNCHANGED inflater
           ELSE /\ inflater' = r.inf
                /\ lzlog' = [plain |-> lzlog.plain \o r.out, sent |-> m, out |-> r.out, ok |-> r.ok,
                             mine |-> TRUE, n |-> lzlog.n + 1]

PeerTokens ==
    {Lit(b) : b \in DfSymbols} \cup {Match(l, d) : l \in {MIN_MATCH, DfMaxMatch}, d \in 1..DfMaxOut}

\* A peer whose compressor keeps its context sends any tokens; an error ends the session.
PeerMessage(toks) ==
    LET r == InflateMessage(inflater, toks)
    IN  /\ lzlog.ok /\ huff = <<>> /\ lzlog.n < DfMessages
        /\ inflater' = r.inf
        /\ lzlog' = [plain |-> IF r.ok THEN lzlog.plain \o r.out ELSE <<>>, sent |-> <<>>,
                     out |-> r.out, ok |-> r.ok, mine |-> FALSE, n |-> lzlog.n + 1]
        /\ UNCHANGED <<deflater, huff>>

\* gzip and gunzip (gRPC messages, content codings): no context is kept, and the
\* trailer tells a damaged container.
Container(m) ==
    /\ huff = <<>> /\ lzlog.n = 0
    /\ \E z \in {Gzip(m)} \cup Damage(Gzip(m)) :
         lzlog' = [lzlog EXCEPT !.sent = IF z = Gzip(m) THEN m ELSE <<>>, !.out = Gunzip(z).out,
                                !.mine = TRUE, !.n = @ + 1]
    /\ UNCHANGED <<deflater, inflater, huff>>

DfNext ==
    \/ \E m \in Messages : DeflateMessage(m)
    \/ \E m \in Messages : Container(m)
    \/ \E a, b \in PeerTokens : PeerMessage(<<a, b>>)

-----------------------------------------------------------------------------
(* Properties *)

\* What our compressor sends is decompressed to the message by a peer that keeps no
\* more than the window it agreed to, whatever was sent before (encode_lz77 reuses
\* its chains from message to message); and the context of the decompressor is the
\* tail of the compressed history, which back-references of the next message reach.
ContextAgrees ==
    /\ lzlog.mine => lzlog.ok /\ lzlog.out = lzlog.sent
    /\ LET n == Min({Len(lzlog.plain), inflater.cap})
       IN  inflater.window = SubSeq(lzlog.plain, Len(lzlog.plain) - n + 1, Len(lzlog.plain))

\* A table DecodeTable::build accepts decodes every one of its codes to its symbol,
\* whatever bits follow, and unless it is the degenerate code leaves no bit string
\* without a meaning: a malformed header never reaches the symbols.
PrefixDecodes ==
    (huff # <<>> /\ TableOk(huff, TRUE)) =>
        LET pads == [1..DfCodeLen -> {0, 1}]
        IN  /\ \A s \in DOMAIN huff : huff[s] > 0 => \A pad \in pads :
                  DecodeSymbol(huff, CodeOf(huff, s) \o pad) = <<huff[s], s>>
            /\ MaxLenUsed(huff) > 1 => \A bits \in pads : DecodeSymbol(huff, bits) # <<>>

\* permessage-deflate as a whole: the matches reach back into a context the peer
\* shares, and the codes they travel in mean one thing.
CompressionExact == ContextAgrees /\ PrefixDecodes
=============================================================================
