-------------------------------- MODULE Jpeg --------------------------------
(***************************************************************************)
(* The entropy decoder of the camera example (examples/uvc_device.py,      *)
(* BitReader, build_huffman and JpegDecoder._scan): bits out of stuffed    *)
(* bytes, canonical Huffman codes, DC differences and runs of zeros, and   *)
(* the restart markers that realign all of it.                             *)
(*                                                                         *)
(* An encoder (external, ITU T.81) writes a scan of blocks; the decoder    *)
(* takes it one unit (MCU) at a time.  A byte has ByteBits bits, a block   *)
(* BlockCoeffs coefficients in zig-zag order: fewer than eight and 64, so  *)
(* that bytes of ones, runs of sixteen zeros and blocks without an end     *)
(* mark occur in short scans.                                              *)
(***************************************************************************)
EXTENDS Integers, Sequences, FiniteSets, SequencesExt

CONSTANTS
    ByteBits,     \* bits of a byte
    BlockCoeffs,  \* coefficients of a block, more than 16
    Scans,        \* sequences of units, each a sequence of blocks
    Components,   \* the components of a unit's blocks: sampled more, one has several
    Intervals     \* restart intervals, 0 for none

VARIABLES
    scan,      \* what the encoder was given: units and restart interval
    data,      \* the bytes that it wrote
    reader,    \* BitReader: position, and the bits left of the current byte
    dcPred,    \* the last DC coefficient of each component
    units      \* the units decoded

jpegVars == <<scan, data, reader, dcPred, units>>

Pow2(n) == 2 ^ n
Ones == Pow2(ByteBits) - 1      \* 0xFF
FirstMarker == Pow2(ByteBits - 1)

-----------------------------------------------------------------------------
(* The tables: how many codes of each length, and their symbols.           *)

DcTable == [counts |-> <<0, 1, 2, 2>>, symbols |-> <<0, 1, 2, 3, 4>>]
AcTable == [counts |-> <<0, 1, 3, 3>>, symbols |->
    <<<<0, 1>>, <<0, 0>>, <<1, 1>>, <<0, 2>>, <<15, 0>>, <<1, 2>>, <<2, 1>>>>]

-----------------------------------------------------------------------------
(* The encoder.                                                            *)

LengthOf(t, i) == CHOOSE n \in DOMAIN t.counts :
    /\ FoldLeft(+, 0, SubSeq(t.counts, 1, n - 1)) < i
    /\ i <= FoldLeft(+, 0, SubSeq(t.counts, 1, n))

BitsOf(value, n) == [i \in 1 .. n |-> (value \div Pow2(n - i)) % 2]

\* A code follows those of the symbols before it.
CodesOf(t) ==
    [symbol \in Range(t.symbols) |->
        LET i == CHOOSE j \in DOMAIN t.symbols : t.symbols[j] = symbol
            before == FoldLeft(LAMBDA n, j : n + Pow2(LengthOf(t, i) - LengthOf(t, j)), 0, [j \in 1 .. i - 1 |-> j])
        IN  BitsOf(before, LengthOf(t, i))]
DcCodes == CodesOf(DcTable)
AcCodes == CodesOf(AcTable)

Magnitude(v) == IF v < 0 THEN -v ELSE v
SizeOfValue(v) == CHOOSE n \in 0 .. 4 : Magnitude(v) < Pow2(n) /\ (n = 0 \/ Magnitude(v) >= Pow2(n - 1))
ValueBits(v) == BitsOf(IF v < 0 THEN v + Pow2(SizeOfValue(v)) - 1 ELSE v, SizeOfValue(v))

\* Coefficients k and on: a run of zeros and a value, sixteen zeros, or the end.
AcBits(block) ==
    LET bits[k \in 1 .. BlockCoeffs] ==
            LET next == {j \in k .. BlockCoeffs - 1 : block[j + 1] # 0}
                j == CHOOSE m \in next : \A n \in next : m <= n
            IN  IF k = BlockCoeffs THEN <<>>
                ELSE IF next = {} THEN AcCodes[<<0, 0>>]
                ELSE IF j - k >= 16 THEN AcCodes[<<15, 0>>] \o bits[k + 16]
                ELSE AcCodes[<<j - k, SizeOfValue(block[j + 1])>>] \o ValueBits(block[j + 1]) \o bits[j + 1]
    IN  bits[1]

DcBits(diff) == DcCodes[SizeOfValue(diff)] \o ValueBits(diff)

Restarts(s, u) == s.interval # 0 /\ u > 1 /\ (u - 1) % s.interval = 0

\* BitsOf padded with ones to bytes; a byte of ones is followed by a zero.
BytesOf(bits) ==
    LET n == (Len(bits) + ByteBits - 1) \div ByteBits
        Bit(i) == IF i <= Len(bits) THEN bits[i] ELSE 1
        Byte(b) == FoldLeft(LAMBDA v, i : 2 * v + Bit((b - 1) * ByteBits + i), 0, [i \in 1 .. ByteBits |-> i])
    IN  FlattenSeq([b \in 1 .. n |-> IF Byte(b) = Ones THEN <<Ones, 0>> ELSE <<Byte(b)>>])

\* The DC coefficient that block c of unit u is coded against: the last of its
\* component since the last restart.
Segment(s, u) == IF s.interval = 0 THEN 0 ELSE (u - 1) \div s.interval
Predicted(s, u, c) ==
    LET earlier == {x \in (1 .. u) \X DOMAIN s.comps :
                       /\ s.comps[x[2]] = s.comps[c] /\ Segment(s, x[1]) = Segment(s, u)
                       /\ x[1] < u \/ x[2] < c}
        last == CHOOSE x \in earlier : \A y \in earlier : y[1] < x[1] \/ (y[1] = x[1] /\ y[2] <= x[2])
    IN  IF earlier = {} THEN 0 ELSE s.units[last[1]][last[2]][1]

\* The bytes of a scan: the units between two restarts, the marker, and so on.
Encoded(s) ==
    LET UnitBits(u) ==
            FlattenSeq([c \in DOMAIN s.comps |->
                DcBits(s.units[u][c][1] - Predicted(s, u, c)) \o AcBits(s.units[u][c])])
        Add(acc, u) ==
            IF Restarts(s, u)
            THEN [bytes |-> acc.bytes \o BytesOf(acc.bits) \o <<Ones, FirstMarker>>, bits |-> UnitBits(u)]
            ELSE [acc EXCEPT !.bits = @ \o UnitBits(u)]
        all == FoldLeft(Add, [bytes |-> <<>>, bits |-> <<>>], [u \in DOMAIN s.units |-> u])
    IN  all.bytes \o BytesOf(all.bits) \o <<Ones, 1>>     \* the end of the image

-----------------------------------------------------------------------------
(* The decoder.                                                            *)

\* build_huffman: the codes of each length in turn, <<length, code>> -> symbol.
BuildHuffman(t) ==
    LET OneCode(s, n) == [s EXCEPT !.table = @ @@ (<<s.length, s.code>> :> t.symbols[s.next]),
                                   !.next = @ + 1, !.code = @ + 1]
        OneLength(s, length) ==
            LET e == FoldLeft(OneCode, [s EXCEPT !.length = length], [n \in 1 .. t.counts[length] |-> n])
            IN  [e EXCEPT !.code = 2 * @]
    IN  FoldLeft(OneLength, [table |-> <<>>, next |-> 1, code |-> 0, length |-> 0],
                 [n \in DOMAIN t.counts |-> n]).table

Dc == BuildHuffman(DcTable)
Ac == BuildHuffman(AcTable)

\* _byte: how many bytes the next one takes, none at a marker or the end.
ByteTakes(bytes, pos) ==
    CASE pos > Len(bytes)   -> 0
      [] bytes[pos] # Ones   -> 1
      [] pos < Len(bytes) /\ bytes[pos + 1] # 0 -> 0
      [] OTHER               -> 2

\* A reader is a position, the bits left of the current byte, and the value that
\* it read last.
Value(r, v) == [r EXCEPT !.v = v]

\* bit: past the end of the scan it is 0.
Fill(r, takes) ==
    IF takes = 0 THEN Value(r, 0)
    ELSE LET bits == BitsOf(data[r.pos], ByteBits)
         IN  [pos |-> r.pos + takes, bits |-> Tail(bits), v |-> bits[1]]
ReadBit(r) ==
    IF r.bits # <<>> THEN [r EXCEPT !.bits = Tail(@), !.v = Head(r.bits)]
    ELSE Fill(r, ByteTakes(data, r.pos))

\* get.
ReadBits(r, n) ==
    FoldLeft(LAMBDA s, i : [ReadBit(s) EXCEPT !.v = 2 * s.v + @], Value(r, 0), [i \in 1 .. n |-> i])

\* huff: bit by bit until the code is one of the table's, else symbol 0.
Longest == 4
Grown(s, r, length) ==
    LET code == 2 * s.code + r.v
    IN  IF <<length, code>> \in DOMAIN s.table
        THEN [s EXCEPT !.r = Value(r, s.table[<<length, code>>]), !.found = TRUE]
        ELSE [s EXCEPT !.r = r, !.code = code]
ReadSymbol(r, table, none) ==
    LET s == FoldLeft(LAMBDA s, n : IF s.found THEN s ELSE Grown(s, ReadBit(s.r), n),
                      [r |-> r, table |-> table, code |-> 0, found |-> FALSE], [n \in 1 .. Longest |-> n])
    IN  IF s.found THEN s.r ELSE Value(s.r, none)

\* extend.
Extend(value, size) == IF size > 0 /\ value < Pow2(size - 1) THEN value - Pow2(size) + 1 ELSE value

\* A value of so many bits.
ReadExtended(r, size) == [ReadBits(r, size) EXCEPT !.v = Extend(@, size)]

\* One round of the loop in _block: sixteen zeros, the end, or a run of zeros
\* and a value.
Place(b, r, at) == [b EXCEPT !.r = r, !.k = at + 1, !.coef[at + 1] = r.v]
AfterSymbol(b, r) ==
    CASE r.v = <<15, 0>> -> [b EXCEPT !.r = r, !.k = @ + 16]
      [] r.v[2] = 0 \/ b.k + r.v[1] >= BlockCoeffs -> [b EXCEPT !.r = r, !.k = BlockCoeffs]
      [] OTHER -> Place(b, ReadExtended(r, r.v[2]), b.k + r.v[1])

\* _block: the DC difference, then rounds until the block is full.
AfterDc(r, pred) ==
    FoldLeft(LAMBDA b, n : IF b.k >= BlockCoeffs THEN b ELSE AfterSymbol(b, ReadSymbol(b.r, Ac, <<0, 0>>)),
             [r |-> r, k |-> 1, coef |-> [i \in 1 .. BlockCoeffs |-> IF i = 1 THEN pred + r.v ELSE 0]],
             [n \in 1 .. BlockCoeffs |-> n])
AfterSize(r, pred) == AfterDc(ReadExtended(r, r.v), pred)
DecodeBlock(r, pred) == AfterSize(ReadSymbol(r, Dc, 0), pred)

\* The next restart marker's place, the end if there is none.
NextMarker(r) ==
    LET markers == {p \in r.pos .. Len(data) - 1 : data[p] = Ones /\ data[p + 1] = FirstMarker}
    IN  IF markers = {} THEN Len(data) - 2 ELSE CHOOSE p \in markers : \A q \in markers : p <= q

\* Mutant: the bits left of the last byte are read on.
RestartKeepsBits(r) == [r EXCEPT !.pos = NextMarker(r) + 2]

\* restart: past the next marker, and nothing is left of the last byte.
Restart(r) == [r EXCEPT !.pos = NextMarker(r) + 2, !.bits = <<>>]

-----------------------------------------------------------------------------
AllScans == {s \in [units : Scans, comps : Components, interval : Intervals] :
                Len(s.comps) = Len(s.units[1])}

JpegInit(scans) ==
    /\ scan \in scans
    /\ data = Encoded(scan)
    /\ reader = [pos |-> 1, bits |-> <<>>, v |-> 0]
    /\ dcPred = [c \in Range(scan.comps) |-> 0]
    /\ units = <<>>

\* One unit of _scan: a restart if it is due, then the blocks of each component.
NextBlock(s, b, c) == [r |-> b.r, pred |-> [s.pred EXCEPT ![c] = b.coef[1]], blocks |-> Append(s.blocks, b.coef)]
UnitFrom(r, pred) ==
    FoldLeft(LAMBDA s, c : NextBlock(s, DecodeBlock(s.r, s.pred[c]), c),
             [r |-> r, pred |-> pred, blocks |-> <<>>], scan.comps)

ReadUnit ==
    /\ Len(units) < Len(scan.units)
    /\ LET unit == IF Restarts(scan, Len(units) + 1)
                   THEN UnitFrom(Restart(reader), [c \in DOMAIN dcPred |-> 0])
                   ELSE UnitFrom(reader, dcPred)
       IN  /\ reader' = unit.r
           /\ dcPred' = unit.pred
           /\ units' = Append(units, unit.blocks)
    /\ UNCHANGED <<scan, data>>

JpegNext == ReadUnit

JpegSpec == JpegInit(AllScans) /\ [][JpegNext]_jpegVars

-----------------------------------------------------------------------------
(* Properties.                                                             *)

\* Every block reads back with the coefficients it was written with, whatever
\* came before it in its byte, in its run, in its component, and since the last
\* restart.
BlocksReadBack == units = SubSeq(scan.units, 1, Len(units))
=============================================================================
