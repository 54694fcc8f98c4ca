--------------------------- MODULE MCBlockDecode ---------------------------
(***************************************************************************)
(* Instances of BlockDecode for TLC: bytes are 0 .. 3, and the files come  *)
(* from an encoder of bzip2 that is written down here, a reference for     *)
(* the decoder: run lengths, sorted rotations, move to front with runs of  *)
(* zeros, canonical codes.                                                 *)
(***************************************************************************)
EXTENDS BlockDecode

ToBits(n, width) == [i \in 1 .. width |-> (n \div 2 ^ (width - i)) % 2]
Bits8(bytes) == FlattenSeq([i \in DOMAIN bytes |-> ToBits(bytes[i], 8)])

\* 0x314159265359, 0x177245385090 and "BZh".
MCBlockMagic == Bits8(<<49, 65, 89, 38, 83, 89>>)
MCFinalMagic == Bits8(<<23, 114, 69, 56, 80, 144>>)
MCHeaderMagic == Bits8(<<66, 90, 104>>)
Header == Append(MCHeaderMagic, 0) \o ToBits(57, 7)
Crc == [i \in 1 .. 32 |-> i % 2]

\* Four equal bytes are followed by the number of those that follow them.
RECURSIVE Leading(_, _)
Leading(text, i) ==
  IF i < Len(text) /\ text[i + 1] = text[1] THEN Leading(text, i + 1) ELSE i
RECURSIVE RunLengths(_)
RunLengths(text) ==
  IF text = <<>> THEN <<>>
  ELSE LET run == Min({Leading(text, 1), 4 + ByteCount - 1})
           rest == RunLengths(SubSeq(text, run + 1, Len(text)))
       IN  IF run < 4 THEN Repeated(text[1], run) \o rest
           ELSE Repeated(text[1], 4) \o <<run - 4>> \o rest

Rotation(s, i) == [k \in 1 .. Len(s) |-> s[((i + k - 2) % Len(s)) + 1]]
RECURSIVE Smaller(_, _)
Smaller(s, t) ==
  s # <<>> /\ (s[1] < t[1] \/ (s[1] = t[1] /\ Smaller(Tail(s), Tail(t))))
Rows(s) ==
  SortSeq([i \in 1 .. Len(s) |-> i],
          LAMBDA i, j : \/ Smaller(Rotation(s, i), Rotation(s, j))
                        \/ Rotation(s, i) = Rotation(s, j) /\ i < j)
LastColumn(s) == [k \in 1 .. Len(s) |-> Rotation(s, Rows(s)[k])[Len(s)]]
OriginOf(s) == (CHOOSE k \in 1 .. Len(s) : Rows(s)[k] = 1) - 1

\* The digits 1 and 2 of a number, the lowest first, as RUNA and RUNB.
RECURSIVE RunDigits(_)
RunDigits(n) ==
  IF n = 0 THEN <<>>
  ELSE IF n % 2 = 1 THEN <<0>> \o RunDigits((n - 1) \div 2) ELSE <<1>> \o RunDigits((n - 2) \div 2)

IndexIn(order, b) == CHOOSE i \in DOMAIN order : order[i] = b
RECURSIVE Symbols(_, _, _)
Symbols(s, order, zeros) ==
  IF s = <<>> THEN RunDigits(zeros) \o <<Len(order) + 1>>
  ELSE LET i == IndexIn(order, s[1]) IN
       IF i = 1 THEN Symbols(Tail(s), order, zeros + 1)
       ELSE RunDigits(zeros) \o <<i>> \o Symbols(Tail(s), MoveToFront(order, i), 0)

\* Lengths of the codes of m symbols.
Lengths(kind, m) ==
  CASE kind = "flat" -> [s \in 0 .. m - 1 |-> 3]
    [] kind = "skew" -> [s \in 0 .. m - 1 |-> Min({s + 1, m - 1})]
    [] kind = "turned" -> [s \in 0 .. m - 1 |-> Min({m - s, m - 1})]

RECURSIVE Deltas(_, _, _)
Deltas(lengths, s, at) ==
  IF s \notin DOMAIN lengths THEN <<>>
  ELSE IF at < lengths[s] THEN <<1, 0>> \o Deltas(lengths, s, at + 1)
  ELSE IF at > lengths[s] THEN <<1, 1>> \o Deltas(lengths, s, at - 1)
  ELSE <<0>> \o Deltas(lengths, s + 1, at)

RECURSIVE Unary(_, _)
Unary(selectors, order) ==
  IF selectors = <<>> THEN <<>>
  ELSE LET i == IndexIn(order, selectors[1]) IN
       Repeated(1, i - 1) \o <<0>> \o Unary(Tail(selectors), MoveToFront(order, i))

\* kinds: one of "flat", "skew", "turned" for each table.
Block(text, kinds) ==
  LET s == RunLengths(text)
      used == SetToSortSeq(ToSet(s), <)
      symbols == Symbols(LastColumn(s), used, 0)
      m == Len(used) + 2
      tables == [g \in DOMAIN kinds |-> Lengths(kinds[g], m)]
      selectors == [k \in 1 .. (Len(symbols) + GroupSize - 1) \div GroupSize |-> k % Len(kinds)]
      present(r) == \E b \in ToSet(used) : b \div RangeSize = r
      flag(P) == IF P THEN 1 ELSE 0
      bitmap(r) == IF present(r)
                   THEN [i \in 1 .. RangeSize |-> flag(r * RangeSize + i - 1 \in ToSet(used))]
                   ELSE <<>>
  IN  MCBlockMagic \o Crc \o <<0>> \o ToBits(OriginOf(s), 24)
      \o [i \in 1 .. RangeSize |-> flag(present(i - 1))]
      \o FlattenSeq([i \in 1 .. RangeSize |-> bitmap(i - 1)])
      \o ToBits(Len(kinds), 3) \o ToBits(Len(selectors), 15)
      \o Unary(selectors, [i \in 1 .. 6 |-> i - 1])
      \o FlattenSeq([g \in DOMAIN tables |-> ToBits(tables[g][0], 5) \o Deltas(tables[g], 0, tables[g][0])])
      \o FlattenSeq([k \in DOMAIN symbols |->
           Path(tables[selectors[(k - 1) \div GroupSize + 1] + 1], symbols[k])])

Padded(bits) == bits \o Repeated(0, (8 - (Len(bits) % 8)) % 8)
Stream(texts, kinds) ==
  Padded(Header \o FlattenSeq([i \in DOMAIN texts |-> Block(texts[i], kinds)]) \o MCFinalMagic \o Crc)

Whole(mode, bits, start, stop, expect) ==
  [mode |-> mode, bits |-> bits, start |-> start, stop |-> stop, fate |-> "intact", expect |-> expect]

Streamed(texts, kinds) ==
  Whole("stream", Stream(texts, kinds), 32, 0, texts)

\* decode_segment starts behind the magic of a block.
Segment(texts, kinds, more) ==
  LET bits == Stream(texts, kinds) \o (IF more = <<>> THEN <<>> ELSE Stream(more, kinds)) IN
  Whole("segment", bits, 80, Len(bits), texts \o more)

\* The range between the first boundaries of two blocks.
Between(texts, kinds, from, to) ==
  LET boundary(k) == 32 + Len(FlattenSeq([i \in 1 .. k - 1 |-> Block(texts[i], kinds)])) IN
  Whole("segment", Stream(texts, kinds), boundary(from) + 48, boundary(to), SubSeq(texts, from, to - 1))

Cut(f, bytes) == [f EXCEPT !.fate = "cut", !.bits = SubSeq(@, 1, 8 * bytes), !.stop = Min({@, 8 * bytes})]
Flip(f, i) == [f EXCEPT !.fate = "damaged", !.bits[i] = 1 - @]

ShortTexts == {<<2>>, <<0, 1>>, <<3, 3>>, <<1, 0, 1>>, <<2, 2, 2>>, <<3, 1, 2, 0>>, <<1, 2, 1, 2>>}
Runs == {<<1, 1, 1, 1>>, <<0, 0, 0, 0, 0>>, <<2, 2, 2, 2, 2, 3>>, <<3, 3, 3, 3, 3, 3, 3>>,
         <<0, 1, 1, 1, 1, 1, 0, 1>>, <<3, 0, 1, 1, 2, 0, 3, 3, 3, 0>>}
Mixed == <<"skew", "turned">>

Wholes ==
  {Streamed(<<t>>, Mixed) : t \in ShortTexts \cup Runs}
  \cup {Streamed(<<t>>, k) : t \in {<<3, 1, 2, 0>>, <<0, 1, 1, 1, 1, 1, 0, 1>>},
                             k \in {<<"flat", "skew">>, <<"turned", "flat", "skew">>}}
  \cup {Segment(<<t, <<1>>>>, Mixed, more) : t \in ShortTexts \cup Runs, more \in {<<>>, <<<<0, 3>>>>}}
  \cup {Between(<<<<0, 1>>, t, <<3, 3>>, <<2>>>>, Mixed, 2, to) : t \in ShortTexts, to \in 3 .. 4}

ToCut == {Streamed(<<<<0, 2>>, <<1, 1, 1, 1, 1>>>>, Mixed), Segment(<<<<0, 2>>>>, Mixed, <<<<1, 1, 1>>>>)}
Cuts == UNION {{Cut(f, n) : n \in (f.start \div 8 + 1) .. Len(f.bits) \div 8} : f \in ToCut}

ToFlip == {Streamed(<<<<3, 0, 0, 0, 1>>>>, Mixed), Segment(<<<<2, 2, 2, 2, 2>>>>, <<"flat", "skew">>, <<>>)}
BlockCrc == 81 .. 112
Flips == UNION {{Flip(f, i) : i \in (f.start + 1 .. Len(f.bits) - 32) \ BlockCrc} : f \in ToFlip}

\* Blocks no longer than the size in the header allows, of long runs, for
\* which a quarter more is not enough: the last byte that does not fit is of a
\* run, or is not.
LongRuns == {Segment(<<t>>, Mixed, <<>>) :
               t \in {Repeated(1, 7) \o Repeated(2, 7), Repeated(1, 7) \o Repeated(2, 6) \o <<0>>}}
            \cup {Segment(<<<<0, 3>>, Repeated(1, 7) \o Repeated(2, 7)>>, Mixed, <<>>)}

\* Runs that fill the Vec to the last byte or make it grow, and a byte behind.
FullVecs == {Streamed(<<t>>, Mixed) : t \in {Repeated(1, 7) \o <<0>>, Repeated(3, 7) \o <<2, 2>>,
                                             Repeated(1, 7) \o Repeated(2, 7) \o <<0>>}}
            \cup {Streamed(<<<<0, 3>>, Repeated(1, 7) \o <<0>>>>, Mixed)}

OverlongTexts == LongRuns \cup FullVecs
AllInputs == Wholes \cup Cuts \cup Flips \cup OverlongTexts
AllReads == {1, 3, 5, 15, 24, 32, 48, 57}

\* Besides the files: any tables, and a reader of which any calls are made.
Idle == Whole("segment", <<>>, 0, 0, <<>>)
Tables ==
  /\ code \in [trees : [{1} -> [0 .. 3 -> 0 .. 4]], length : {0}, lengths : {<<>>}]
  /\ reader = Empty(0, 0) /\ answer = None /\ file = [Idle EXCEPT !.fate = "damaged"] /\ pc = "done"
Calls ==
  /\ \E size \in {0, 7, 13}, offset \in {0, 3} :
       offset <= 8 * size /\ reader = FromBitOffset(size, offset)
  /\ answer = None /\ code = Code0 /\ file = Idle /\ pc = "done"

AnyInit ==
  \/ Init
  \/ (Tables \/ Calls) /\ head = Head0 /\ sym = Sym0 /\ unrle = Unrle0 /\ output = <<>>
AnyNext == Next \/ (file = Idle /\ ReaderNext /\ UNCHANGED <<pc, coreVars>>)
AnySpec == AnyInit /\ [][AnyNext]_vars /\ WF_vars(Step)
=============================================================================
