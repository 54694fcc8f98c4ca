---------------------------- MODULE BlockDecode ----------------------------
(***************************************************************************)
(* The decoder of blocks (src/block.rs, mtf.rs, bwt.rs) on a BitReader,    *)
(* and the two loops that call it: decompress (src/stream.rs), which takes *)
(* each block in a new buffer, and decode_segment (src/chunk.rs), which    *)
(* takes it in one that holds max_blocksize and a quarter.                 *)
(*                                                                         *)
(* One action per call of the reader, with what the code does until the    *)
(* next one, and one per byte of the last run length decoding.  pc names   *)
(* what is read next; CRCs are read and not looked at.                     *)
(***************************************************************************)
EXTENDS BitReader, Huffman, SequencesExt, Sorting

CONSTANTS
  RangeSize,     \* 16: ranges of the symbol bitmap, and bytes in each
  GroupSize,     \* 50: symbols decoded with one table
  MaxSelectors,  \* MAX_SELECTORS
  MaxBlocksize,  \* MAX_BLOCKSIZE, the limit of a run
  Blocksize,     \* max_blocksize
  BlockMagic, FinalMagic, HeaderMagic,  \* as sequences of bits
  Inputs         \* files: see file

ASSUME BlockAssumption ==
  /\ {RangeSize, GroupSize, MaxBlocksize, Blocksize} \subseteq Nat \ {0}
  /\ MaxSelectors \in Nat
  /\ {1, 3, 5, 15, 24, 32, 48} \subseteq ReadCounts /\ 1 .. 7 \subseteq SkipCounts
  /\ 1 .. FastBits \subseteq PeekCounts

VARIABLES
  file,    \* mode "stream" or "segment"; bits of data; start, stop; fate "intact",
           \* "cut" or "damaged"; expect: the blocks that were encoded
  pc,      \* what is read next; "done", "error", "panic" (an assertion or an index),
           \* "overflow" (a byte was written behind a Vec: what follows is undefined)
  head,    \* orig_ptr, ranges_present, used_bytes, groups, selectors
  code,    \* trees, and the lengths of the next
  sym,     \* the loop over the symbols: tt, c, mtf, repeat
  unrle,   \* the last run length decoding: tt as links, t_pos, output
  output   \* the blocks finished

coreVars == <<file, head, code, sym, unrle, output>>
vars == <<readerVars, pc, coreVars>>

ByteCount == RangeSize * RangeSize
AllBytes == 0 .. ByteCount - 1
Ended == {"done", "error", "panic", "overflow"}

\* The bits that are read at a time.
Fields ==
  [magic |-> 48, crc |-> 32, randomised |-> 1, origin |-> 24, ranges |-> 1, bitmap |-> 1,
   groups |-> 3, selectors |-> 15, unary |-> 1, start |-> 5, adjust |-> 1, direction |-> 1,
   walk |-> 1, streamCrc |-> 32, header |-> 32]

\* The value of an answer: a bit of the buffer is the OR of bits of the data.
BitOf(positions) == IF \E p \in positions : file.bits[p + 1] = 1 THEN 1 ELSE 0
BitsOf(ans) == [i \in DOMAIN ans |-> BitOf(ans[i])]
Number(ans) ==
  LET value[i \in 0 .. Len(ans)] == IF i = 0 THEN 0 ELSE 2 * value[i - 1] + BitOf(ans[i])
  IN  value[Len(ans)]

Read(field) == pc = field /\ ReadBits(Fields[field]) /\ answer' # None
Goto(label) == pc' = label

\* decompress passes an error on, decode_segment returns what it has.
Fail == pc' = IF file.mode = "stream" THEN "error" ELSE "done"

MoveToFront(order, i) == <<order[i]>> \o SubSeq(order, 1, i - 1) \o SubSeq(order, i + 1, Len(order))

Head0 == [orig |-> 0, present |-> <<>>, used |-> <<>>, seen |-> 0, groups |-> 0,
          count |-> 0, unary |-> 0, selectors |-> <<>>, order |-> [i \in 1 .. 6 |-> i - 1]]
Code0 == [trees |-> <<>>, length |-> 0, lengths |-> <<>>]
Sym0 == [tt |-> <<>>, c |-> [b \in AllBytes |-> 0], mtf |-> <<>>, left |-> GroupSize, sel |-> 0,
         repeat |-> 0, power |-> 0, node |-> <<>>]
Unrle0 == [links |-> <<>>, tPos |-> 0, todo |-> 0, last |-> -1, repeats |-> 0, cap |-> 0, out |-> <<>>]

Size(f) == Len(f.bits) \div 8

\* decompress reads on from byte 4 of data that has as many, decode_segment
\* behind a magic that was found in its data.
ASSUME InputsAssumption ==
  \A f \in Inputs : Len(f.bits) \in Nat /\ f.start \in 0 .. 8 * Size(f)

Init ==
  /\ file \in Inputs
  /\ reader = FromBitOffset(Size(file), file.start) /\ answer = None
  /\ pc = IF file.mode = "stream" THEN "magic" ELSE "crc"
  /\ head = Head0 /\ code = Code0 /\ sym = Sym0 /\ unrle = Unrle0
  /\ output = <<>>

-----------------------------------------------------------------------------
(* The loops over blocks                                                   *)

\* decode_segment goes on while a magic fits and its range is not left.
NextBlock ==
  /\ pc = "next"
  /\ IF file.mode = "segment" /\ (\/ Position(reader) + 48 > 8 * reader.size
                                  \/ Position(reader) >= file.stop)
     THEN Goto("done") ELSE Goto("magic")
  /\ UNCHANGED <<readerVars, coreVars>>

ReadMagic ==
  /\ Read("magic")
  /\ \/ BitsOf(answer') = BlockMagic /\ Goto("crc")
     \/ BitsOf(answer') = FinalMagic /\ Goto(IF file.mode = "stream" THEN "done" ELSE "streamCrc")
     \/ BitsOf(answer') \notin {BlockMagic, FinalMagic} /\ Fail
  /\ head' = Head0 /\ code' = Code0 /\ sym' = Sym0
  /\ UNCHANGED <<file, unrle, output>>

ReadStreamCrc == Read("streamCrc") /\ Goto("pad") /\ UNCHANGED coreVars

SkipPad ==
  /\ pc = "pad"
  /\ LET pad == (8 - (Position(reader) % 8)) % 8 IN
       \/ pad > 0 /\ Skip(pad)
       \/ pad = 0 /\ UNCHANGED readerVars
  /\ Goto("header")
  /\ UNCHANGED coreVars

ReadHeader ==
  /\ Read("header")
  /\ Goto(IF SubSeq(BitsOf(answer'), 1, 24) = HeaderMagic THEN "next" ELSE "done")
  /\ UNCHANGED coreVars

-----------------------------------------------------------------------------
(* The head of a block                                                     *)

ReadCrc == Read("crc") /\ Goto("randomised") /\ UNCHANGED coreVars

ReadRandomised ==
  /\ Read("randomised")
  /\ IF Number(answer') = 1 THEN Fail ELSE Goto("origin")
  /\ UNCHANGED coreVars

ReadOrigin ==
  /\ Read("origin") /\ Goto("ranges")
  /\ head' = [head EXCEPT !.orig = Number(answer')]
  /\ UNCHANGED <<file, code, sym, unrle, output>>

\* The bytes of the ranges that are present.
Candidates(present) == Sorted({b \in AllBytes : present[b \div RangeSize + 1] = 1})

ReadRange ==
  /\ Read("ranges")
  /\ LET present == Append(head.present, Number(answer')) IN
       /\ head' = [head EXCEPT !.present = present]
       /\ IF Len(present) < RangeSize THEN Goto("ranges")
          ELSE IF Candidates(present) = <<>> THEN Fail ELSE Goto("bitmap")
  /\ UNCHANGED <<file, code, sym, unrle, output>>

ReadBitmap ==
  /\ Read("bitmap")
  /\ LET all == Candidates(head.present)
         used == IF Number(answer') = 1 THEN Append(head.used, all[head.seen + 1]) ELSE head.used
     IN  /\ head' = [head EXCEPT !.used = used, !.seen = @ + 1]
         /\ IF head.seen + 1 < Len(all) THEN Goto("bitmap")
            ELSE IF used = <<>> THEN Fail ELSE Goto("groups")
  /\ UNCHANGED <<file, code, sym, unrle, output>>

SymbolCount == Len(head.used) + 2
Eob == SymbolCount - 1

ReadGroups ==
  /\ Read("groups")
  /\ head' = [head EXCEPT !.groups = Number(answer')]
  /\ IF Number(answer') \in 2 .. 6 THEN Goto("selectors") ELSE Fail
  /\ UNCHANGED <<file, code, sym, unrle, output>>

ReadSelectorCount ==
  /\ Read("selectors")
  /\ head' = [head EXCEPT !.count = Number(answer')]
  /\ IF Number(answer') > MaxSelectors THEN Fail
     ELSE Goto(IF Number(answer') = 0 THEN "start" ELSE "unary")
  /\ UNCHANGED <<file, code, sym, unrle, output>>

\* Faulty variant: an index of n_groups gets through.
ReadSelectorLate ==
  /\ Read("unary")
  /\ IF Number(answer') = 1
     THEN /\ head' = [head EXCEPT !.unary = @ + 1]
          /\ IF head.unary + 1 > head.groups THEN Fail ELSE Goto("unary")
     ELSE LET i == head.unary + 1 IN
          /\ head' = [head EXCEPT !.unary = 0, !.selectors = Append(@, head.order[i]),
                                  !.order = MoveToFront(@, i)]
          /\ Goto(IF Len(head.selectors) + 1 < head.count THEN "unary" ELSE "start")
  /\ UNCHANGED <<file, code, sym, unrle, output>>

ReadSelector ==
  /\ Read("unary")
  /\ IF Number(answer') = 1
     THEN /\ head' = [head EXCEPT !.unary = @ + 1]
          /\ IF head.unary + 1 >= head.groups THEN Fail ELSE Goto("unary")
     ELSE LET i == head.unary + 1 IN
          /\ head' = [head EXCEPT !.unary = 0, !.selectors = Append(@, head.order[i]),
                                  !.order = MoveToFront(@, i)]
          /\ Goto(IF Len(head.selectors) + 1 < head.count THEN "unary" ELSE "start")
  /\ UNCHANGED <<file, code, sym, unrle, output>>

CheckLength(length) == IF length \in 1 .. 20 THEN Goto("adjust") ELSE Fail

ReadStart ==
  /\ Read("start")
  /\ code' = [code EXCEPT !.length = Number(answer'), !.lengths = <<>>]
  /\ CheckLength(Number(answer'))
  /\ UNCHANGED <<file, head, sym, unrle, output>>

\* The bit after which a length stands; with the last one the tree is built.
ReadAdjust ==
  /\ Read("adjust")
  /\ IF Number(answer') = 1 THEN Goto("direction") /\ UNCHANGED <<code, sym>>
     ELSE LET lengths == Append(code.lengths, code.length)
              table == [s \in 0 .. Len(lengths) - 1 |-> lengths[s + 1]]
          IN  IF Len(lengths) < SymbolCount
              THEN /\ code' = [code EXCEPT !.lengths = lengths]
                   /\ Goto("adjust") /\ UNCHANGED sym
              ELSE /\ code' = [code EXCEPT !.lengths = <<>>, !.trees = Append(@, table)]
                   /\ IF TooLarge(table) THEN Fail
                      ELSE IF PastTable(table) THEN Goto("panic")
                      ELSE Goto(IF Len(code.trees) + 1 < head.groups THEN "start" ELSE "peek")
                   /\ sym' = [sym EXCEPT !.mtf = head.used]
  /\ UNCHANGED <<file, head, unrle, output>>

ReadDirection ==
  /\ Read("direction")
  /\ LET length == IF Number(answer') = 1 THEN code.length - 1 ELSE code.length + 1 IN
       code' = [code EXCEPT !.length = length] /\ CheckLength(length)
  /\ UNCHANGED <<file, head, sym, unrle, output>>

-----------------------------------------------------------------------------
(* The symbols                                                             *)

\* With no selector at all the first table is used.
Tree == code.trees[1 + IF head.selectors = <<>> THEN 0 ELSE head.selectors[sym.sel + 1]]

Repeated(b, k) == [i \in 1 .. k |-> b]
Counted(b, k) == [sym.c EXCEPT ![b] = @ + k]

\* Behind a symbol: the next one, with the next table after GroupSize.
Proceed(new) ==
  IF sym.left > 1 THEN sym' = [new EXCEPT !.left = @ - 1] /\ Goto("peek")
  ELSE /\ sym' = [new EXCEPT !.left = GroupSize, !.sel = @ + 1]
       /\ IF sym.sel + 1 >= head.count THEN Fail
          ELSE IF head.selectors[sym.sel + 2] >= Len(code.trees) THEN Fail
          ELSE Goto("peek")

\* Faulty variant: the power is reset only for the first run of a block.
RunSymbolResetOnce(s) ==
  LET power == IF sym.power = 0 THEN 1 ELSE sym.power
      repeat == sym.repeat + (IF s = 0 THEN power ELSE 2 * power)
      new == [sym EXCEPT !.repeat = repeat, !.power = 2 * power]
  IN  IF repeat > MaxBlocksize THEN sym' = new /\ Fail ELSE Proceed(new)

\* RUNA or RUNB.
RunSymbol(s) ==
  LET power == IF sym.repeat = 0 THEN 1 ELSE sym.power
      repeat == sym.repeat + (IF s = 0 THEN power ELSE 2 * power)
      new == [sym EXCEPT !.repeat = repeat, !.power = 2 * power]
  IN  IF repeat > MaxBlocksize THEN sym' = new /\ Fail ELSE Proceed(new)

\* Faulty variant: the count of the byte is not updated.
FlushedUncounted ==
  [sym EXCEPT !.tt = @ \o Repeated(sym.mtf[1], sym.repeat), !.repeat = 0]

\* The pending run is written.
Flushed ==
  [sym EXCEPT !.tt = @ \o Repeated(sym.mtf[1], sym.repeat), !.repeat = 0,
              !.c = Counted(sym.mtf[1], sym.repeat)]

Literal(s) ==
  LET b == sym.mtf[s]
      flushed == Flushed
  IN  IF Len(flushed.tt) >= Blocksize THEN sym' = flushed /\ Fail
      ELSE Proceed([flushed EXCEPT !.tt = Append(@, b), !.mtf = MoveToFront(@, s),
                                   !.c[b] = @ + 1])

\* inverse_bwt: the bytes with the index of their successors, ORed into the
\* place that the counts give.
Links(tt, c) ==
  LET less(b) == MapThenSumSet(LAMBDA x : c[x], {x \in AllBytes : x < b})
      place(i) == less(tt[i]) + Cardinality({j \in 1 .. i - 1 : tt[j] = tt[i]})
  IN  [k \in 1 .. Len(tt) |-> [byte |-> tt[k], next |-> {i - 1 : i \in {j \in 1 .. Len(tt) : place(j) = k - 1}}]]

\* The places at which inverse_bwt writes are all in tt.
Placed(links) == UNION {links[k].next : k \in DOMAIN links} = 0 .. Len(links) - 1

\* An OR of several indexes is at least their maximum.
Index(next) == Max(next \cup {0})

\* The capacity for the output of a block of n: a quarter more than the block,
\* or than any block.
Quarter(n) == n + n \div 4
Room(n) == Quarter(IF file.mode = "stream" THEN n ELSE Blocksize)

\* EOB: the inverse transform, and a buffer for the output.
EndOfBlock ==
  LET new == Flushed
      tt == new.tt
      links == Links(tt, new.c)
  IN  /\ sym' = new
      /\ IF head.orig >= Len(tt) THEN Fail /\ UNCHANGED unrle
         ELSE /\ Goto(IF Placed(links) THEN "unrle" ELSE "panic")
              /\ unrle' = [Unrle0 EXCEPT
                   !.links = links, !.tPos = Index(links[head.orig + 1].next), !.todo = Len(tt),
                   !.cap = Room(Len(tt))]

\* A run that does not fit ends the block before the symbol counts.
Symbol(s) ==
  /\ IF s \in {0, 1} THEN RunSymbol(s) /\ UNCHANGED unrle
     ELSE IF sym.repeat > 0 /\ Len(sym.tt) + sym.repeat > Blocksize
     THEN Fail /\ UNCHANGED <<sym, unrle>>
     ELSE IF s = Eob THEN EndOfBlock
     ELSE Literal(s) /\ UNCHANGED unrle
  /\ UNCHANGED <<file, head, code, output>>

PeekSymbol ==
  /\ pc = "peek" /\ Peek(FastBits)
  /\ Goto("entry")
  /\ UNCHANGED coreVars

Entry == IF answer = None THEN {} ELSE FastEntry(Tree, Number(answer))

FastSymbol ==
  /\ pc = "entry"
  /\ \E s \in Entry : Consume(Tree[s]) /\ Symbol(s)

SlowSymbol ==
  /\ pc = "entry" /\ Entry = {}
  /\ sym' = [sym EXCEPT !.node = <<>>] /\ Goto("walk")
  /\ UNCHANGED <<readerVars, file, head, code, unrle, output>>

\* One step down the tree; a child that is missing is the root again.
WalkBit ==
  /\ Read("walk")
  /\ LET path == Append(sym.node, Number(answer')) IN
       \/ \E s \in LeafAt(Tree, path) : Symbol(s)
       \/ /\ LeafAt(Tree, path) = {}
          /\ sym' = [sym EXCEPT !.node = IF path \in Inner(Tree) THEN path ELSE <<>>]
          /\ Goto("walk")
          /\ UNCHANGED <<file, head, code, unrle, output>>

-----------------------------------------------------------------------------
(* The last run length decoding                                            *)

\* Vec::reserve: enough, or the double capacity.
Reserved(len) == {len, Max({len, 2 * unrle.cap})}

\* The byte behind four equal ones is a count; a Vec grows for it, a buffer
\* of the caller asserts that it need not.
Run(count, next) ==
  LET len == Len(unrle.out) + count IN
  IF len > unrle.cap /\ file.mode = "segment" THEN Goto("panic") /\ UNCHANGED unrle
  ELSE /\ Goto("unrle")
       /\ \E cap \in IF len > unrle.cap THEN Reserved(len) ELSE {unrle.cap} :
            unrle' = [unrle EXCEPT !.out = @ \o Repeated(unrle.last, count), !.cap = cap,
                        !.tPos = next, !.todo = @ - 1, !.last = -1, !.repeats = 0]

\* Faulty variant: the count is looked for after three equal bytes.
PlainEager(b, next) ==
  IF Len(unrle.out) >= unrle.cap /\ file.mode = "segment" THEN Goto("panic") /\ UNCHANGED unrle
  ELSE /\ Goto(IF Len(unrle.out) >= unrle.cap THEN "overflow" ELSE "unrle")
       /\ unrle' = [unrle EXCEPT !.out = Append(@, b), !.tPos = next, !.todo = @ - 1, !.last = b,
                      !.repeats = IF unrle.last = b THEN Max({@ + 1, 2}) ELSE 0]

\* Any other byte; it is asserted that a buffer of the caller has room for it,
\* and written, room or not, in a Vec.
Plain(b, next) ==
  IF Len(unrle.out) >= unrle.cap /\ file.mode = "segment" THEN Goto("panic") /\ UNCHANGED unrle
  ELSE /\ Goto(IF Len(unrle.out) >= unrle.cap THEN "overflow" ELSE "unrle")
       /\ unrle' = [unrle EXCEPT !.out = Append(@, b), !.tPos = next, !.todo = @ - 1, !.last = b,
                      !.repeats = IF unrle.last = b THEN @ + 1 ELSE 0]

OutputByte ==
  /\ pc = "unrle" /\ unrle.todo > 0
  /\ LET entry == unrle.links[unrle.tPos + 1] IN
       IF unrle.repeats = 3 THEN Run(entry.byte, Index(entry.next))
       ELSE Plain(entry.byte, Index(entry.next))
  /\ UNCHANGED <<readerVars, file, head, code, sym, output>>

FinishBlock ==
  /\ pc = "unrle" /\ unrle.todo = 0
  /\ output' = Append(output, unrle.out)
  /\ Goto("next")
  /\ UNCHANGED <<readerVars, file, head, code, sym, unrle>>

-----------------------------------------------------------------------------

\* Faulty variants: the walk of the tree starts again; a stream ends here.
TruncatedRetries ==
  /\ pc \in DOMAIN Fields
  /\ ReadBits(Fields[pc]) /\ answer' = None
  /\ IF pc = "walk" THEN Goto("peek") ELSE Fail
  /\ UNCHANGED coreVars

TruncatedIsEnd ==
  /\ pc \in DOMAIN Fields
  /\ ReadBits(Fields[pc]) /\ answer' = None
  /\ Goto("done")
  /\ UNCHANGED coreVars

\* None: the data ends.
Truncated ==
  /\ pc \in DOMAIN Fields
  /\ ReadBits(Fields[pc]) /\ answer' = None
  /\ Fail
  /\ UNCHANGED coreVars

Finished == pc \in Ended /\ UNCHANGED vars

Step ==
  \/ NextBlock \/ ReadMagic \/ ReadStreamCrc \/ SkipPad \/ ReadHeader
  \/ ReadCrc \/ ReadRandomised \/ ReadOrigin \/ ReadRange \/ ReadBitmap \/ ReadGroups
  \/ ReadSelectorCount \/ ReadSelector \/ ReadStart \/ ReadAdjust \/ ReadDirection
  \/ PeekSymbol \/ FastSymbol \/ SlowSymbol \/ WalkBit
  \/ OutputByte \/ FinishBlock \/ Truncated

Next == Step \/ Finished

SafeSpec == Init /\ [][Next]_vars

\* A thread that decodes goes on.
Spec == SafeSpec /\ WF_vars(Step)

-----------------------------------------------------------------------------
(* Properties                                                              *)

\* The types; the selectors are of tables that exist, so that "selector out
\* of range" is never the answer (block.rs:226), and no walk of a tree passes
\* its longest code.  More than the capacity is written only where pc says so.
DecodeTypeOK ==
  /\ pc \in DOMAIN Fields \cup Ended \cup {"next", "pad", "peek", "entry", "unrle"}
  /\ reader.at \in 0 .. reader.size /\ reader.bits \in 0 .. 64
  /\ head.used \in Seq(AllBytes) /\ IsInjective(head.used)
  /\ \A i \in DOMAIN head.selectors : head.selectors[i] < head.groups
  /\ pc \in {"peek", "entry", "walk"} =>
       /\ Len(code.trees) = head.groups
       /\ ToSet(sym.mtf) = ToSet(head.used) /\ Len(sym.mtf) = Len(head.used)
  /\ sym.tt \in Seq(AllBytes) /\ Len(sym.tt) <= Blocksize
  /\ Len(sym.node) < 20
  /\ unrle.repeats \in 0 .. 3
  /\ pc = "overflow" <=> Len(unrle.out) > unrle.cap

\* What was encoded is decoded, whatever the alignment of a block, the tables
\* it uses and the streams that are concatenated; decompress gives the blocks
\* of the first stream (stream.rs:46), decode_segment those of its range.  The
\* one way to fail on an intact file is a block of which the text is longer
\* than the capacity for it: decode_segment then panics (block.rs:330, 347),
\* and decompress writes behind its Vec (block.rs:293), the blocks in front
\* decoded.
RoundTrip ==
  pc \in Ended /\ file.fate = "intact" =>
    \/ pc = "done" /\ output = file.expect
    \/ /\ pc = IF file.mode = "stream" THEN "overflow" ELSE "panic"
       /\ IsStrictPrefix(output, file.expect)
       /\ Len(file.expect[Len(output) + 1]) > Room(Len(unrle.links))

\* A file that is cut off gives whole blocks from its beginning; decompress
\* ends well only with all of them, while decode_segment hides the cut.
CutIsNoticed ==
  pc \in Ended /\ file.fate = "cut" =>
    /\ IsPrefix(output, file.expect)
    /\ file.mode = "stream" /\ pc = "done" => output = file.expect

\* The unchecked reads of the last decoding (block.rs:258, 262) stay in tt,
\* whatever the data were: the links of inverse_bwt are a permutation.
PointersInRange ==
  pc = "unrle" =>
    /\ unrle.tPos \in 0 .. Len(unrle.links) - 1
    /\ \A k \in DOMAIN unrle.links : Cardinality(unrle.links[k].next) = 1
    /\ Placed(unrle.links)

\* Doubling power for as long as a run lasts never overflows, though only
\* repeat is compared with the limit (block.rs:188-192).
RunsBounded ==
  /\ sym.repeat <= 3 * MaxBlocksize + 2
  /\ sym.repeat > 0 => sym.power <= sym.repeat + 1

\* The filling of a fast table reaches beyond its end (huffman.rs:121) if, and
\* only if, the short codes alone are more than a code can have.  With lengths
\* that a prefix code can have, the bits of every code lead to its symbol, in
\* the tree and, when it is short, in the table alike.
Fills(lengths, S) == SumFunction([s \in S |-> Pow2[20 - lengths[s]]])
Kraft(lengths) == Fills(lengths, Used(lengths)) <= Pow2[20]
Short(lengths) == {s \in Used(lengths) : lengths[s] <= FastBits}
TablesDecode ==
  pc \in {"peek", "panic", "done"} /\ sym.tt = <<>> =>
    \A i \in DOMAIN code.trees :
      LET lengths == code.trees[i] IN
      /\ PastTable(lengths) <=> Fills(lengths, Short(lengths)) > Pow2[20]
      /\ Kraft(lengths) =>
           /\ FastIsWalk(lengths)
           /\ \A s \in Used(lengths) : LeafAt(lengths, Path(lengths, s)) = {s}

\* Every file comes to an end, also one of which the bits stop short of a
\* symbol or whose tables have codes that lead nowhere (huffman.rs:150).
Ends == <>(pc \in Ended)

\* A block that was encoded within max_blocksize fits the room for its text:
\* "max_blocksize + 25% is safe" (block.rs:371) for the buffer of a caller, and
\* decode_block "returns the fully decompressed block data" (block.rs:360).
BlocksFit == file.fate = "intact" => pc \notin {"panic", "overflow"}
=============================================================================
