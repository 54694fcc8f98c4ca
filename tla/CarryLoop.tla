----------------------------- MODULE CarryLoop -----------------------------
(***************************************************************************)
(* The main thread of lbunzip2 from the bytes' point of view: each read is *)
(* put behind the carry of the one before, the whole is split into         *)
(* segments, all but the last are decoded and the last becomes the carry   *)
(* (src/bin/lbunzip2.rs, src/chunk.rs).                                    *)
(*                                                                         *)
(* That a buffer holds consecutive bytes of the file is a property here,   *)
(* not an assumption (see FileBuffer).                                     *)
(***************************************************************************)
EXTENDS FileBuffer, SequencesExt

CONSTANTS
  ChunkSize,     \* CHUNK_SIZE: bytes of one read
  Headroom,      \* CARRY_HEADROOM: room for the carry in front of it
  HeaderSize,    \* 4: "BZhN", read before the loop
  WorkerCounts,  \* values of n_workers considered
  Inputs         \* the files considered

ASSUME CarryAssumption ==
  /\ {ChunkSize, Headroom, HeaderSize} \subseteq Nat \ {0}
  /\ WorkerCounts \subseteq Nat \ {0}
  /\ HeaderSize < Window /\ HeaderSize <= Headroom

\* A file holds its header (main returns an error otherwise).  No block is shorter
\* than what is verified of it, which decode_block reads as well.  Two magics never
\* begin within a byte: the 48 bits overlap themselves by three at most.
MagicsApart(file) == \A k, m \in Magics(file) : k < m => k + ByteBits <= m
ASSUME FilesAssumption ==
  \A f \in Inputs :
    /\ WellFormed(f) /\ HeaderSize <= f.size /\ MagicsApart(f)
    /\ \A b \in DOMAIN f.blocks : f.blocks[b].first + MagicBits + VerifyBits <= f.blocks[b].end
    /\ f.forged \subseteq f.fakes

VARIABLES
  input,    \* the file up to its end or to the first read error, which is taken
            \* for the end; damaged: blocks that fail to decode; forged: those
            \* of its fakes of which the header passes quick_verify_block, too
  n,        \* n_workers, the number of segments asked for
  carry,    \* the bytes carried over
  pos,      \* bytes of the file read so far
  decoded,  \* the blocks decoded, in the order of chunks and segments
  pc        \* "loop", "done", "panicked"

vars == <<input, n, carry, pos, decoded, pc>>

Blocks == DOMAIN input.blocks
First(b) == input.blocks[b].first
End(b) == input.blocks[b].end

Init ==
  /\ input \in Inputs
  /\ n \in WorkerCounts
  /\ carry = Bytes(0, HeaderSize)
  /\ pos = HeaderSize
  /\ decoded = <<>>
  /\ pc = "loop"

\* decode_segment: blocks one after the other from start, as long as they
\* begin before end, are in the buffer as a whole and decode; nothing if no
\* block begins at start.
DecodeSegment(data, start, end) ==
  LET i == start \div ByteBits + 1
      shift == (data[i] - (i - 1)) * ByteBits
      runEnd == (data[RunEnd(data, i)] + 1) * ByteBits
      hit == {b \in Blocks : First(b) = start + shift}
      reached == {b \in Blocks : /\ \A h \in hit : b >= h
                                 /\ hit # {}
                                 /\ First(b) < end + shift
                                 /\ \A c \in Blocks : c <= b /\ (\A h \in hit : c >= h)
                                                       => End(c) <= runEnd /\ c \notin input.damaged}
  IN  Sorted(reached)

\* Faulty variant: the segment that is carried over is decoded as well.
DecodeEvery(data, split) ==
  LET end(i) == IF i < Len(split.starts) THEN split.starts[i + 1]
                ELSE Len(data) * ByteBits
  IN  FlattenSeq([i \in DOMAIN split.starts |->
                    DecodeSegment(data, split.starts[i], end(i))])

DecodeAll(data, split) ==
  LET end(i) == IF i < Len(split.starts) THEN split.starts[i + 1]
                ELSE Len(data) * ByteBits
  IN  FlattenSeq([i \in 1 .. split.count |->
                    DecodeSegment(data, split.starts[i], end(i))])

\* Faulty variant: the end of the file is not seen.
ReadLenEndless == ChunkSize

ReadLen == Min({ChunkSize, input.size - pos})
IsLast == ReadLen < ChunkSize
\* Faulty variant: the carry of the read before is not looked at.
EmptyRead == ReadLen = 0

Empty == ReadLen = 0 /\ Len(carry) <= HeaderSize

\* The carry, the chunk behind it, and how split_chunk cuts the two.
Slots == {carry \o Bytes(pos, pos + ReadLen)}
Marked(data) ==
  [Buffer(input, data) EXCEPT !.sound = @ \cup UNION {Occurrences(data, m) : m \in input.forged}]
Splits(data) == {SplitChunk(buf, n, IsLast) : buf \in {Marked(data)}}

\* An empty last read behind nothing but the header.
NothingLeft ==
  /\ pc = "loop" /\ Empty
  /\ pc' = "done"
  /\ UNCHANGED <<input, n, carry, pos, decoded>>

\* assert!(carry_len <= CARRY_HEADROOM)
CarryOverflow ==
  /\ pc = "loop" /\ ~Empty /\ Len(carry) > Headroom
  /\ pc' = "panicked"
  /\ UNCHANGED <<input, n, carry, pos, decoded>>

\* No split: the slot is handed back, and what was read into it is gone.
Reject ==
  /\ pc = "loop" /\ ~Empty /\ Len(carry) <= Headroom
  /\ \E data \in Slots : NoSplit \in Splits(data)
  /\ pos' = pos + ReadLen
  /\ pc' = IF IsLast THEN "done" ELSE "loop"
  /\ UNCHANGED <<input, n, carry, decoded>>

\* Faulty variant: the carry begins a byte late.
AcceptLate ==
  /\ pc = "loop" /\ ~Empty /\ Len(carry) <= Headroom
  /\ \E data \in Slots : \E split \in Splits(data) \ {NoSplit} :
       /\ decoded' = decoded \o DecodeAll(data, split)
       /\ carry' = SubSeq(data, split.consumed + 2, Len(data))
  /\ pos' = pos + ReadLen
  /\ pc' = IF IsLast THEN "done" ELSE "loop"
  /\ UNCHANGED <<input, n>>

Accept ==
  /\ pc = "loop" /\ ~Empty /\ Len(carry) <= Headroom
  /\ \E data \in Slots : \E split \in Splits(data) \ {NoSplit} :
       /\ decoded' = decoded \o DecodeAll(data, split)
       /\ carry' = SubSeq(data, split.consumed + 1, Len(data))
  /\ pos' = pos + ReadLen
  /\ pc' = IF IsLast THEN "done" ELSE "loop"
  /\ UNCHANGED <<input, n>>

Stopped == pc # "loop" /\ UNCHANGED vars

Next == NothingLeft \/ CarryOverflow \/ Reject \/ Accept \/ Stopped

Spec == Init /\ [][Next]_vars /\ WF_vars(Next)

-----------------------------------------------------------------------------
(* Properties                                                              *)

TypeOK ==
  /\ input \in Inputs /\ n \in WorkerCounts
  /\ carry \in Seq(0 .. input.size - 1)
  /\ pos \in 0 .. input.size
  /\ decoded \in Seq(Blocks)
  /\ pc \in {"loop", "done", "panicked"}

\* From the start of a block to the start of the next or the end of the file.
Span(b) ==
  (IF b + 1 \in Blocks THEN First(b + 1) ELSE input.size * ByteBits) - First(b)

\* A part of a slot, rounded up to a byte, fits the headroom, and each of the n
\* parts of a chunk is long enough that the search that begins with it finds a
\* boundary: there are blocks, from behind the header on.
Roomy ==
  /\ Headroom * n >= ChunkSize + Headroom
  /\ Blocks # {} /\ First(1) = HeaderSize * ByteBits /\ \A m \in Magics(input) : m >= First(1)
  /\ \A b \in Blocks :
       Span(b) + MagicBits + VerifyBits + Window * ByteBits <= (ChunkSize * ByteBits) \div n

\* No block is decoded twice or out of order, whatever was dropped.
DecodedInOrder ==
  \A i, j \in DOMAIN decoded : i < j => decoded[i] < decoded[j]

\* What was read and not decoded is the carry: main never loses a byte of a
\* block between two chunks.
Whole == input.damaged = {} /\ input.forged = {}
CarryIsTheRest ==
  Roomy =>
    /\ pc # "done" => carry = Bytes(pos - Len(carry), pos)
    /\ Whole => decoded = [i \in 1 .. Len(decoded) |-> i]
    /\ Whole /\ pc = "loop" /\ decoded # <<>> /\ Len(decoded) + 1 \in Blocks =>
         First(Len(decoded) + 1) \div ByteBits = carry[1]

\* With enough workers for the size of a chunk the carry fits the headroom.
CarryFits == Roomy => Len(carry) <= Headroom /\ pc # "panicked"

\* What was read is decoded to the end.  A block that fails (chunk.rs:96) and a
\* forged boundary (block_scan.rs:157) take blocks with them, but none in
\* front of them, and none further away than a part of a slot: there the search
\* for the next boundary begins.
Hole(m) ==
  {b \in Blocks : End(b) > m /\ First(b) <= m + ((ChunkSize + Headroom) * ByteBits) \div n}
Harm == {First(b) : b \in input.damaged} \cup input.forged
AllDecoded ==
  Roomy /\ pc = "done" =>
    \A b \in Blocks \ ToSet(decoded) :
      End(b) > input.size * ByteBits \/ \E m \in Harm : b \in Hole(m)

\* assert!(carry_len <= CARRY_HEADROOM) never fires.
HeadroomSuffices == pc # "panicked"

\* The caller carries data[consumed..] into the next slot: nothing read is
\* left out of the next buffer while the loop goes on.
NothingDropped == pc = "loop" => carry = Bytes(pos - Len(carry), pos)
=============================================================================
