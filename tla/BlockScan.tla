----------------------------- MODULE BlockScan -----------------------------
(***************************************************************************)
(* Finding block magics in a buffer (src/block_scan.rs) and cutting a      *)
(* chunk into segments (split_chunk of src/chunk.rs).                      *)
(*                                                                         *)
(* A buffer is a record: bytes is its length; marks are the bit offsets    *)
(* where the block magic occurs, in a real block header or by coincidence; *)
(* sound is the subset whose header passes quick_verify_block.             *)
(***************************************************************************)
EXTENDS Integers, Sequences, FiniteSets, FiniteSetsExt, Sorting

CONSTANTS
  ByteBits,    \* 8: bits of a byte
  MagicBits,   \* 48: bits of the block magic
  VerifyBits,  \* 73: header bits quick_verify_block reads after the magic
  Window,      \* 8: bytes of the sliding window
  Stride       \* 2: bytes the window moves by

ASSUME ScanAssumption ==
  /\ {ByteBits, MagicBits, VerifyBits, Window, Stride} \subseteq Nat \ {0}
  /\ Window * ByteBits = MagicBits + Stride * ByteBits

None == -1

TotalBits(buf) == buf.bytes * ByteBits

\* The window moves in strides from the byte of start, and sees a magic only
\* from a position where it lies in the buffer as a whole.
FindNextBlock(buf, start) ==
  LET base == (start \div ByteBits) * ByteBits
      seen == {m \in buf.marks :
                 /\ m >= start
                 /\ base \div ByteBits + Stride * ((m - base) \div (Stride * ByteBits))
                      + Window <= buf.bytes}
  IN  IF seen = {} THEN None ELSE Min(seen)

\* Every magic in turn, each search resuming behind the magic found.
FindAllBlocks(buf) ==
  LET From[s \in Nat] ==
        LET c == FindNextBlock(buf, s) IN
        IF c = None THEN {} ELSE {c} \cup From[c + MagicBits]
  IN  From[0]

\* Faulty variant: every part is scanned as a buffer of its own.
ScanPartAlone(buf, n, i) ==
  LET part == buf.bytes \div n
      end == (IF i + 1 < n THEN (i + 1) * part ELSE buf.bytes) * ByteBits
      From[s \in Nat] ==
        LET c == FindNextBlock(buf, s) IN
        IF c = None \/ c + MagicBits > end THEN {} ELSE {c} \cup From[c + MagicBits]
  IN  From[i * part * ByteBits]

\* What thread i of n (from 0) of find_all_blocks_parallel finds: its part of
\* the buffer and Window bytes of the next one.
ScanPart(buf, n, i) ==
  LET part == buf.bytes \div n
      end == (IF i + 1 < n THEN (i + 1) * part + Window ELSE buf.bytes) * ByteBits
      From[s \in Nat] ==
        LET c == FindNextBlock(buf, s) IN
        IF s >= end \/ c = None \/ c >= end THEN {} ELSE {c} \cup From[c + MagicBits]
  IN  From[i * part * ByteBits]

\* The first verified magic at or after start; gives up at a candidate too
\* close to the end to be verified.
FindQuickBoundary(buf, start) ==
  LET Search[s \in Nat] ==
        LET c == FindNextBlock(buf, s) IN
        IF c = None \/ c + MagicBits + VerifyBits > TotalBits(buf) THEN None
        ELSE IF c \in buf.sound THEN c
        ELSE Search[c + 1]
  IN  Search[start]

\* Faulty variant: the last search is left out.
SplitBoundariesFewer(buf, n) ==
  {FindQuickBoundary(buf, (TotalBits(buf) * i) \div n) : i \in 1 .. n - 2} \ {None}

\* Each of n - 1 threads looks for a boundary from its nominal position; the
\* answers are sorted and deduplicated.
SplitBoundariesParallel(buf, n) ==
  {FindQuickBoundary(buf, (TotalBits(buf) * i) \div n) : i \in 1 .. n - 1} \ {None}

NoSplit == [starts |-> <<>>, count |-> 0, consumed |-> 0]

SplitChunk(buf, n, isLast) ==
  LET first == FindNextBlock(buf, 0)
      rest == Sorted(SplitBoundariesParallel(buf, n) \ {first})
      starts == <<first>> \o rest
      count == IF isLast THEN Len(starts) ELSE Len(starts) - 1
  IN  IF first = None \/ count = 0 THEN NoSplit
      ELSE [starts |-> starts, count |-> count,
            consumed |-> IF count < Len(starts) THEN starts[count + 1] \div ByteBits
                         ELSE buf.bytes]
=============================================================================
