----------------------------- MODULE BitReader -----------------------------
(***************************************************************************)
(* BitReader (src/bitreader.rs): a 64-bit buffer over a slice of bytes,    *)
(* refilled eight bytes at a time, or byte by byte near the end.           *)
(*                                                                         *)
(* A bit of the buffer is the set of the positions in the slice of which   *)
(* it is the OR.  The buffer keeps bits beyond bits_in_buf, which the next *)
(* refill ORs in once more.                                                *)
(***************************************************************************)
EXTENDS Integers, Sequences

CONSTANTS
  ReadCounts,  \* numbers of bits that are read at a time
  PeekCounts,  \* and peeked at, and consumed after that
  SkipCounts   \* and skipped

\* The limits the code asserts; skip would shift a full buffer by 64.
ASSUME CountsAssumption ==
  /\ ReadCounts \subseteq 1 .. 57
  /\ PeekCounts \subseteq 1 .. 56
  /\ SkipCounts \subseteq 1 .. 63

VARIABLES
  reader,  \* [size |-> bytes.len(), at |-> byte_pos, bits |-> bits_in_buf, buf]
  answer   \* what the last call returned; <<>>: None, or nothing

readerVars == <<reader, answer>>

None == <<>>
Width == 64

\* Faulty variant: a byte too many is counted when the buffer is not empty.
LoadsOneMore(r) ==
  IF (64 - r.bits + 7) \div 8 <= r.size - r.at THEN (64 - r.bits + 7) \div 8 ELSE r.size - r.at

\* Whole bytes for which the buffer has room and the slice has data.
Loads(r) ==
  IF (64 - r.bits) \div 8 <= r.size - r.at THEN (64 - r.bits) \div 8 ELSE r.size - r.at

\* Faulty variant: the bits beyond the count are taken for the next byte's.
RefillPacked(r) ==
  [size |-> r.size,
   at |-> r.at + Loads(r),
   bits |-> r.bits + 8 * Loads(r),
   buf |-> [i \in 0 .. 63 |->
              IF i >= r.bits THEN r.buf[i] \cup {8 * (r.at + Loads(r)) + i - r.bits} ELSE r.buf[i]]]

\* One load of eight bytes, of which all bits are ORed in, or single bytes.
Refill(r) ==
  LET past == IF r.at + 8 <= r.size THEN Width ELSE r.bits + 8 * Loads(r)
  IN  [size |-> r.size,
       at |-> r.at + Loads(r),
       bits |-> r.bits + 8 * Loads(r),
       buf |-> [i \in 0 .. 63 |->
                  IF r.bits <= i /\ i < past
                  THEN r.buf[i] \cup {8 * r.at + i - r.bits} ELSE r.buf[i]]]

Shift(r, n) ==
  [size |-> r.size, at |-> r.at, bits |-> r.bits - n,
   buf |-> [i \in 0 .. 63 |-> IF i + n < Width THEN r.buf[i + n] ELSE {}]]

Empty(size, at) == [size |-> size, at |-> at, bits |-> 0, buf |-> [i \in 0 .. 63 |-> {}]]
FromBitOffset(size, offset) == Shift(Refill(Empty(size, offset \div 8)), offset % 8)

Position(r) == 8 * r.at - r.bits

Ensure(r, n) == IF r.bits < n THEN Refill(r) ELSE r
TopUp(r) == IF r.bits <= 32 THEN Refill(r) ELSE r
Top(r, n) == [i \in 1 .. n |-> r.buf[i - 1]]

\* read_bits and its callers, and read_bit, which is read_bits(1).
ReadBits(n) ==
  LET r == Ensure(reader, n) IN
  \/ r.bits >= n /\ answer' = Top(r, n) /\ reader' = TopUp(Shift(r, n))
  \/ r.bits < n /\ answer' = None /\ reader' = r

Peek(n) ==
  /\ reader' = Ensure(reader, n)
  /\ answer' = IF reader'.bits >= n THEN Top(reader', n) ELSE None

\* The caller has peeked at as many bits.
Consume(n) ==
  /\ n <= reader.bits
  /\ reader' = Shift(reader, n) /\ answer' = None

\* The loop of skip: what is buffered, then what one more refill gives.
Skip(n) ==
  /\ LET rest == Refill(Shift(reader, reader.bits)) IN
       reader' = IF n <= reader.bits THEN Shift(reader, n)
                 ELSE Shift(rest, IF n - reader.bits <= rest.bits THEN n - reader.bits ELSE rest.bits)
  /\ answer' = None

ReaderNext ==
  \/ \E n \in ReadCounts : ReadBits(n)
  \/ \E n \in PeekCounts : Peek(n)
  \/ \E n \in PeekCounts : Consume(n)
  \/ \E n \in SkipCounts : Skip(n)

ReaderInit ==
  /\ \E size \in Nat : \E offset \in 0 .. 8 * size : reader = FromBitOffset(size, offset)
  /\ answer = None

ReaderSpec == ReaderInit /\ [][ReaderNext]_readerVars

-----------------------------------------------------------------------------
(* Properties                                                              *)

\* Whatever calls are made, every bit of the slice is returned exactly once
\* and in order, and None only at the end of the slice: neither the bits that
\* stay in the buffer beyond its count nor the two ways of refilling show.
Source == INSTANCE BitSource WITH total <- 8 * reader.size, pos <- Position(reader)
ReaderIsSource == Source!Spec
=============================================================================
