------------------------- MODULE BlockDecodeProofs -------------------------
(***************************************************************************)
(* The bit reader implements BitSource, for slices of every length, a      *)
(* start at every bit and every sequence of calls; and four invariants of  *)
(* the decoder of blocks, for all files and all values of the constants.   *)
(*                                                                         *)
(* RunsBounded: only the symbols RUNA and RUNB change repeat and power to  *)
(* anything but 0; every other action is calm.                             *)
(*                                                                         *)
(* DecodeTypeOK and PointersInRange rest on DecodeInv, which says of each  *)
(* record what holds at each label.  The lemmas about the operators come   *)
(* first: above all that the links of inverse_bwt are a permutation when   *)
(* the counts are those of the bytes.  TablesDecode adds to it what the    *)
(* codes are, as sums of shares of the words of 20 bits.                   *)
(***************************************************************************)
EXTENDS BlockDecode, DataLemmas

-----------------------------------------------------------------------------
(* The reader                                                              *)

\* The valid bits are the next ones, and what lies beyond them is nothing or
\* what belongs there.
Good(r) ==
  /\ r = [size |-> r.size, at |-> r.at, bits |-> r.bits, buf |-> r.buf]
  /\ r.size \in Nat /\ r.at \in 0 .. r.size /\ r.bits \in 0 .. 64
  /\ Position(r) >= 0
  /\ \A i \in 0 .. r.bits - 1 : r.buf[i] = {Position(r) + i}
  /\ \A i \in r.bits .. 63 : r.buf[i] \subseteq {Position(r) + i}

ReaderInv == Good(reader)

\* A refill loads whole bytes, keeps the position, and leaves less than a
\* byte of room unless the slice is at its end.
LEMMA RefillGood ==
  ASSUME NEW r, Good(r)
  PROVE  /\ Good(Refill(r)) /\ Refill(r).size = r.size
         /\ Position(Refill(r)) = Position(r)
         /\ Refill(r).bits >= r.bits
         /\ Refill(r).bits > 56 \/ Refill(r).at = r.size
<1> DEFINE k == Loads(r)
           q == Refill(r)
<1>1. /\ r.size \in Nat /\ r.at \in Nat /\ r.at <= r.size /\ r.bits \in 0 .. 64
      /\ Position(r) = 8 * r.at - r.bits /\ Position(r) \in Nat
  BY DEF Good, Position
<1>2. /\ k \in Nat /\ r.bits + 8 * k <= 64 /\ r.at + k <= r.size
      /\ r.bits + 8 * k > 56 \/ r.at + k = r.size
      /\ r.at + 8 <= r.size => r.bits + 8 * k > 56
  <2> DEFINE room == (64 - r.bits) \div 8
  <2>1. room \in 0 .. 8 /\ r.bits + 8 * room <= 64 /\ r.bits + 8 * room > 56
    BY <1>1
  <2>2. k = IF room <= r.size - r.at THEN room ELSE r.size - r.at
    BY DEF Loads
  <2> HIDE DEF k, room
  <2>3. r.size - r.at \in Nat /\ room \in Nat /\ r.bits \in Nat
    BY <1>1, <2>1
  <2>4. CASE room <= r.size - r.at
    BY <1>1, <2>1, <2>2, <2>3, <2>4
  <2>5. CASE ~(room <= r.size - r.at)
    BY <1>1, <2>1, <2>2, <2>3, <2>5
  <2> QED
    BY <2>4, <2>5
<1> HIDE DEF k
<1>3. q.size = r.size /\ q.at = r.at + k /\ q.bits = r.bits + 8 * k
      /\ q = [size |-> q.size, at |-> q.at, bits |-> q.bits, buf |-> q.buf]
  BY DEF Refill, k
<1>4. Position(q) = Position(r)
  BY <1>1, <1>2, <1>3 DEF Position
<1> DEFINE past == IF r.at + 8 <= r.size THEN 64 ELSE r.bits + 8 * k
<1>5. /\ q.bits <= past /\ past <= 64 /\ past \in Nat
      /\ \A i \in 0 .. 63 : q.buf[i] = IF r.bits <= i /\ i < past
                                       THEN r.buf[i] \cup {8 * r.at + i - r.bits} ELSE r.buf[i]
  BY <1>1, <1>2, <1>3 DEF Refill, Width, k
<1> HIDE DEF past, q
<1>6. ASSUME NEW i \in 0 .. q.bits - 1 PROVE q.buf[i] = {Position(r) + i}
  <2>0. i \in Nat /\ i < r.bits + 8 * k
    BY <1>1, <1>2, <1>3
  <2>1. i \in 0 .. 63 /\ i < past /\ 8 * r.at + i - r.bits = Position(r) + i
    <3>1. i < past /\ i < 64
      BY <1>1, <1>2, <1>3, <1>5, <2>0
    <3>2. r.at \in Int /\ r.bits \in Int /\ i \in Int /\ Position(r) = 8 * r.at - r.bits
      BY <1>1, <2>0
    <3>3. 8 * r.at + i - r.bits = Position(r) + i
      BY <3>2
    <3> QED
      BY <2>0, <3>1, <3>3
  <2>2. CASE i < r.bits
    BY <1>1, <1>5, <2>1, <2>2 DEF Good
  <2>3. CASE r.bits <= i
    <3>1. r.buf[i] \subseteq {Position(r) + i}
      BY <1>1, <2>1, <2>3 DEF Good
    <3>2. q.buf[i] = r.buf[i] \cup {Position(r) + i}
      BY <1>5, <2>1, <2>3
    <3> QED
      BY <3>1, <3>2
  <2> QED
    BY <1>1, <2>1, <2>2, <2>3
<1>7. ASSUME NEW i \in q.bits .. 63 PROVE q.buf[i] \subseteq {Position(r) + i}
  <2>1. i \in 0 .. 63 /\ r.bits <= i /\ 8 * r.at + i - r.bits = Position(r) + i
    BY <1>1, <1>2, <1>3
  <2>2. r.buf[i] \subseteq {Position(r) + i}
    BY <1>1, <2>1 DEF Good
  <2>3. q.buf[i] = r.buf[i] \cup {Position(r) + i} \/ q.buf[i] = r.buf[i]
    BY <1>5, <2>1
  <2> QED
    BY <2>2, <2>3
<1>8. Good(q)
  BY <1>1, <1>2, <1>3, <1>4, <1>6, <1>7 DEF Good
<1> QED
  BY <1>1, <1>2, <1>3, <1>4, <1>8 DEF q

\* Shifting consumes.
LEMMA ShiftGood ==
  ASSUME NEW r, Good(r), NEW m \in 0 .. r.bits
  PROVE  /\ Good(Shift(r, m)) /\ Shift(r, m).size = r.size
         /\ Shift(r, m).bits = r.bits - m /\ Shift(r, m).at = r.at
         /\ Position(Shift(r, m)) = Position(r) + m
<1> DEFINE q == Shift(r, m)
<1>1. /\ r.size \in Nat /\ r.at \in Nat /\ r.at <= r.size /\ r.bits \in 0 .. 64
      /\ Position(r) = 8 * r.at - r.bits /\ Position(r) \in Nat /\ m \in Nat /\ m <= r.bits
  BY DEF Good, Position
<1>2. q.size = r.size /\ q.at = r.at /\ q.bits = r.bits - m
      /\ q = [size |-> q.size, at |-> q.at, bits |-> q.bits, buf |-> q.buf]
  BY DEF Shift
<1>3. Position(q) = Position(r) + m
  BY <1>1, <1>2 DEF Position
<1>4. \A i \in 0 .. 63 : q.buf[i] = IF i + m < 64 THEN r.buf[i + m] ELSE {}
  BY DEF Shift, Width
<1> HIDE DEF q
<1>5. ASSUME NEW i \in 0 .. q.bits - 1 PROVE q.buf[i] = {Position(q) + i}
  <2>1. i \in 0 .. 63 /\ i + m < 64 /\ i + m \in 0 .. r.bits - 1
    BY <1>1, <1>2
  <2>2. r.buf[i + m] = {Position(r) + (i + m)}
    BY <2>1 DEF Good
  <2>3. Position(r) + (i + m) = Position(q) + i
    BY <1>1, <1>3, <2>1
  <2>4. q.buf[i] = r.buf[i + m]
    <3> HIDE DEF Good
    <3> QED BY <1>4, <2>1
  <2> QED
    BY <2>2, <2>3, <2>4
<1>6. ASSUME NEW i \in q.bits .. 63 PROVE q.buf[i] \subseteq {Position(q) + i}
  <2>0. q.bits \in Nat
    BY <1>1, <1>2
  <2>1. i \in 0 .. 63
    BY <2>0
  <2>2. CASE i + m < 64
    <3>1. i + m \in r.bits .. 63
      BY <1>1, <1>2, <2>1, <2>2
    <3>2. r.buf[i + m] \subseteq {Position(r) + (i + m)}
      BY <3>1 DEF Good
    <3>3. Position(r) + (i + m) = Position(q) + i
      BY <1>1, <1>3, <2>1
    <3> QED
      BY <1>4, <2>1, <2>2, <3>2, <3>3
  <2>3. CASE ~(i + m < 64)
    BY <1>4, <2>1, <2>3
  <2> QED
    BY <2>2, <2>3
<1>7. Good(q)
  BY <1>1, <1>2, <1>3, <1>5, <1>6 DEF Good
<1> QED
  BY <1>2, <1>3, <1>7 DEF q

\* Enough bits for a call, unless the slice ends before.
LEMMA EnsureGood ==
  ASSUME NEW r, Good(r), NEW m \in 1 .. 57
  PROVE  /\ Good(Ensure(r, m)) /\ Ensure(r, m).size = r.size
         /\ Position(Ensure(r, m)) = Position(r)
         /\ Ensure(r, m).bits >= m <=> 8 * r.size - Position(r) >= m
<1> DEFINE q == Ensure(r, m)
<1>1. /\ Good(q) /\ q.size = r.size /\ Position(q) = Position(r)
      /\ q.bits >= m \/ q.at = r.size
  <2>1. CASE r.bits < m
    <3>1. q = Refill(r) /\ m <= 57 /\ Good(q)
      BY <2>1, RefillGood DEF Ensure
    <3>2. q.bits > 56 => q.bits >= m
      BY <3>1 DEF Good
    <3> QED
      BY <3>1, <3>2, RefillGood
  <2>2. CASE ~(r.bits < m)
    BY <2>2 DEF Ensure, Good
  <2> QED
    BY <2>1, <2>2
<1> HIDE DEF q
<1>2. Position(q) = 8 * q.at - q.bits /\ q.bits \in Nat /\ q.at \in Nat /\ q.at <= q.size
      /\ q.size \in Nat
  BY <1>1 DEF Good, Position
<1>3. q.bits >= m <=> 8 * r.size - Position(r) >= m
  <2>1. 8 * r.size - Position(r) = 8 * q.size - 8 * q.at + q.bits
    BY <1>1, <1>2
  <2>2. CASE q.bits >= m
    BY <1>2, <2>1, <2>2
  <2>3. CASE q.at = q.size
    BY <1>2, <2>1, <2>3
  <2> QED
    BY <1>1, <2>2, <2>3
<1> QED
  BY <1>1, <1>3 DEF q

LEMMA TopIsNext ==
  ASSUME NEW r, Good(r), NEW m \in 1 .. 57, r.bits >= m
  PROVE  Top(r, m) = [i \in 1 .. m |-> {Position(r) + i - 1}]
<1>1. r.bits \in Nat /\ Position(r) \in Int /\ m \in Nat
  BY DEF Good, Position
<1>2. ASSUME NEW i \in 1 .. m PROVE r.buf[i - 1] = {Position(r) + i - 1}
  <2>1. i - 1 \in 0 .. r.bits - 1 /\ Position(r) + (i - 1) = Position(r) + i - 1
    BY <1>1
  <2> QED
    BY <2>1 DEF Good
<1> QED
  BY <1>2 DEF Top

\* An empty reader is good, and so is one that starts in the middle of a byte.
LEMMA FromGood ==
  ASSUME NEW size \in Nat, NEW offset \in 0 .. 8 * size
  PROVE  /\ Good(FromBitOffset(size, offset))
         /\ FromBitOffset(size, offset).size = size
         /\ Position(FromBitOffset(size, offset)) = offset
<1> DEFINE at == offset \div 8
           e == Empty(size, at)
           r == Refill(e)
<1>1. /\ offset \in Nat /\ at \in 0 .. size /\ offset % 8 \in 0 .. 7
      /\ offset = 8 * at + (offset % 8)
      /\ (offset % 8) > 0 => at < size
  OBVIOUS
<1> HIDE DEF at
<1>2. Good(e) /\ e.size = size /\ Position(e) = 8 * at
  <2>1. e.bits = 0 /\ e.at = at /\ e.size = size /\ at \in Nat
        /\ \A i \in 0 .. 63 : e.buf[i] = {}
        /\ e = [size |-> e.size, at |-> e.at, bits |-> e.bits, buf |-> e.buf]
    BY <1>1 DEF Empty
  <2> HIDE DEF e
  <2>2. Position(e) = 8 * at
    BY <2>1 DEF Position
  <2>3. 0 .. e.bits - 1 = {} /\ e.bits .. 63 = 0 .. 63 /\ e.bits \in 0 .. 64
    BY <2>1
  <2>4. \A i \in e.bits .. 63 : e.buf[i] \subseteq {Position(e) + i}
    BY <2>1, <2>3
  <2>5. Position(e) >= 0 /\ e.size \in Nat /\ e.at \in 0 .. e.size
    BY <1>1, <2>1, <2>2
  <2> QED
    BY <2>1, <2>2, <2>3, <2>4, <2>5 DEF Good
<1> HIDE DEF e
<1>3. /\ Good(r) /\ r.size = size /\ Position(r) = 8 * at
      /\ r.bits > 56 \/ r.at = size
  BY <1>2, RefillGood
<1> HIDE DEF r
<1>4. offset % 8 \in 0 .. r.bits
  <2>1. Position(r) = 8 * r.at - r.bits /\ r.bits \in Nat /\ r.at \in Nat
    BY <1>3 DEF Good, Position
  <2>2. CASE r.bits > 56
    BY <1>1, <2>1, <2>2
  <2>3. CASE r.at = size
    <3>1. r.bits = 8 * size - 8 * at
      BY <1>1, <1>3, <2>1, <2>3
    <3>2. CASE (offset % 8) = 0
      BY <2>1, <3>2
    <3>3. CASE (offset % 8) > 0
      <4>1. at \in Nat /\ at + 1 <= size
        BY <1>1, <3>3
      <4>2. r.bits >= 8
        BY <3>1, <4>1
      <4> QED
        BY <1>1, <2>1, <4>2
    <3> QED
      BY <1>1, <3>2, <3>3
  <2> QED
    BY <1>3, <2>2, <2>3
<1>5. FromBitOffset(size, offset) = Shift(r, offset % 8)
  BY DEF FromBitOffset, r, e, at
<1>6. /\ Good(Shift(r, offset % 8)) /\ Shift(r, offset % 8).size = r.size
      /\ Position(Shift(r, offset % 8)) = Position(r) + (offset % 8)
  BY <1>3, <1>4, ShiftGood
<1>7. Position(r) + (offset % 8) = offset
  BY <1>1, <1>3
<1> QED
  BY <1>3, <1>5, <1>6, <1>7

\* A call of read_bits or read_bit.
LEMMA ReadStep ==
  ASSUME ReaderInv, NEW m \in 1 .. 57, ReadBits(m)
  PROVE  ReaderInv' /\ Source!Read(m)
<1> DEFINE r == Ensure(reader, m)
<1>1. /\ Good(r) /\ r.size = reader.size /\ Position(r) = Position(reader)
      /\ r.bits >= m <=> 8 * reader.size - Position(reader) >= m
  BY EnsureGood DEF ReaderInv
<1>2. \/ r.bits >= m /\ answer' = Top(r, m) /\ reader' = TopUp(Shift(r, m))
      \/ r.bits < m /\ answer' = None /\ reader' = r
  BY DEF ReadBits
<1> HIDE DEF r
<1>3. CASE r.bits >= m /\ answer' = Top(r, m) /\ reader' = TopUp(Shift(r, m))
  <2> DEFINE q == Shift(r, m)
  <2>1. m \in 0 .. r.bits
    BY <1>1, <1>3 DEF Good
  <2>2. Good(q) /\ q.size = reader.size /\ Position(q) = Position(reader) + m
    BY <1>1, <2>1, ShiftGood
  <2> HIDE DEF q
  <2>3. Good(TopUp(q)) /\ TopUp(q).size = reader.size /\ Position(TopUp(q)) = Position(reader) + m
    BY <2>2, RefillGood DEF TopUp
  <2>4. reader' = TopUp(q)
    BY <1>3 DEF q
  <2>5. answer' = [i \in 1 .. m |-> {Position(reader) + i - 1}]
    <3>1. Top(r, m) = [i \in 1 .. m |-> {Position(r) + i - 1}]
      BY <1>1, <1>3, TopIsNext
    <3> QED
      BY <1>1, <1>3, <3>1
  <2>6. Good(reader') /\ reader'.size = reader.size /\ Position(reader') = Position(reader) + m
    BY <2>3, <2>4
  <2>7. ReaderInv'
    BY <2>6 DEF ReaderInv
  <2>8. Position(reader)' = Position(reader) + m
    BY <2>6 DEF Position
  <2> QED
    BY <1>1, <1>3, <2>5, <2>6, <2>7, <2>8 DEF Source!Read, Source!Left, Source!Following
<1>4. CASE r.bits < m /\ answer' = None /\ reader' = r
  <2>1. ~(r.bits >= m)
    BY <1>1, <1>4 DEF Good
  <2>2. 8 * reader.size - Position(reader) < m
    BY <1>1, <2>1 DEF ReaderInv, Good, Position
  <2>3. Position(reader)' = Position(reader) /\ reader'.size = reader.size /\ ReaderInv'
    BY <1>1, <1>4 DEF Position, ReaderInv
  <2> QED
    BY <1>4, <2>2, <2>3 DEF Source!Read, Source!Left, Source!None, None
<1> QED
  BY <1>2, <1>3, <1>4

LEMMA PeekStep ==
  ASSUME ReaderInv, NEW m \in 1 .. 56, Peek(m)
  PROVE  ReaderInv' /\ Source!Peek(m)
<1> DEFINE r == Ensure(reader, m)
<1>0. m \in 1 .. 57
  OBVIOUS
<1>1. /\ Good(r) /\ r.size = reader.size /\ Position(r) = Position(reader)
      /\ r.bits >= m <=> 8 * reader.size - Position(reader) >= m
  BY <1>0, EnsureGood DEF ReaderInv
<1>2. reader' = r /\ answer' = IF r.bits >= m THEN Top(r, m) ELSE None
  BY DEF Peek
<1> HIDE DEF r
<1>3. r.bits >= m => Top(r, m) = [i \in 1 .. m |-> {Position(reader) + i - 1}]
  <2>1. r.bits >= m => Top(r, m) = [i \in 1 .. m |-> {Position(r) + i - 1}]
    BY <1>0, <1>1, TopIsNext
  <2> QED
    BY <1>1, <2>1
<1>4. Position(reader)' = Position(reader) /\ reader'.size = reader.size /\ ReaderInv'
  BY <1>1, <1>2 DEF Position, ReaderInv
<1>5. answer' = IF 8 * reader.size - Position(reader) >= m
                THEN [i \in 1 .. m |-> {Position(reader) + i - 1}] ELSE None
  BY <1>1, <1>2, <1>3
<1> QED
  BY <1>4, <1>5 DEF Source!Peek, Source!Left, Source!Following, Source!None, None

LEMMA ConsumeStep ==
  ASSUME ReaderInv, NEW m \in 1 .. 56, Consume(m)
  PROVE  ReaderInv' /\ Source!Consume(m)
<1>1. m \in 0 .. reader.bits /\ reader' = Shift(reader, m) /\ answer' = None
  BY DEF Consume, ReaderInv, Good
<1>2. Good(reader') /\ reader'.size = reader.size /\ Position(reader') = Position(reader) + m
  BY <1>1, ShiftGood DEF ReaderInv
<1>3. Position(reader)' = Position(reader) + m /\ ReaderInv'
  BY <1>2 DEF Position, ReaderInv
<1>4. m <= 8 * reader.size - Position(reader)
  <2>1. /\ reader.size \in Nat /\ reader.at \in Nat /\ reader.at <= reader.size
        /\ reader.bits \in Nat /\ m <= reader.bits
        /\ Position(reader) = 8 * reader.at - reader.bits
    BY <1>1 DEF ReaderInv, Good, Position
  <2>2. 8 * reader.size - Position(reader) = 8 * reader.size - 8 * reader.at + reader.bits
    BY <2>1
  <2> QED
    BY <2>1, <2>2
<1> QED
  BY <1>1, <1>2, <1>3, <1>4 DEF Source!Consume, Source!Left, Source!None, None

LEMMA SkipStep ==
  ASSUME ReaderInv, NEW m \in 1 .. 63, Skip(m)
  PROVE  ReaderInv' /\ Source!Skip(m)
<1> DEFINE s == Shift(reader, reader.bits)
           r == Refill(s)
           rest == m - reader.bits
           left == 8 * reader.size - Position(reader)
<1>1. /\ reader.size \in Nat /\ reader.at \in Nat /\ reader.at <= reader.size
      /\ reader.bits \in 0 .. 64 /\ Position(reader) \in Nat
      /\ Position(reader) = 8 * reader.at - reader.bits
  BY DEF ReaderInv, Good, Position
<1>2. Good(s) /\ s.bits = 0 /\ s.size = reader.size /\ Position(s) = 8 * reader.at
  <2>1. reader.bits \in 0 .. reader.bits
    BY <1>1
  <2>2. /\ Good(s) /\ s.size = reader.size /\ s.bits = reader.bits - reader.bits
        /\ Position(s) = Position(reader) + reader.bits
    BY <2>1, ShiftGood DEF ReaderInv
  <2> HIDE DEF s
  <2> QED
    BY <1>1, <2>2
<1> HIDE DEF s
<1>3. /\ Good(r) /\ r.size = reader.size /\ Position(r) = 8 * reader.at
      /\ r.bits > 56 \/ r.at = reader.size
  BY <1>2, RefillGood
<1>4. answer' = None /\ reader' = IF m <= reader.bits THEN Shift(reader, m)
                                  ELSE Shift(r, IF rest <= r.bits THEN rest ELSE r.bits)
  BY DEF Skip, s
<1> HIDE DEF r
<1>5. r.bits \in 0 .. 64 /\ r.at \in Nat /\ r.bits = 8 * r.at - 8 * reader.at
  BY <1>1, <1>3 DEF Good, Position
<1>6. left = 8 * reader.size - 8 * reader.at + reader.bits
  BY <1>1
<1>7. /\ Good(reader') /\ reader'.size = reader.size
      /\ Position(reader') = IF left >= m THEN Position(reader) + m ELSE 8 * reader.size
  <2>1. CASE m <= reader.bits
    <3>1. left >= m /\ m \in 0 .. reader.bits
      BY <1>1, <1>6, <2>1
    <3> QED
      BY <1>4, <2>1, <3>1, ShiftGood DEF ReaderInv
  <2>2. CASE ~(m <= reader.bits) /\ rest <= r.bits
    <3>1. rest \in 0 .. r.bits /\ 8 * reader.at + rest = Position(reader) + m
      BY <1>1, <1>5, <2>2
    <3>2. left >= m
      <4>1. r.at <= reader.size
        BY <1>3 DEF Good
      <4>2. r.bits <= 8 * reader.size - 8 * reader.at
        BY <1>1, <1>5, <4>1
      <4> QED
        BY <1>1, <1>5, <1>6, <2>2, <4>2
    <3> QED
      BY <1>3, <1>4, <2>2, <3>1, <3>2, ShiftGood
  <2>3. CASE ~(m <= reader.bits) /\ ~(rest <= r.bits)
    <3>1. r.at = reader.size /\ r.bits \in 0 .. r.bits
      <4>1. CASE r.bits > 56
        <5>1. 8 * (r.at - reader.at) > 56 /\ r.at - reader.at \in Int
          BY <1>1, <1>5, <4>1
        <5>2. r.bits = 64
          BY <1>1, <1>5, <5>1
        <5> QED
          BY <1>1, <2>3, <5>2
      <4> QED
        BY <1>3, <1>5, <4>1
    <3>2. ~(left >= m) /\ 8 * reader.at + r.bits = 8 * reader.size
      BY <1>1, <1>5, <1>6, <2>3, <3>1
    <3> QED
      BY <1>3, <1>4, <2>3, <3>1, <3>2, ShiftGood
  <2> QED
    BY <2>1, <2>2, <2>3
<1>8. /\ Position(reader)' = IF left >= m THEN Position(reader) + m ELSE 8 * reader.size
      /\ ReaderInv'
  BY <1>7 DEF Position, ReaderInv
<1> QED
  BY <1>4, <1>7, <1>8 DEF Source!Skip, Source!Left, Source!None, None

\* BitReader returns every bit of a slice exactly once and in order, and
\* None only when fewer are left than asked for, for slices of every length,
\* a start at every bit and any sequence of calls (read_bits, read_bit, peek,
\* consume, skip, refill and from_bit_offset of bitreader.rs).
THEOREM ReaderImplementsSource == ReaderSpec => ReaderIsSource
<1>1. ReaderInit => ReaderInv /\ Source!Init
  <2> SUFFICES ASSUME ReaderInit PROVE ReaderInv /\ Source!Init
    OBVIOUS
  <2>0. PICK size \in Nat : \E offset \in 0 .. 8 * size : reader = FromBitOffset(size, offset)
    BY DEF ReaderInit
  <2>1. PICK offset \in 0 .. 8 * size : reader = FromBitOffset(size, offset)
    BY <2>0
  <2>2. Good(reader) /\ reader.size = size /\ Position(reader) = offset
    BY <2>1, FromGood
  <2>3. answer = None
    BY DEF ReaderInit
  <2> QED
    BY <2>2, <2>3 DEF ReaderInv, Source!Init, Source!None, None
<1>2. ReaderInv /\ [ReaderNext]_readerVars => ReaderInv' /\ [Source!Next]_(Source!vars)
  <2> SUFFICES ASSUME ReaderInv, [ReaderNext]_readerVars
               PROVE  ReaderInv' /\ [Source!Next]_(Source!vars)
    OBVIOUS
  <2>1. ASSUME NEW m \in ReadCounts, ReadBits(m)
        PROVE  ReaderInv' /\ [Source!Next]_(Source!vars)
    BY <2>1, ReadStep, CountsAssumption DEF Source!Next
  <2>2. ASSUME NEW m \in PeekCounts, Peek(m)
        PROVE  ReaderInv' /\ [Source!Next]_(Source!vars)
    BY <2>2, PeekStep, CountsAssumption DEF Source!Next
  <2>3. ASSUME NEW m \in PeekCounts, Consume(m)
        PROVE  ReaderInv' /\ [Source!Next]_(Source!vars)
    BY <2>3, ConsumeStep, CountsAssumption DEF Source!Next
  <2>4. ASSUME NEW m \in SkipCounts, Skip(m)
        PROVE  ReaderInv' /\ [Source!Next]_(Source!vars)
    BY <2>4, SkipStep, CountsAssumption DEF Source!Next
  <2>5. CASE UNCHANGED readerVars
    BY <2>5 DEF readerVars, ReaderInv, Source!vars, Position
  <2> QED
    BY <2>1, <2>2, <2>3, <2>4, <2>5 DEF ReaderNext
<1> QED
  BY <1>1, <1>2, PTL DEF ReaderSpec, ReaderIsSource, Source!Spec

-----------------------------------------------------------------------------
(* The limit of a run                                                      *)

\* While a block is decoded repeat stays within its limit, and what a run
\* adds in the step that passes it is bounded by power.
RunsInv ==
  /\ {"repeat", "power"} \subseteq DOMAIN sym
  /\ sym.repeat \in Nat /\ sym.power \in Nat
  /\ RunsBounded
  /\ pc \notin Ended => sym.repeat <= MaxBlocksize

Calm ==
  /\ {"repeat", "power"} \subseteq DOMAIN sym'
  /\ sym'.repeat \in {0, sym.repeat} /\ sym'.power = sym.power

LEMMA CalmStep ==
  ASSUME RunsInv, Calm, pc \notin Ended \/ pc' \in Ended
  PROVE  RunsInv'
<1>1. MaxBlocksize \in Nat
  BY BlockAssumption
<1> QED
  BY <1>1 DEF RunsInv, Calm, RunsBounded

LEMMA FreshStep == sym' = Sym0 => RunsInv'
<1>1. MaxBlocksize \in Nat
  BY BlockAssumption
<1> SUFFICES ASSUME sym' = Sym0 PROVE RunsInv'
  OBVIOUS
<1>2. {"repeat", "power"} \subseteq DOMAIN sym' /\ sym'.repeat = 0 /\ sym'.power = 0
  BY DEF Sym0
<1> QED
  BY <1>1, <1>2 DEF RunsInv, RunsBounded

LEMMA FailEnds == Fail => pc' \in Ended
BY DEF Fail, Ended

LEMMA ProceedKeeps ==
  ASSUME NEW r, Proceed(r), {"repeat", "power"} \subseteq DOMAIN r
  PROVE  /\ {"repeat", "power"} \subseteq DOMAIN sym'
         /\ sym'.repeat = r.repeat /\ sym'.power = r.power
BY DEF Proceed

LEMMA FlushedCalm ==
  ASSUME RunsInv
  PROVE  /\ {"repeat", "power"} \subseteq DOMAIN Flushed
         /\ Flushed.repeat = 0 /\ Flushed.power = sym.power
BY DEF RunsInv, Flushed

\* A symbol of a run: power grows no faster than repeat.
LEMMA RunStep ==
  ASSUME RunsInv, pc \notin Ended, NEW s, RunSymbol(s)
  PROVE  RunsInv'
<1> DEFINE power == IF sym.repeat = 0 THEN 1 ELSE sym.power
           repeat == sym.repeat + (IF s = 0 THEN power ELSE 2 * power)
           new == [sym EXCEPT !.repeat = repeat, !.power = 2 * power]
<1>1. MaxBlocksize \in Nat
  BY BlockAssumption
<1>2. /\ sym.repeat \in Nat /\ sym.repeat <= MaxBlocksize
      /\ power \in Nat \ {0} => repeat > 0
      /\ power \in Nat /\ power <= sym.repeat + 1
  BY DEF RunsInv, RunsBounded
<1>3. repeat \in Nat /\ 2 * power <= repeat + 1 /\ repeat <= 3 * MaxBlocksize + 2
  BY <1>1, <1>2
<1>4. /\ {"repeat", "power"} \subseteq DOMAIN new
      /\ new.repeat = repeat /\ new.power = 2 * power
  BY DEF RunsInv
<1> HIDE DEF new, repeat, power
<1>5. CASE repeat > MaxBlocksize
  <2>1. sym' = new /\ Fail
    BY <1>5 DEF RunSymbol, new, repeat, power
  <2> QED
    BY <1>2, <1>3, <1>4, <2>1, FailEnds DEF RunsInv, RunsBounded
<1>6. CASE ~(repeat > MaxBlocksize)
  <2>1. Proceed(new)
    BY <1>6 DEF RunSymbol, new, repeat, power
  <2>2. /\ {"repeat", "power"} \subseteq DOMAIN sym'
        /\ sym'.repeat = repeat /\ sym'.power = 2 * power
    BY <1>4, <2>1, ProceedKeeps
  <2> QED
    BY <1>1, <1>2, <1>3, <1>6, <2>2 DEF RunsInv, RunsBounded
<1> QED
  BY <1>5, <1>6

LEMMA LiteralCalm ==
  ASSUME RunsInv, NEW s, Literal(s)
  PROVE  Calm
<1> DEFINE b == sym.mtf[s]
           new == [Flushed EXCEPT !.tt = Append(@, b), !.mtf = MoveToFront(@, s), !.c[b] = @ + 1]
<1>1. CASE sym' = Flushed
  BY <1>1, FlushedCalm DEF Calm
<1>2. CASE Proceed(new)
  <2>1. /\ {"repeat", "power"} \subseteq DOMAIN new
        /\ new.repeat = 0 /\ new.power = sym.power
    BY FlushedCalm
  <2> HIDE DEF new
  <2> QED
    BY <1>2, <2>1, ProceedKeeps DEF Calm
<1> QED
  BY <1>1, <1>2 DEF Literal

LEMMA SymbolStep ==
  ASSUME RunsInv, pc \notin Ended, NEW s, Symbol(s)
  PROVE  RunsInv'
<1>1. CASE RunSymbol(s)
  BY <1>1, RunStep
<1>2. CASE UNCHANGED sym
  BY <1>2, CalmStep DEF Calm, RunsInv
<1>3. CASE EndOfBlock
  <2>1. sym' = Flushed
    BY <1>3 DEF EndOfBlock
  <2> QED
    BY <2>1, FlushedCalm, CalmStep DEF Calm
<1>4. CASE Literal(s)
  BY <1>4, LiteralCalm, CalmStep
<1> QED
  BY <1>1, <1>2, <1>3, <1>4 DEF Symbol

LEMMA RunsStep == RunsInv /\ [Next]_vars => RunsInv'
<1> SUFFICES ASSUME RunsInv, [Next]_vars PROVE RunsInv'
  OBVIOUS
<1> USE DEF Goto, Read
<1>1. CASE UNCHANGED vars
  BY <1>1 DEF vars, coreVars, RunsInv, RunsBounded
<1>2. CASE NextBlock \/ ReadStreamCrc \/ SkipPad \/ ReadHeader \/ PeekSymbol
  <2>1. UNCHANGED sym /\ pc \notin Ended
    BY <1>2 DEF NextBlock, ReadStreamCrc, SkipPad, ReadHeader, PeekSymbol, coreVars, Ended
  <2> QED
    BY <2>1, CalmStep DEF Calm, RunsInv
<1>3. CASE ReadMagic
  BY <1>3, FreshStep DEF ReadMagic
<1>4. CASE ReadCrc \/ ReadRandomised \/ ReadOrigin \/ ReadRange \/ ReadBitmap \/ ReadGroups
  <2>1. UNCHANGED sym /\ pc \notin Ended
    BY <1>4 DEF ReadCrc, ReadRandomised, ReadOrigin, ReadRange, ReadBitmap, ReadGroups, coreVars, Ended
  <2> QED
    BY <2>1, CalmStep DEF Calm, RunsInv
<1>5. CASE ReadSelectorCount \/ ReadSelector \/ ReadStart \/ ReadDirection
  <2>1. UNCHANGED sym /\ pc \notin Ended
    BY <1>5 DEF ReadSelectorCount, ReadSelector, ReadStart, ReadDirection, Ended
  <2> QED
    BY <2>1, CalmStep DEF Calm, RunsInv
<1>6. CASE ReadAdjust
  <2>1. pc \notin Ended
    BY <1>6 DEF ReadAdjust, Ended
  <2>2. UNCHANGED sym \/ sym' = [sym EXCEPT !.mtf = head.used]
    BY <1>6 DEF ReadAdjust
  <2>3. Calm
    BY <2>2 DEF Calm, RunsInv
  <2> QED
    BY <2>1, <2>3, CalmStep
<1>7. CASE FastSymbol
  <2>1. pc \notin Ended
    BY <1>7 DEF FastSymbol, Ended
  <2> QED
    BY <1>7, <2>1, SymbolStep DEF FastSymbol
<1>8. CASE SlowSymbol
  <2>1. pc \notin Ended /\ sym' = [sym EXCEPT !.node = <<>>]
    BY <1>8 DEF SlowSymbol, Ended
  <2>2. Calm
    BY <2>1 DEF Calm, RunsInv
  <2> QED
    BY <2>1, <2>2, CalmStep
<1>9. CASE WalkBit
  <2> DEFINE path == Append(sym.node, Number(answer'))
  <2>1. pc \notin Ended
    BY <1>9 DEF WalkBit, Ended
  <2>2. CASE \E s \in LeafAt(Tree, path) : Symbol(s)
    BY <2>1, <2>2, SymbolStep
  <2>3. CASE sym' = [sym EXCEPT !.node = IF path \in Inner(Tree) THEN path ELSE <<>>]
    <3>1. Calm
      BY <2>3 DEF Calm, RunsInv
    <3> QED
      BY <2>1, <3>1, CalmStep
  <2> QED
    BY <1>9, <2>2, <2>3 DEF WalkBit
<1>10. CASE OutputByte \/ FinishBlock
  <2>1. UNCHANGED sym /\ pc \notin Ended
    BY <1>10 DEF OutputByte, FinishBlock, Ended
  <2> QED
    BY <2>1, CalmStep DEF Calm, RunsInv
<1>11. CASE Truncated
  <2>1. UNCHANGED sym /\ pc' \in Ended
    BY <1>11, FailEnds DEF Truncated, coreVars
  <2> QED
    BY <2>1, CalmStep DEF Calm, RunsInv
<1> QED
  BY <1>1, <1>2, <1>3, <1>4, <1>5, <1>6, <1>7, <1>8, <1>9, <1>10, <1>11
  DEF Next, Step, Finished

\* Whatever the bits of the data are, repeat and its power stay below three
\* times the largest block: neither overflows the 32 bits it has in the code.
THEOREM RunsNeverOverflow == SafeSpec => []RunsBounded
<1>1. Init => RunsInv
  <2> SUFFICES ASSUME Init PROVE RunsInv
    OBVIOUS
  <2>1. MaxBlocksize \in Nat /\ sym = Sym0
    BY BlockAssumption DEF Init
  <2>2. {"repeat", "power"} \subseteq DOMAIN sym /\ sym.repeat = 0 /\ sym.power = 0
    BY <2>1 DEF Sym0
  <2> QED
    BY <2>1, <2>2 DEF RunsInv, RunsBounded
<1>2. RunsInv => RunsBounded
  BY DEF RunsInv
<1> QED
  BY <1>1, <1>2, RunsStep, PTL DEF SafeSpec

-----------------------------------------------------------------------------
(* The operators                                                           *)

\* The number that the bits of an answer give is one, however many they are.
LEMMA NumberIsNat ==
  ASSUME NEW ans, Len(ans) \in Nat
  PROVE  Number(ans) \in Nat
<1> DEFINE n == Len(ans)
           bit(i) == BitOf(ans[i])
           Eq(v) == v = [i \in 0 .. n |-> IF i = 0 THEN 0 ELSE 2 * v[i - 1] + bit(i)]
           d == [p \in Nat \X Nat |-> IF p[1] + 1 <= n THEN 2 * p[2] + bit(p[1] + 1) ELSE 0]
<1>1. Number(ans) = (CHOOSE v : Eq(v))[n]
  BY DEF Number
<1>2. \A i : bit(i) \in {0, 1}
  BY DEF BitOf
<1> HIDE DEF bit
<1>3. \E v : Eq(v)
  <2>1. d \in [Nat \X Nat -> Nat]
    BY <1>2
  <2>2. PICK f \in [Nat -> Nat] : f[0] = 0 /\ \A m \in Nat : f[m + 1] = d[<<m, f[m]>>]
    <3> HIDE DEF d
    <3>1. \E f \in [Nat -> Nat] : Follows(f, 0, d)
      BY <2>1, Recursion
    <3> QED BY <3>1 DEF Follows
  <2> DEFINE v == [i \in 0 .. n |-> f[i]]
  <2>3. ASSUME NEW i \in 0 .. n, i # 0 PROVE v[i] = 2 * v[i - 1] + bit(i)
    <3>1. i - 1 \in Nat /\ i - 1 \in 0 .. n /\ i - 1 + 1 = i
      BY <2>3
    <3>2. f[i] = d[<<i - 1, f[i - 1]>>] /\ <<i - 1, f[i - 1]>> \in Nat \X Nat
      BY <2>2, <3>1
    <3>3. d[<<i - 1, f[i - 1]>>] = 2 * f[i - 1] + bit(i)
      BY <3>1, <3>2
    <3> QED BY <3>1, <3>2, <3>3
  <2>4. v[0] = 0
    BY <2>2
  <2>5. Eq(v)
    <3>1. v = [i \in 0 .. n |-> v[i]]
      OBVIOUS
    <3> HIDE DEF v
    <3> QED BY <2>3, <2>4, <3>1
  <2> QED BY <2>5
<1>4. PICK v : Eq(v) /\ Number(ans) = v[n]
  <2> HIDE DEF Eq
  <2>1. Eq(CHOOSE v : Eq(v))
    BY <1>3
  <2> QED BY <1>1, <2>1
<1> DEFINE T == {i \in Nat : i <= n => v[i] \in Nat}
<1>5. 0 \in T
  BY <1>4
<1>6. ASSUME NEW m \in Nat, m \in T PROVE m + 1 \in T
  <2>1. CASE m + 1 <= n
    <3>1. m \in 0 .. n /\ m + 1 \in 0 .. n /\ m + 1 # 0 /\ m + 1 - 1 = m /\ v[m] \in Nat
      BY <1>6, <2>1
    <3>2. v[m + 1] = 2 * v[m] + bit(m + 1)
      BY <1>4, <3>1
    <3>3. v[m + 1] \in Nat
      BY <1>2, <3>1, <3>2
    <3> QED BY <3>3
  <2>2. CASE ~(m + 1 <= n)
    BY <2>2
  <2> QED BY <2>1, <2>2
<1> HIDE DEF T
<1>7. n \in T
  BY <1>5, <1>6, Inductive
<1> QED
  BY <1>4, <1>7 DEF T

\* Moving the element at i to the front shifts those before it by one.
LEMMA Moved ==
  ASSUME NEW S, NEW order \in Seq(S), NEW i \in 1 .. Len(order)
  PROVE  /\ MoveToFront(order, i) \in Seq(S) /\ Len(MoveToFront(order, i)) = Len(order)
         /\ \A k \in 1 .. Len(order) :
              MoveToFront(order, i)[k] = IF k = 1 THEN order[i]
                                         ELSE IF k <= i THEN order[k - 1] ELSE order[k]
<1> DEFINE a == SubSeq(order, 1, i - 1)
           b == SubSeq(order, i + 1, Len(order))
           h == <<order[i]>>
<1>1. /\ a \in Seq(S) /\ Len(a) = i - 1 /\ \A k \in 1 .. i - 1 : a[k] = order[k]
  <2>1. \A k \in 1 .. i - 1 : order[k] \in S
    OBVIOUS
  <2>2. /\ a \in Seq(S) /\ Len(a) = IF 1 <= i - 1 THEN i - 1 - 1 + 1 ELSE 0
        /\ \A k \in 1 .. i - 1 - 1 + 1 : a[k] = order[1 + k - 1]
    BY <2>1, SubSeqProperties
  <2> HIDE DEF a
  <2> QED BY <2>2
<1>2. /\ b \in Seq(S) /\ Len(b) = Len(order) - i /\ \A k \in 1 .. Len(order) - i : b[k] = order[i + k]
  <2>1. \A k \in i + 1 .. Len(order) : order[k] \in S
    OBVIOUS
  <2>2. /\ b \in Seq(S) /\ Len(b) = IF i + 1 <= Len(order) THEN Len(order) - (i + 1) + 1 ELSE 0
        /\ \A k \in 1 .. Len(order) - (i + 1) + 1 : b[k] = order[i + 1 + k - 1]
    BY <2>1, SubSeqProperties
  <2> HIDE DEF b
  <2> QED BY <2>2
<1>3. h \in Seq(S) /\ Len(h) = 1 /\ h[1] = order[i]
  OBVIOUS
<1>4. MoveToFront(order, i) = (h \o a) \o b
  BY DEF MoveToFront
<1> HIDE DEF a, b, h
<1>5. /\ h \o a \in Seq(S) /\ Len(h \o a) = i
      /\ \A k \in 1 .. i : (h \o a)[k] = IF k = 1 THEN order[i] ELSE order[k - 1]
  <2>1. /\ h \o a \in Seq(S) /\ Len(h \o a) = Len(h) + Len(a)
        /\ \A k \in 1 .. Len(h) + Len(a) : (h \o a)[k] = IF k <= Len(h) THEN h[k] ELSE a[k - Len(h)]
    BY <1>1, <1>3, ConcatProperties
  <2> QED BY <1>1, <1>3, <2>1
<1> DEFINE c == h \o a
<1>7. MoveToFront(order, i) = c \o b
  BY <1>4
<1>8. /\ c \in Seq(S) /\ Len(c) = i
      /\ \A k \in 1 .. i : c[k] = IF k = 1 THEN order[i] ELSE order[k - 1]
  BY <1>5
<1> HIDE DEF c
<1>6. /\ c \o b \in Seq(S) /\ Len(c \o b) = Len(c) + Len(b)
      /\ \A k \in 1 .. Len(c) + Len(b) : (c \o b)[k] = IF k <= Len(c) THEN c[k] ELSE b[k - Len(c)]
  <2>1. c \in Seq(S) /\ b \in Seq(S)
    BY <1>2, <1>8
  <2> QED BY <2>1, ConcatProperties
<1>9. Len(c) + Len(b) = Len(order)
  BY <1>2, <1>8
<1>10. ASSUME NEW k \in 1 .. Len(order)
       PROVE  (c \o b)[k] = IF k = 1 THEN order[i] ELSE IF k <= i THEN order[k - 1] ELSE order[k]
  <2>1. CASE k <= i
    <3>1. (c \o b)[k] = c[k]
      BY <1>6, <1>8, <1>9, <2>1
    <3> QED BY <1>8, <2>1, <3>1
  <2>2. CASE ~(k <= i)
    <3>1. (c \o b)[k] = b[k - i] /\ k - i \in 1 .. Len(order) - i /\ i + (k - i) = k
      BY <1>6, <1>8, <1>9, <2>2
    <3> QED BY <1>2, <2>2, <3>1
  <2> QED BY <2>1, <2>2
<1> QED
  BY <1>6, <1>7, <1>9, <1>10

\* It keeps the set of the elements.
LEMMA MovedSame ==
  ASSUME NEW S, NEW order \in Seq(S), NEW i \in 1 .. Len(order)
  PROVE  ToSet(MoveToFront(order, i)) = ToSet(order)
<1> DEFINE m == MoveToFront(order, i)
           n == Len(order)
<1>1. /\ m \in Seq(S) /\ Len(m) = n
      /\ \A k \in 1 .. n : m[k] = IF k = 1 THEN order[i] ELSE IF k <= i THEN order[k - 1] ELSE order[k]
  BY Moved
<1> HIDE DEF m
<1>2. ToSet(m) = {m[k] : k \in 1 .. n} /\ ToSet(order) = {order[k] : k \in 1 .. n}
  BY <1>1 DEF ToSet
<1>3. \A k \in 1 .. n : \E j \in 1 .. n : m[k] = order[j]
  <2> SUFFICES ASSUME NEW k \in 1 .. n PROVE \E j \in 1 .. n : m[k] = order[j]
    OBVIOUS
  <2>1. CASE k = 1
    BY <1>1, <2>1
  <2>2. CASE k # 1 /\ k <= i
    <3>1. k - 1 \in 1 .. n /\ m[k] = order[k - 1]
      BY <1>1, <2>2
    <3> QED BY <3>1
  <2>3. CASE k # 1 /\ ~(k <= i)
    BY <1>1, <2>3
  <2> QED BY <2>1, <2>2, <2>3
<1>4. \A k \in 1 .. n : \E j \in 1 .. n : order[k] = m[j]
  <2> SUFFICES ASSUME NEW k \in 1 .. n PROVE \E j \in 1 .. n : order[k] = m[j]
    OBVIOUS
  <2>1. CASE k = i
    <3>1. 1 \in 1 .. n /\ m[1] = order[k]
      BY <1>1, <2>1
    <3> QED BY <3>1
  <2>2. CASE k < i
    <3>1. k + 1 \in 1 .. n /\ k + 1 # 1 /\ k + 1 <= i /\ k + 1 - 1 = k
      BY <2>2
    <3>2. m[k + 1] = order[k]
      BY <1>1, <3>1
    <3> QED BY <3>1, <3>2
  <2>3. CASE k > i
    BY <1>1, <2>3
  <2> QED BY <2>1, <2>2, <2>3
<1> QED
  BY <1>2, <1>3, <1>4 DEF m

\* Of some symbols that are used one is the last in the order of the codes.
LEMMA LatestIsOne ==
  ASSUME NEW m \in Nat, NEW lengths \in [0 .. m -> 1 .. 20],
         NEW S \in SUBSET Used(lengths), S # {}
  PROVE  Latest(lengths, S) \in S /\ S \ {Latest(lengths, S)} \subseteq Before(lengths, Latest(lengths, S))
<1> DEFINE R == {p \in S \X S : \/ lengths[p[1]] < lengths[p[2]]
                                \/ lengths[p[1]] = lengths[p[2]] /\ p[1] < p[2]}
<1>1. S \subseteq 0 .. m /\ \A s \in S : lengths[s] \in 1 .. 20
  BY DEF Used
<1>2. IsFiniteSet(S)
  <2>1. IsFiniteSet(0 .. m)
    BY FS_Interval
  <2> QED BY <1>1, <2>1, FS_Subset
<1>3. \A x \in S : \A y \in S :
        /\ <<x, y>> \in R <=> lengths[x] < lengths[y] \/ (lengths[x] = lengths[y] /\ x < y)
        /\ <<x, y>> \in R => x \in Before(lengths, y)
  BY DEF Before
<1> HIDE DEF R
<1>4. IsStrictOrder(R, S)
  <2>1. \A s \in S : s \in Int /\ lengths[s] \in Int
    <3>1. 0 .. m \subseteq Int /\ 1 .. 20 \subseteq Int
      OBVIOUS
    <3> QED BY <1>1, <3>1
  <2>2. \A x \in S : <<x, x>> \notin R
    BY <1>3, <2>1
  <2>3. \A x \in S : \A y \in S : x # y => <<x, y>> \in R \/ <<y, x>> \in R
    BY <1>3, <2>1
  <2>4. \A x \in S : \A y \in S : \A z \in S : <<x, y>> \in R /\ <<y, z>> \in R => <<x, z>> \in R
    BY <1>3, <2>1
  <2> QED BY <2>2, <2>3, <2>4 DEF IsStrictOrder
<1>5. PICK x \in S : \A y \in S \ {x} : <<y, x>> \in R
  BY <1>2, <1>4, Greatest
<1>6. S \ {x} \subseteq Before(lengths, x)
  BY <1>3, <1>5
<1> QED
  BY <1>6 DEF Latest

\* What the table or the tree gives is a symbol.
LEMMA EntriesAreSymbols ==
  ASSUME NEW m \in Nat, NEW lengths \in [0 .. m -> 1 .. 20]
  PROVE  /\ \A v : FastEntry(lengths, v) \subseteq 0 .. m
         /\ \A path : LeafAt(lengths, path) \subseteq 0 .. m
<1>1. Used(lengths) \subseteq 0 .. m
  BY DEF Used
<1>2. ASSUME NEW v PROVE FastEntry(lengths, v) \subseteq 0 .. m
  <2> DEFINE S == {s \in Used(lengths) :
                     /\ lengths[s] <= FastBits
                     /\ v \div Pow2[FastBits - lengths[s]] = Code(lengths, s)}
  <2>1. S \subseteq Used(lengths)
    OBVIOUS
  <2>2. FastEntry(lengths, v) = IF S = {} THEN {} ELSE {Latest(lengths, S)}
    BY DEF FastEntry
  <2> HIDE DEF S
  <2> QED BY <1>1, <2>1, <2>2, LatestIsOne
<1>3. ASSUME NEW path PROVE LeafAt(lengths, path) \subseteq 0 .. m
  <2> DEFINE S == {s \in Used(lengths) : Path(lengths, s) = path}
  <2>1. S \subseteq Used(lengths)
    OBVIOUS
  <2>2. LeafAt(lengths, path)
          = IF path \in Inner(lengths) \/ S = {} THEN {} ELSE {Latest(lengths, S)}
    BY DEF LeafAt
  <2> HIDE DEF S
  <2> QED BY <1>1, <2>1, <2>2, LatestIsOne
<1> QED
  BY <1>2, <1>3

\* A code that is in the table is no longer than FastBits.
LEMMA EntriesAreShort ==
  ASSUME NEW m \in Nat, NEW lengths \in [0 .. m -> 1 .. 20], NEW v, NEW s \in FastEntry(lengths, v)
  PROVE  lengths[s] \in 1 .. FastBits
<1> DEFINE S == {t \in Used(lengths) :
                   /\ lengths[t] <= FastBits
                   /\ v \div Pow2[FastBits - lengths[t]] = Code(lengths, t)}
<1>1. S \subseteq Used(lengths) /\ \A t \in S : lengths[t] <= FastBits
  OBVIOUS
<1>2. FastEntry(lengths, v) = IF S = {} THEN {} ELSE {Latest(lengths, S)}
  BY DEF FastEntry
<1> HIDE DEF S
<1>3. s \in S
  BY <1>1, <1>2, LatestIsOne
<1>4. lengths[s] \in 1 .. 20 /\ lengths[s] <= FastBits
  BY <1>1, <1>3 DEF Used
<1>5. FastBits \in Nat
  BY HuffmanAssumption
<1> DEFINE n == lengths[s]
<1>6. n \in 1 .. 20 /\ n <= FastBits
  BY <1>4
<1> HIDE DEF n
<1>7. n \in 1 .. FastBits
  BY <1>5, <1>6
<1> QED
  BY <1>7 DEF n

\* A node of the tree from which the walk goes on is less than 20 bits deep.
LEMMA InnerIsShort ==
  ASSUME NEW m \in Nat, NEW lengths \in [0 .. m -> 1 .. 20], NEW path \in Inner(lengths)
  PROVE  Len(path) < 20
<1>1. PICK s \in Used(lengths) : path \in {SubSeq(Path(lengths, s), 1, k - 1) : k \in 1 .. lengths[s]}
  BY DEF Inner
<1>2. PICK k \in 1 .. lengths[s] : path = SubSeq(Path(lengths, s), 1, k - 1)
  BY <1>1
<1>3. lengths[s] \in 1 .. 20
  BY DEF Used
<1> DEFINE V == {Path(lengths, s)[i] : i \in 1 .. k - 1}
<1>4. \A i \in 1 .. k - 1 : Path(lengths, s)[i] \in V
  OBVIOUS
<1> HIDE DEF V
<1>5. 1 \in Int /\ k - 1 \in Int /\ k - 1 < 20 /\ (1 <= k - 1 => k - 1 - 1 + 1 = k - 1)
  BY <1>3
<1>6. Len(path) = IF 1 <= k - 1 THEN k - 1 - 1 + 1 ELSE 0
  BY <1>2, <1>4, <1>5, SubSeqProperties
<1> QED
  BY <1>5, <1>6

-----------------------------------------------------------------------------
(* Codes: each takes its share of the words of 20 bits, in the order of    *)
(* the symbols; none begins with another, and table and tree find the same *)

\* Pow2 is what its definition says.
LEMMA PowersOfTwo == IsPow(Pow2)
<1> DEFINE d == [q \in Nat \X Nat |-> 2 * q[2]]
           Eq(p) == p = [n \in Nat |-> IF n = 0 THEN 1 ELSE 2 * p[n - 1]]
<1>1. Pow2 = CHOOSE p : Eq(p)
  BY DEF Pow2
<1>2. \E p : Eq(p)
  <2>1. d \in [Nat \X Nat -> Nat]
    OBVIOUS
  <2>2. PICK p \in [Nat -> Nat] : Follows(p, 1, d)
    <3> HIDE DEF d
    <3> QED BY <2>1, Recursion
  <2>3. p[0] = 1 /\ \A n \in Nat : p[n + 1] = 2 * p[n]
    BY <2>2 DEF Follows
  <2>4. \A n \in Nat : n # 0 => p[n] = 2 * p[n - 1]
    <3> SUFFICES ASSUME NEW n \in Nat, n # 0 PROVE p[n] = 2 * p[n - 1]
      OBVIOUS
    <3>1. n - 1 \in Nat /\ (n - 1) + 1 = n
      OBVIOUS
    <3> QED BY <2>3, <3>1
  <2>5. \A n \in Nat : p[n] = IF n = 0 THEN 1 ELSE 2 * p[n - 1]
    BY <2>3, <2>4
  <2> QED BY <2>5
<1>3. Eq(Pow2)
  <2> HIDE DEF Eq
  <2> QED BY <1>1, <1>2
<1> QED
  BY <1>3 DEF IsPow

LEMMA SumOfFunction == ASSUME NEW f PROVE SumFunction(f) = SumOver(f, DOMAIN f)
  BY DEF SumFunction, SumFunctionOnSet, FoldFunctionOnSet, SumOver, MapThenSumSet

\* What a symbol takes of the 2^20 words of 20 bits.
Share(lengths) == [s \in Used(lengths) |-> Pow2[20 - lengths[s]]]

LEMMA Differences ==
  ASSUME NEW a \in 1 .. 20, NEW b \in 1 .. 20
  PROVE  /\ 20 - a \in Nat /\ a \in Nat
         /\ b <= a => a - b \in Nat /\ (a - b) + (20 - a) = 20 - b
         /\ a + (20 - a) = 20
         /\ b < a \/ b = a => b <= a
  OBVIOUS

LEMMA TableTypes ==
  ASSUME NEW m \in Nat, NEW lengths \in [0 .. m -> 1 .. 20]
  PROVE  /\ Used(lengths) = 0 .. m /\ IsFiniteSet(Used(lengths))
         /\ \A s \in Used(lengths) : /\ lengths[s] \in 1 .. 20
                                     /\ Share(lengths)[s] = Pow2[20 - lengths[s]]
                                     /\ Share(lengths)[s] \in Nat
         /\ DOMAIN Share(lengths) = Used(lengths)
<1>1. Used(lengths) = 0 .. m
  BY DEF Used
<1>2. IsFiniteSet(0 .. m)
  BY FS_Interval
<1>3. \A s \in 0 .. m : lengths[s] \in 1 .. 20 /\ 20 - lengths[s] \in Nat
  BY Differences
<1> QED
  BY <1>1, <1>2, <1>3, PowersOfTwo, PowNat DEF Share

\* The code of a symbol, scaled to 20 bits, is what the symbols before it
\* take.
LEMMA CodeIsSum ==
  ASSUME NEW m \in Nat, NEW lengths \in [0 .. m -> 1 .. 20], NEW s \in Used(lengths)
  PROVE  /\ Code(lengths, s) \in Nat
         /\ Code(lengths, s) * Pow2[20 - lengths[s]]
              = SumOver(Share(lengths), Before(lengths, s))
<1> DEFINE B == Before(lengths, s)
           f == [t \in B |-> Pow2[lengths[s] - lengths[t]]]
           k == Pow2[20 - lengths[s]]
<1>1. B \subseteq Used(lengths) /\ IsFiniteSet(B) /\ lengths[s] \in 1 .. 20
  BY TableTypes, FS_Subset DEF Before
<1>2. ASSUME NEW t \in B PROVE lengths[t] \in 1 .. 20 /\ lengths[t] <= lengths[s]
  <2>1. lengths[t] \in 1 .. 20
    BY <1>1, TableTypes
  <2>2. lengths[t] < lengths[s] \/ lengths[t] = lengths[s]
    BY DEF Before
  <2> QED BY <1>1, <2>1, <2>2, Differences
<1>3. ASSUME NEW t \in B
      PROVE  f[t] \in Nat /\ Share(lengths)[t] \in Nat /\ Share(lengths)[t] = f[t] * k
  <2>1. lengths[s] - lengths[t] \in Nat /\ 20 - lengths[s] \in Nat
        /\ (lengths[s] - lengths[t]) + (20 - lengths[s]) = 20 - lengths[t]
    BY <1>1, <1>2, Differences
  <2>2. Pow2[(lengths[s] - lengths[t]) + (20 - lengths[s])] = f[t] * k
    BY <2>1, PowersOfTwo, PowAdds
  <2>3. f[t] \in Nat
    BY <2>1, PowersOfTwo, PowNat
  <2> QED
    BY <1>1, <2>1, <2>2, <2>3, TableTypes
<1>4. Code(lengths, s) = SumOver(f, B)
  <2>1. Code(lengths, s) = SumFunction(f) /\ DOMAIN f = B
    BY DEF Code
  <2> HIDE DEF f, B
  <2> QED BY <2>1, SumOfFunction
<1>5. k \in Nat
  BY <1>1, TableTypes
<1> HIDE DEF f, B, k
<1>6. SumOver(f, B) \in Nat
  BY <1>1, <1>3, SumRemoves
<1>7. SumOver(Share(lengths), B) = SumOver(f, B) * k
  BY <1>1, <1>3, <1>5, SumScales
<1> QED
  BY <1>4, <1>6, <1>7 DEF B, k

\* So the next code of this length is no larger than what follows allows.
LEMMA CodesFit ==
  ASSUME NEW m \in Nat, NEW lengths \in [0 .. m -> 1 .. 20], NEW s \in Used(lengths),
         NEW A \in SUBSET Used(lengths), Before(lengths, s) \cup {s} \subseteq A
  PROVE  (Code(lengths, s) + 1) * Pow2[20 - lengths[s]] <= SumOver(Share(lengths), A)
<1> DEFINE B == Before(lengths, s)
           f == Share(lengths)
           k == Pow2[20 - lengths[s]]
           c == Code(lengths, s)
<1>1. IsFiniteSet(A) /\ s \notin B
  <2>1. IsFiniteSet(A) /\ lengths[s] \in 1 .. 20 /\ s \in 0 .. m
    BY TableTypes, FS_Subset
  <2>2. s \in B => lengths[s] < lengths[s] \/ s < s
    BY DEF Before
  <2> QED BY <2>1, <2>2
<1>2. \A t \in A : f[t] \in Nat
  BY TableTypes
<1>3. f[s] = k /\ k \in Nat
  BY TableTypes
<1>4. c \in Nat /\ c * k = SumOver(f, B)
  BY CodeIsSum
<1> DEFINE C == B \cup {s}
<1>5. C \in SUBSET A /\ IsFiniteSet(C) /\ s \in C /\ C \ {s} = B
  BY <1>1, FS_Subset
<1> HIDE DEF B, f, k, c, C
<1>6. SumOver(f, C) <= SumOver(f, A)
  BY <1>1, <1>2, <1>5, SumGrows
<1>7. SumOver(f, C) = f[s] + SumOver(f, B) /\ SumOver(f, C) \in Nat
  BY <1>2, <1>5, SumRemoves
<1>8. (c + 1) * k = c * k + k
  BY <1>3, <1>4
<1>9. c * k \in Nat /\ SumOver(f, A) \in Nat
  BY <1>1, <1>2, <1>3, <1>4, SumRemoves
<1>10. (c + 1) * k <= SumOver(f, A)
  BY <1>3, <1>4, <1>6, <1>7, <1>8, <1>9
<1> QED
  BY <1>10 DEF c, k, f

\* The code of a symbol has no more bits than its length says.
LEMMA CodesAreShort ==
  ASSUME NEW m \in Nat, NEW lengths \in [0 .. m -> 1 .. 20], Kraft(lengths),
         NEW s \in Used(lengths)
  PROVE  Code(lengths, s) \in Nat /\ Code(lengths, s) < Pow2[lengths[s]]
<1> DEFINE c == Code(lengths, s)
           k == Pow2[20 - lengths[s]]
           x == Pow2[lengths[s]]
<1>1. lengths[s] \in 1 .. 20
  BY TableTypes
<1>2. SumFunction(Share(lengths)) <= Pow2[20]
  BY DEF Kraft, Fills, Share
<1>3. SumOver(Share(lengths), Used(lengths)) <= Pow2[20]
  BY <1>2, SumOfFunction, TableTypes
<1>4. Before(lengths, s) \cup {s} \subseteq Used(lengths)
  BY DEF Before
<1>5. (c + 1) * k <= SumOver(Share(lengths), Used(lengths))
  BY <1>4, CodesFit
<1>6. c \in Nat
  BY CodeIsSum
<1>7. SumOver(Share(lengths), Used(lengths)) \in Nat
  BY TableTypes, SumRemoves
<1>8. x \in Nat /\ k \in Nat \ {0} /\ Pow2[20] = x * k
  <2>1. lengths[s] \in Nat /\ 20 - lengths[s] \in Nat /\ lengths[s] + (20 - lengths[s]) = 20
    BY <1>1, Differences
  <2>2. Pow2[lengths[s] + (20 - lengths[s])] = x * k
    BY <2>1, PowersOfTwo, PowAdds
  <2> QED BY <2>1, <2>2, PowersOfTwo, PowNat
<1> DEFINE total == SumOver(Share(lengths), Used(lengths))
<1> HIDE DEF c, k, x, total
<1>9. (c + 1) * k \in Nat /\ x * k \in Nat
  BY <1>6, <1>8
<1>10. (c + 1) * k <= x * k
  <2>1. total <= Pow2[20] /\ total \in Nat /\ (c + 1) * k <= total
    BY <1>3, <1>5, <1>7 DEF total
  <2> QED BY <1>8, <1>9, <2>1
<1>11. c + 1 <= x
  <2>1. ASSUME x <= c PROVE FALSE
    <3>1. k * x <= k * c
      BY <1>6, <1>8, <2>1, MulMono
    <3>2. (c + 1) * k = k * c + k /\ x * k = k * x /\ k * c \in Nat
      BY <1>6, <1>8
    <3> QED BY <1>8, <1>10, <3>1, <3>2
  <2> QED BY <1>6, <1>8, <2>1
<1> QED
  BY <1>6, <1>8, <1>11 DEF c, x

\* What the short codes take of the words, as a sum of shares.
LEMMA ShortFills ==
  ASSUME NEW m \in Nat, NEW lengths \in [0 .. m -> 1 .. 20]
  PROVE  /\ Short(lengths) \subseteq Used(lengths) /\ IsFiniteSet(Short(lengths))
         /\ Fills(lengths, Short(lengths)) = SumOver(Share(lengths), Short(lengths))
         /\ Fills(lengths, Short(lengths)) \in Nat
<1> DEFINE S == Short(lengths)
           f == Share(lengths)
           h == [s \in S |-> Pow2[20 - lengths[s]]]
<1>1. S \subseteq Used(lengths) /\ IsFiniteSet(S)
  BY TableTypes, FS_Subset DEF Short
<1>2. \A s \in S : f[s] \in Nat /\ h[s] \in Nat /\ h[s] = f[s] * 1
  <2>1. \A s \in S : f[s] \in Nat /\ f[s] = Pow2[20 - lengths[s]]
    BY <1>1, TableTypes
  <2>2. \A s \in S : h[s] = f[s]
    BY <2>1
  <2> HIDE DEF f, h, S
  <2> QED BY <2>1, <2>2
<1>3. Fills(lengths, S) = SumOver(h, S)
  <2>1. Fills(lengths, S) = SumFunction(h) /\ DOMAIN h = S
    BY DEF Fills
  <2> HIDE DEF h, S
  <2> QED BY <2>1, SumOfFunction
<1> HIDE DEF S, f, h
<1>4. SumOver(h, S) = SumOver(f, S) * 1 /\ SumOver(f, S) \in Nat
  BY <1>1, <1>2, SumScales, SumRemoves
<1>5. Fills(lengths, S) = SumOver(f, S) /\ Fills(lengths, S) \in Nat
  BY <1>3, <1>4
<1> QED
  BY <1>1, <1>5 DEF S, f

\* A power of two as a product, by which codes are scaled to 20 bits.
LEMMA Scaled ==
  ASSUME NEW p \in 1 .. 20
  PROVE  /\ Pow2[p] \in Nat /\ Pow2[20 - p] \in Nat \ {0} /\ Pow2[20] = Pow2[p] * Pow2[20 - p]
<1>1. p \in Nat /\ 20 - p \in Nat /\ p + (20 - p) = 20
  BY Differences
<1>2. Pow2[p + (20 - p)] = Pow2[p] * Pow2[20 - p]
  BY <1>1, PowersOfTwo, PowAdds
<1> QED
  BY <1>1, <1>2, PowersOfTwo, PowNat

\* The table is filled beyond its end by too many short codes, and by nothing
\* else: the last of them has all others before it.
LEMMA CodesInTable ==
  ASSUME NEW m \in Nat, NEW lengths \in [0 .. m -> 1 .. 20]
  PROVE  PastTable(lengths) <=> Fills(lengths, Short(lengths)) > Pow2[20]
<1> DEFINE S == Short(lengths)
           total == SumOver(Share(lengths), S)
           c(s) == Code(lengths, s)
           x(s) == Pow2[lengths[s]]
           k(s) == Pow2[20 - lengths[s]]
<1>1. S \subseteq Used(lengths) /\ IsFiniteSet(S) /\ Fills(lengths, S) = total /\ total \in Nat
  BY ShortFills
<1>2. \A s \in S : /\ c(s) \in Nat /\ x(s) \in Nat /\ k(s) \in Nat \ {0}
                   /\ Pow2[20] = x(s) * k(s)
  <2> SUFFICES ASSUME NEW s \in S
               PROVE  /\ c(s) \in Nat /\ x(s) \in Nat /\ k(s) \in Nat \ {0}
                      /\ Pow2[20] = x(s) * k(s)
    OBVIOUS
  <2>1. s \in Used(lengths) /\ lengths[s] \in 1 .. 20
    BY <1>1, TableTypes
  <2> QED BY <2>1, Scaled, CodeIsSum
<1>3. PastTable(lengths) <=> \E s \in S : c(s) >= x(s)
  BY DEF PastTable, Short
<1>4. ASSUME NEW s \in S, c(s) >= x(s) PROVE total > Pow2[20]
  <2>1. Before(lengths, s) \cup {s} \subseteq S
    <3> SUFFICES ASSUME NEW t \in Before(lengths, s) PROVE t \in S
      OBVIOUS
    <3>1. t \in Used(lengths) /\ (lengths[t] < lengths[s] \/ lengths[t] = lengths[s])
      BY DEF Before
    <3>2. FastBits \in Nat /\ lengths[s] <= FastBits
      BY HuffmanAssumption DEF Short
    <3>3. lengths[t] \in Nat /\ lengths[s] \in Nat
      <4>1. s \in Used(lengths)
        BY <1>1
      <4>2. lengths[t] \in 1 .. 20 /\ lengths[s] \in 1 .. 20
        BY <3>1, <4>1, TableTypes
      <4> QED BY <4>2, Differences
    <3>4. lengths[t] <= FastBits
      BY <3>1, <3>2, <3>3
    <3> QED BY <3>1, <3>4 DEF Short
  <2>2. (c(s) + 1) * k(s) <= total
    BY <1>1, <2>1, CodesFit
  <2>3. c(s) \in Nat /\ x(s) \in Nat /\ k(s) \in Nat \ {0} /\ Pow2[20] = x(s) * k(s)
    BY <1>2
  <2> DEFINE cs == c(s)
             xs == x(s)
             ks == k(s)
  <2> HIDE DEF cs, xs, ks, total
  <2>4. cs \in Nat /\ xs \in Nat /\ ks \in Nat \ {0} /\ Pow2[20] = xs * ks
        /\ cs >= xs /\ (cs + 1) * ks <= total
    BY <1>4, <2>2, <2>3 DEF cs, xs, ks
  <2>5. ks * xs <= ks * cs
    BY <2>4, MulMono
  <2>6. (cs + 1) * ks = ks * cs + ks /\ xs * ks = ks * xs
    BY <2>4
  <2>7. ks * cs \in Nat /\ ks * xs \in Nat
    BY <2>4
  <2> QED BY <1>1, <2>4, <2>5, <2>6, <2>7
<1>5. ASSUME \A s \in S : ~(c(s) >= x(s)) PROVE ~(total > Pow2[20])
  <2>1. CASE S = {}
    <3>1. total = 0
      BY <1>1, <2>1, TableTypes, SumRemoves, FS_EmptySet
    <3>2. Pow2[20] \in Nat
      BY PowersOfTwo, PowNat
    <3> HIDE DEF total
    <3> QED BY <3>1, <3>2
  <2>2. CASE S # {}
    <3> DEFINE s == Latest(lengths, S)
               B == Before(lengths, s)
    <3>1. s \in S /\ S \ {s} \subseteq B
      BY <1>1, <2>2, LatestIsOne
    <3> HIDE DEF s
    <3>2. S \ {s} = B
      <4> SUFFICES ASSUME NEW t \in B PROVE t \in S \ {s}
        BY <3>1
      <4>1. t \in Used(lengths) /\ (lengths[t] < lengths[s] \/ (lengths[t] = lengths[s] /\ t < s))
        BY DEF Before
      <4>2. FastBits \in Nat /\ lengths[s] <= FastBits
        BY <3>1, HuffmanAssumption DEF Short
      <4>3. lengths[t] \in Nat /\ lengths[s] \in Nat /\ s \in Nat
        <5>1. s \in Used(lengths)
          BY <1>1, <3>1
        <5>2. lengths[t] \in 1 .. 20 /\ lengths[s] \in 1 .. 20 /\ s \in 0 .. m
          BY <4>1, <5>1, TableTypes
        <5>3. lengths[t] \in Nat /\ lengths[s] \in Nat
          BY <5>2, Differences
        <5>4. s \in Nat
          BY <5>2
        <5> QED BY <5>3, <5>4
      <4>4. lengths[t] <= FastBits /\ t # s
        BY <4>1, <4>2, <4>3
      <4> QED BY <4>1, <4>4 DEF Short
    <3> DEFINE f == Share(lengths)
    <3>3. f[s] = k(s) /\ \A t \in S : f[t] \in Nat
      BY <1>1, <3>1, TableTypes
    <3>4. c(s) * k(s) = SumOver(f, B)
      BY <1>1, <3>1, CodeIsSum
    <3>5. total = f[s] + SumOver(f, S \ {s})
      BY <1>1, <3>1, <3>3, SumRemoves
    <3>6. total = k(s) + c(s) * k(s)
      BY <3>2, <3>3, <3>4, <3>5
    <3> DEFINE cs == c(s)
               xs == x(s)
               ks == k(s)
    <3>7. /\ cs \in Nat /\ xs \in Nat /\ ks \in Nat \ {0} /\ Pow2[20] = xs * ks
          /\ ~(cs >= xs) /\ total = ks + cs * ks
      BY <1>2, <1>5, <3>1, <3>6
    <3> HIDE DEF cs, xs, ks, total
    <3>8. cs + 1 <= xs /\ cs + 1 \in Nat
      BY <3>7
    <3>9. ks * (cs + 1) <= ks * xs
      BY <3>7, <3>8, MulMono
    <3>10. ks * (cs + 1) = ks + cs * ks /\ ks * xs = xs * ks
      BY <3>7
    <3>11. cs * ks \in Nat /\ xs * ks \in Nat
      BY <3>7
    <3> QED BY <3>7, <3>9, <3>10, <3>11
  <2> QED BY <2>1, <2>2
<1> QED
  BY <1>1, <1>3, <1>4, <1>5

\* No code begins with another.
LEMMA NoPrefix ==
  ASSUME NEW m \in Nat, NEW lengths \in [0 .. m -> 1 .. 20],
         NEW s \in Used(lengths), NEW t \in Used(lengths), s # t, lengths[t] <= lengths[s]
  PROVE  Code(lengths, s) \div Pow2[lengths[s] - lengths[t]] # Code(lengths, t)
<1>1. ASSUME NEW a \in Used(lengths), NEW b \in Before(lengths, a)
      PROVE  Code(lengths, a) \div Pow2[lengths[a] - lengths[b]] > Code(lengths, b)
  <2> DEFINE c == Code(lengths, b)
             e == Code(lengths, a)
             x == Pow2[lengths[a] - lengths[b]]
             k == Pow2[20 - lengths[a]]
  <2>1. b \in Used(lengths) /\ a \in 0 .. m /\ b \in 0 .. m
    BY TableTypes DEF Before
  <2>2. lengths[a] \in 1 .. 20 /\ lengths[b] \in 1 .. 20
    BY <2>1, TableTypes
  <2>3. lengths[b] < lengths[a] \/ (lengths[b] = lengths[a] /\ b < a)
    BY DEF Before
  <2>4. lengths[b] <= lengths[a]
    BY <2>2, <2>3, Differences
  <2>5. x \in Nat \ {0} /\ k \in Nat \ {0} /\ Pow2[20 - lengths[b]] = x * k
    <3>1. /\ lengths[a] - lengths[b] \in Nat /\ 20 - lengths[a] \in Nat
          /\ (lengths[a] - lengths[b]) + (20 - lengths[a]) = 20 - lengths[b]
      BY <2>2, <2>4, Differences
    <3>2. Pow2[(lengths[a] - lengths[b]) + (20 - lengths[a])] = x * k
      BY <3>1, PowersOfTwo, PowAdds
    <3> QED BY <3>1, <3>2, PowersOfTwo, PowNat
  <2>6. Before(lengths, b) \cup {b} \subseteq Before(lengths, a)
    <3>0. b \in Before(lengths, a)
      OBVIOUS
    <3> SUFFICES ASSUME NEW z \in Before(lengths, b) PROVE z \in Before(lengths, a)
      BY <3>0
    <3>1. z \in Used(lengths) /\ z \in 0 .. m
      BY TableTypes DEF Before
    <3>2. lengths[z] \in 1 .. 20
      BY <3>1, TableTypes
    <3>3. lengths[z] < lengths[b] \/ (lengths[z] = lengths[b] /\ z < b)
      BY DEF Before
    <3>4. lengths[z] < lengths[a] \/ (lengths[z] = lengths[a] /\ z < a)
      <4>1. a \in Int /\ b \in Int /\ z \in Int
        BY <2>1, <3>1
      <4> DEFINE p == lengths[a]
                 q == lengths[b]
                 n == lengths[z]
      <4>2. /\ p \in 1 .. 20 /\ q \in 1 .. 20 /\ n \in 1 .. 20
            /\ n < q \/ (n = q /\ z < b)
            /\ q < p \/ (q = p /\ b < a)
        BY <2>2, <2>3, <3>2, <3>3
      <4> HIDE DEF p, q, n
      <4>3. n < p \/ (n = p /\ z < a)
        BY ONLY <4>1, <4>2
      <4> QED BY <4>3 DEF p, n
    <3> QED BY <3>1, <3>4 DEF Before
  <2>7. Before(lengths, a) \in SUBSET Used(lengths)
    BY DEF Before
  <2>8. (c + 1) * (x * k) <= e * k
    <3>1. (c + 1) * Pow2[20 - lengths[b]] <= SumOver(Share(lengths), Before(lengths, a))
      BY <2>1, <2>6, <2>7, CodesFit
    <3>2. e * k = SumOver(Share(lengths), Before(lengths, a))
      BY CodeIsSum
    <3> QED BY <2>5, <3>1, <3>2
  <2>9. c \in Nat /\ e \in Nat
    BY <2>1, CodeIsSum
  <2> HIDE DEF c, e, x, k
  <2>10. (c + 1) * x <= e
    <3> DEFINE y == (c + 1) * x
    <3>1. y \in Nat /\ (c + 1) * (x * k) = k * y /\ e * k = k * e
      BY <2>5, <2>9, SMT
    <3> HIDE DEF y
    <3>2. ASSUME e < y PROVE FALSE
      <4>1. k * (e + 1) <= k * y
        BY <2>5, <2>9, <3>1, <3>2, MulMono
      <4>2. k * (e + 1) = k * e + k /\ k * e \in Nat /\ k * y \in Nat
        BY <2>5, <2>9, <3>1
      <4> QED BY <2>5, <2>8, <3>1, <4>1, <4>2
    <3>3. y <= e
      BY <2>9, <3>1, <3>2
    <3> QED BY <3>3 DEF y
  <2>11. (c + 1) * x \in Nat /\ ((c + 1) * x) \div x = c + 1
    <3>1. (x * (c + 1) + 0) \div x = c + 1
      <4>1. 0 \in 0 .. x - 1 /\ c + 1 \in Nat
        BY <2>5, <2>9
      <4> QED BY <2>5, <4>1, DivUnique
    <3>2. (c + 1) * x \in Nat /\ x * (c + 1) + 0 = (c + 1) * x
      BY <2>5, <2>9
    <3> QED BY <3>1, <3>2
  <2>12. c + 1 <= e \div x
    BY <2>5, <2>9, <2>10, <2>11, DivMono
  <2>13. e \div x > c
    <3>1. e \div x \in Nat
      BY <2>5, <2>9, Division
    <3> QED BY <2>9, <2>12, <3>1
  <2> QED BY <2>13 DEF c, e, x
<1>2. lengths[s] \in 1 .. 20 /\ lengths[t] \in 1 .. 20 /\ s \in 0 .. m /\ t \in 0 .. m
  BY TableTypes
<1>3. Code(lengths, s) \in Nat /\ Code(lengths, t) \in Nat
  BY CodeIsSum
<1>4. CASE t \in Before(lengths, s)
  <2> DEFINE q == Code(lengths, s) \div Pow2[lengths[s] - lengths[t]]
             c == Code(lengths, t)
  <2>1. q > c /\ c \in Nat
    BY <1>1, <1>3, <1>4
  <2> HIDE DEF q, c
  <2>2. q # c
    BY <2>1
  <2> QED BY <2>2 DEF q, c
<1>5. CASE t \notin Before(lengths, s)
  <2>1. /\ lengths[t] = lengths[s] /\ s < t
        /\ lengths[s] - lengths[t] = 0 /\ lengths[t] - lengths[s] = 0
    <3>1. ~(lengths[t] < lengths[s] \/ (lengths[t] = lengths[s] /\ t < s))
      BY <1>5 DEF Before
    <3>2. s \in Int /\ t \in Int
      BY <1>2
    <3> DEFINE p == lengths[s]
               q == lengths[t]
    <3>3. /\ p \in 1 .. 20 /\ q \in 1 .. 20 /\ q <= p /\ s # t
          /\ ~(q < p \/ (q = p /\ t < s))
      BY <1>2, <3>1
    <3> HIDE DEF p, q
    <3>4. q = p /\ s < t /\ p - q = 0 /\ q - p = 0
      BY ONLY <3>2, <3>3
    <3> QED BY <3>4 DEF p, q
  <2>2. s \in Before(lengths, t)
    BY <2>1 DEF Before
  <2>3. lengths[s] - lengths[t] = 0 /\ lengths[t] - lengths[s] = 0 /\ Pow2[0] = 1
    BY <2>1, PowersOfTwo DEF IsPow
  <2> DEFINE e == Code(lengths, s)
             c == Code(lengths, t)
  <2>4. c \div 1 > e
    BY <1>1, <2>2, <2>3
  <2>5. e \in Nat /\ c \in Nat
    BY <1>3
  <2>6. Code(lengths, s) \div Pow2[lengths[s] - lengths[t]] = e \div 1
    BY <2>3
  <2> HIDE DEF e, c
  <2>7. e \div 1 # c
    BY <2>4, <2>5
  <2> QED BY <2>6, <2>7 DEF c
<1> QED
  BY <1>4, <1>5

\* The first k of the n bits of v.
FirstBits(v, n, k) == [i \in 1 .. k |-> (v \div Pow2[n - i]) % 2]

\* They are the bits of v shifted to the right.
LEMMA Shifted ==
  ASSUME NEW v \in Nat, NEW n \in Nat, NEW k \in 0 .. n, NEW i \in 1 .. k
  PROVE  v \div Pow2[n - i] = (v \div Pow2[n - k]) \div Pow2[k - i]
<1>1. n - k \in Nat /\ k - i \in Nat /\ (n - k) + (k - i) = n - i
  OBVIOUS
<1>2. Pow2[n - k] \in Nat \ {0} /\ Pow2[k - i] \in Nat \ {0}
  BY <1>1, PowersOfTwo, PowNat
<1>3. Pow2[(n - k) + (k - i)] = Pow2[n - k] * Pow2[k - i]
  BY <1>1, PowersOfTwo, PowAdds
<1> QED
  BY <1>1, <1>2, <1>3, DivTwice

\* The first bits of a number are the path to a symbol where their value is
\* its code.
LEMMA PathIs ==
  ASSUME NEW m \in Nat, NEW lengths \in [0 .. m -> 1 .. 20], Kraft(lengths),
         NEW n \in Nat, NEW v \in Nat, v < Pow2[n]
  PROVE  \A k \in 0 .. n, s \in Used(lengths) :
           FirstBits(v, n, k) = Path(lengths, s)
             <=> k = lengths[s] /\ v \div Pow2[n - k] = Code(lengths, s)
<1> SUFFICES ASSUME NEW k \in 0 .. n, NEW s \in Used(lengths)
             PROVE  FirstBits(v, n, k) = Path(lengths, s)
                      <=> k = lengths[s] /\ v \div Pow2[n - k] = Code(lengths, s)
  OBVIOUS
<1> DEFINE c == Code(lengths, s)
           x == v \div Pow2[n - k]
           L == lengths[s]
<1>1. L \in 1 .. 20 /\ L \in Nat
  BY TableTypes, Differences
<1>2. c \in Nat /\ c < Pow2[L]
  BY CodesAreShort
<1>3. Path(lengths, s) = [i \in 1 .. L |-> (c \div Pow2[L - i]) % 2]
  BY DEF Path
<1>4. Pow2[n] \in Nat \ {0} /\ Pow2[n - k] \in Nat \ {0} /\ n - k \in Nat /\ k \in Nat
      /\ Pow2[k] \in Nat \ {0} /\ Pow2[n] = Pow2[n - k] * Pow2[k]
  <2>1. n - k \in Nat /\ k \in Nat /\ (n - k) + k = n
    OBVIOUS
  <2>2. Pow2[(n - k) + k] = Pow2[n - k] * Pow2[k]
    BY <2>1, PowersOfTwo, PowAdds
  <2> QED BY <2>1, <2>2, PowersOfTwo, PowNat
<1>5. x \in Nat
  BY <1>4, Division
<1>6. \A i \in 1 .. k : v \div Pow2[n - i] = x \div Pow2[k - i]
  BY Shifted
<1>7. FirstBits(v, n, k) = [i \in 1 .. k |-> (x \div Pow2[k - i]) % 2]
  BY <1>6 DEF FirstBits
<1> HIDE DEF c, x, L
<1>8. ASSUME k = L, x = c PROVE FirstBits(v, n, k) = Path(lengths, s)
  BY <1>3, <1>7, <1>8
<1>9. ASSUME FirstBits(v, n, k) = Path(lengths, s) PROVE k = L /\ x = c
  <2>1. k = L
    <3>1. 1 .. k = 1 .. L
      BY <1>3, <1>7, <1>9
    <3> QED BY <1>1, <1>4, <3>1
  <2>2. \A i \in 1 .. k : (x \div Pow2[k - i]) % 2 = (c \div Pow2[k - i]) % 2
    <3> DEFINE F(y) == [i \in 1 .. k |-> (y \div Pow2[k - i]) % 2]
    <3>1. F(x) = F(c)
      BY <1>3, <1>7, <1>9, <2>1
    <3>2. \A i \in 1 .. k : F(x)[i] = (x \div Pow2[k - i]) % 2 /\ F(c)[i] = (c \div Pow2[k - i]) % 2
      OBVIOUS
    <3> HIDE DEF F
    <3> QED BY <3>1, <3>2
  <2>3. c \div Pow2[k] = 0
    <3> DEFINE z == Pow2[k]
    <3>1. c < z /\ z \in Nat \ {0}
      BY <1>2, <1>4, <2>1
    <3> HIDE DEF z
    <3>2. (z * 0 + c) \div z = 0
      <4>1. c \in 0 .. z - 1 /\ 0 \in Nat
        BY <1>2, <3>1
      <4> QED BY <3>1, <4>1, DivUnique
    <3>3. z * 0 + c = c
      BY <1>2, <3>1
    <3> QED BY <3>2, <3>3 DEF z
  <2>4. x \div Pow2[k] = 0
    <3> DEFINE z == Pow2[n]
    <3>1. v \div (Pow2[n - k] * Pow2[k]) = x \div Pow2[k]
      BY <1>4, DivTwice DEF x
    <3>2. v < z /\ z \in Nat \ {0}
      BY <1>4
    <3>3. v \div z = x \div Pow2[k]
      BY <1>4, <3>1
    <3> HIDE DEF z
    <3>4. (z * 0 + v) \div z = 0
      <4>1. v \in 0 .. z - 1 /\ 0 \in Nat
        BY <3>2
      <4> QED BY <3>2, <4>1, DivUnique
    <3>5. z * 0 + v = v
      BY <3>2
    <3> QED BY <3>3, <3>4, <3>5
  <2>5. x = c
    BY <1>2, <1>4, <1>5, <2>2, <2>3, <2>4, PowersOfTwo, BitsTell
  <2> QED BY <2>1, <2>5
<1> QED
  BY <1>8, <1>9 DEF c, x, L

\* Two symbols whose codes begin with the same bits are one.
LEMMA OneMatch ==
  ASSUME NEW m \in Nat, NEW lengths \in [0 .. m -> 1 .. 20], Kraft(lengths),
         NEW n \in Nat, NEW v \in Nat,
         NEW s \in Used(lengths), lengths[s] <= n, v \div Pow2[n - lengths[s]] = Code(lengths, s),
         NEW t \in Used(lengths), lengths[t] <= n, v \div Pow2[n - lengths[t]] = Code(lengths, t)
  PROVE  s = t
<1>1. ASSUME NEW a \in Used(lengths), lengths[a] <= n, v \div Pow2[n - lengths[a]] = Code(lengths, a),
             NEW b \in Used(lengths), lengths[b] <= n, v \div Pow2[n - lengths[b]] = Code(lengths, b),
             lengths[b] <= lengths[a]
      PROVE  a = b
  <2> DEFINE p == lengths[a]
             q == lengths[b]
  <2>1. p \in 1 .. 20 /\ q \in 1 .. 20 /\ p <= n /\ q <= p
    BY <1>1, TableTypes
  <2>2. (v \div Pow2[n - p]) \div Pow2[p - q] = v \div Pow2[n - q]
    <3> HIDE DEF p, q
    <3>1. n - p \in Nat /\ p - q \in Nat /\ (n - p) + (p - q) = n - q
      BY <2>1
    <3>2. Pow2[(n - p) + (p - q)] = Pow2[n - p] * Pow2[p - q]
      BY <3>1, PowersOfTwo, PowAdds
    <3>3. Pow2[n - p] \in Nat \ {0} /\ Pow2[p - q] \in Nat \ {0}
      BY <3>1, PowersOfTwo, PowNat
    <3>4. v \div (Pow2[n - p] * Pow2[p - q]) = (v \div Pow2[n - p]) \div Pow2[p - q]
      BY <3>3, DivTwice
    <3>5. Pow2[n - q] = Pow2[n - p] * Pow2[p - q]
      BY <3>1, <3>2
    <3> QED BY <3>4, <3>5, Zenon
  <2>3. Code(lengths, a) \div Pow2[lengths[a] - lengths[b]] = Code(lengths, b)
    BY <1>1, <2>2
  <2> QED BY <1>1, <2>3, NoPrefix
<1>2. lengths[s] \in 1 .. 20 /\ lengths[t] \in 1 .. 20
  BY TableTypes
<1>3. lengths[s] <= lengths[t] \/ lengths[t] <= lengths[s]
  <2> DEFINE p == lengths[s]
             q == lengths[t]
  <2>1. p \in 1 .. 20 /\ q \in 1 .. 20
    BY <1>2
  <2> HIDE DEF p, q
  <2>2. p <= q \/ q <= p
    BY <2>1
  <2> QED BY <2>2 DEF p, q
<1> QED
  BY <1>1, <1>3

\* The path to a symbol ends at a leaf of the tree, its own.
LEMMA PathLeads ==
  ASSUME NEW m \in Nat, NEW lengths \in [0 .. m -> 1 .. 20], Kraft(lengths),
         NEW s \in Used(lengths)
  PROVE  LeafAt(lengths, Path(lengths, s)) = {s}
<1>1. Path(lengths, s) \notin Inner(lengths)
  <2> SUFFICES ASSUME NEW u \in Used(lengths), NEW k \in 1 .. lengths[u],
                      Path(lengths, s) = SubSeq(Path(lengths, u), 1, k - 1)
               PROVE  FALSE
    BY DEF Inner
  <2> DEFINE L == lengths[u]
             c == Code(lengths, u)
  <2>1. L \in 1 .. 20 /\ L \in Nat
    BY TableTypes, Differences
  <2>2. c \in Nat /\ c < Pow2[L]
    BY CodesAreShort
  <2>3. k - 1 \in 0 .. L /\ k \in 1 .. L
    BY <2>1
  <2>4. SubSeq(Path(lengths, u), 1, k - 1) = [i \in 1 .. k - 1 |-> Path(lengths, u)[i]]
    <3>1. 1 \in Nat /\ k - 1 \in Nat /\ 1 <= (k - 1) + 1 /\ (k - 1) - 1 + 1 = k - 1
          /\ \A i \in 1 .. k - 1 : 1 + i - 1 = i
      BY <2>3
    <3>2. SubSeq(Path(lengths, u), 1, k - 1)
            = [i \in 1 .. (k - 1) - 1 + 1 |-> Path(lengths, u)[1 + i - 1]]
      BY <3>1, Stretch
    <3> QED BY <3>1, <3>2
  <2>5. \A i \in 1 .. k - 1 : Path(lengths, u)[i] = (c \div Pow2[L - i]) % 2
    <3>1. Path(lengths, u) = [i \in 1 .. L |-> (c \div Pow2[L - i]) % 2]
      BY DEF Path
    <3>2. \A i \in 1 .. k - 1 : i \in 1 .. L
      <4> HIDE DEF L
      <4> QED BY <2>1, <2>3
    <3> QED BY <3>1, <3>2
  <2>6. FirstBits(c, L, k - 1) = Path(lengths, s)
    BY <2>4, <2>5 DEF FirstBits
  <2>7. k - 1 = lengths[s] /\ c \div Pow2[L - (k - 1)] = Code(lengths, s)
    <3> DEFINE j == k - 1
    <3>1. j \in 0 .. L /\ FirstBits(c, L, j) = Path(lengths, s)
      BY <2>3, <2>6
    <3> HIDE DEF c, L, j
    <3>2. \A i \in 0 .. L, a \in Used(lengths) :
            FirstBits(c, L, i) = Path(lengths, a)
              <=> i = lengths[a] /\ c \div Pow2[L - i] = Code(lengths, a)
      BY <2>1, <2>2, PathIs
    <3>3. j = lengths[s] /\ c \div Pow2[L - j] = Code(lengths, s)
      BY <3>1, <3>2
    <3> QED BY <3>3 DEF j
  <2>8. u # s /\ lengths[s] <= lengths[u]
    BY <2>3, <2>7
  <2>9. Code(lengths, u) \div Pow2[lengths[u] - lengths[s]] = Code(lengths, s)
    BY <2>7
  <2> QED BY <2>8, <2>9, NoPrefix
<1>2. ASSUME NEW t \in Used(lengths), Path(lengths, t) = Path(lengths, s) PROVE t = s
  <2> DEFINE L == lengths[s]
             c == Code(lengths, s)
  <2>1. L \in 1 .. 20 /\ L \in Nat
    BY TableTypes, Differences
  <2>2. c \in Nat /\ c < Pow2[L]
    BY CodesAreShort
  <2>3. FirstBits(c, L, L) = Path(lengths, s)
    BY DEF FirstBits, Path
  <2>4. \A a \in Used(lengths) :
          FirstBits(c, L, L) = Path(lengths, a)
            => L = lengths[a] /\ c \div Pow2[L - L] = Code(lengths, a)
    <3> HIDE DEF c, L
    <3>1. L \in 0 .. L
      BY <2>1
    <3>2. \A k \in 0 .. L, a \in Used(lengths) :
            FirstBits(c, L, k) = Path(lengths, a)
              <=> k = lengths[a] /\ c \div Pow2[L - k] = Code(lengths, a)
      BY <2>1, <2>2, PathIs
    <3> QED BY <3>1, <3>2
  <2>5. /\ L = lengths[s] /\ c \div Pow2[L - L] = Code(lengths, s)
        /\ L = lengths[t] /\ c \div Pow2[L - L] = Code(lengths, t)
    <3> HIDE DEF c, L
    <3> QED BY <1>2, <2>3, <2>4
  <2>6. lengths[s] <= L /\ lengths[t] <= L
    BY <2>1, <2>5
  <2>7. c \div Pow2[L - lengths[s]] = Code(lengths, s) /\ c \div Pow2[L - lengths[t]] = Code(lengths, t)
    BY <2>5
  <2> HIDE DEF c, L
  <2> QED BY <2>1, <2>2, <2>6, <2>7, OneMatch
<1> DEFINE S == {t \in Used(lengths) : Path(lengths, t) = Path(lengths, s)}
<1>3. S = {s}
  BY <1>2
<1>4. LeafAt(lengths, Path(lengths, s)) = {Latest(lengths, S)}
  BY <1>1, <1>3 DEF LeafAt
<1>5. Latest(lengths, S) \in S
  <2> HIDE DEF S
  <2>1. S \in SUBSET Used(lengths) /\ S # {}
    BY <1>3
  <2> QED BY <2>1, LatestIsOne
<1> HIDE DEF S
<1> QED
  BY <1>3, <1>4, <1>5

\* Table and tree agree on every FastBits bits.
LEMMA TableIsTree ==
  ASSUME NEW m \in Nat, NEW lengths \in [0 .. m -> 1 .. 20], Kraft(lengths)
  PROVE  FastIsWalk(lengths)
<1>1. FastBits \in Nat /\ Pow2[FastBits] \in Nat
  BY HuffmanAssumption, PowersOfTwo, PowNat
<1> SUFFICES ASSUME NEW v \in 0 .. Pow2[FastBits] - 1
             PROVE  FastEntry(lengths, v) = Walk(lengths, v)
  BY DEF FastIsWalk
<1>2. v \in Nat /\ v < Pow2[FastBits]
  BY <1>1
<1> DEFINE S == {t \in Used(lengths) :
                   /\ lengths[t] <= FastBits
                   /\ v \div Pow2[FastBits - lengths[t]] = Code(lengths, t)}
<1>3. FastEntry(lengths, v) = IF S = {} THEN {} ELSE {Latest(lengths, S)}
  BY DEF FastEntry
<1>4. Walk(lengths, v) = UNION {LeafAt(lengths, FirstBits(v, FastBits, k)) : k \in 1 .. FastBits}
  BY DEF Walk, FirstBits
<1>5. ASSUME NEW s \in S
      PROVE  /\ lengths[s] \in 1 .. FastBits
             /\ FirstBits(v, FastBits, lengths[s]) = Path(lengths, s)
  <2>1. s \in Used(lengths) /\ lengths[s] <= FastBits /\ lengths[s] \in 1 .. 20
    BY TableTypes
  <2> DEFINE L == lengths[s]
  <2>2. L \in 1 .. FastBits /\ L \in 0 .. FastBits
    <3>1. L <= FastBits /\ L \in 1 .. 20
      BY <2>1
    <3> HIDE DEF L
    <3> QED BY <1>1, <3>1
  <2>3. v \div Pow2[FastBits - L] = Code(lengths, s)
    OBVIOUS
  <2>4. FirstBits(v, FastBits, L) = Path(lengths, s)
    <3> HIDE DEF S
    <3>1. FirstBits(v, FastBits, L) = Path(lengths, s)
            <=> L = lengths[s] /\ v \div Pow2[FastBits - L] = Code(lengths, s)
      <4> HIDE DEF L
      <4>1. \A k \in 0 .. FastBits, a \in Used(lengths) :
              FirstBits(v, FastBits, k) = Path(lengths, a)
                <=> k = lengths[a] /\ v \div Pow2[FastBits - k] = Code(lengths, a)
        BY <1>1, <1>2, PathIs
      <4> QED BY <2>1, <2>2, <4>1
    <3> QED BY <2>3, <3>1
  <2> QED BY <2>2, <2>4
<1>6. ASSUME NEW s \in S, NEW t \in S PROVE s = t
  <2>1. /\ s \in Used(lengths) /\ lengths[s] <= FastBits
        /\ v \div Pow2[FastBits - lengths[s]] = Code(lengths, s)
        /\ t \in Used(lengths) /\ lengths[t] <= FastBits
        /\ v \div Pow2[FastBits - lengths[t]] = Code(lengths, t)
    OBVIOUS
  <2> HIDE DEF S
  <2> QED BY <1>1, <1>2, <2>1, OneMatch
<1>7. ASSUME NEW s \in S PROVE s \in Walk(lengths, v)
  <2>1. LeafAt(lengths, FirstBits(v, FastBits, lengths[s])) = {s}
    <3>1. s \in Used(lengths)
      OBVIOUS
    <3> HIDE DEF S
    <3> QED BY <1>5, <3>1, PathLeads
  <2> HIDE DEF S
  <2> QED BY <1>4, <1>5, <2>1
<1>8. ASSUME NEW s \in Walk(lengths, v) PROVE s \in S
  <2>1. PICK k \in 1 .. FastBits : s \in LeafAt(lengths, FirstBits(v, FastBits, k))
    BY <1>4, <1>8
  <2> DEFINE path == FirstBits(v, FastBits, k)
             A == {t \in Used(lengths) : Path(lengths, t) = path}
  <2>2. A # {} /\ s = Latest(lengths, A)
    BY <2>1 DEF LeafAt
  <2>3. s \in A
    <3>1. A \in SUBSET Used(lengths)
      OBVIOUS
    <3> HIDE DEF A
    <3> QED BY <2>2, <3>1, LatestIsOne
  <2>4. s \in Used(lengths) /\ path = Path(lengths, s)
    BY <2>3
  <2>5. k \in 0 .. FastBits /\ k <= FastBits
    BY <1>1
  <2>6. k = lengths[s] /\ v \div Pow2[FastBits - k] = Code(lengths, s)
    <3>1. \A i \in 0 .. FastBits, a \in Used(lengths) :
            FirstBits(v, FastBits, i) = Path(lengths, a)
              <=> i = lengths[a] /\ v \div Pow2[FastBits - i] = Code(lengths, a)
      BY <1>1, <1>2, PathIs
    <3> QED BY <2>4, <2>5, <3>1
  <2> QED BY <2>4, <2>5, <2>6
<1>9. Walk(lengths, v) = S
  <2> HIDE DEF S
  <2> QED BY <1>7, <1>8
<1>10. S # {} => Latest(lengths, S) \in S
  <2>1. S \in SUBSET Used(lengths)
    OBVIOUS
  <2> HIDE DEF S
  <2> QED BY <2>1, LatestIsOne
<1> HIDE DEF S
<1> QED
  BY <1>3, <1>6, <1>9, <1>10

-----------------------------------------------------------------------------
(* The inverse transform                                                   *)

Counts(tt, c) == \A b \in AllBytes : c[b] = Cardinality({j \in 1 .. Len(tt) : tt[j] = b})

\* A permutation of the places: every place is the next of exactly one.
LinksOK(links) ==
  /\ Len(links) \in Nat
  /\ \A k \in 1 .. Len(links) :
       links[k].byte \in AllBytes /\ \E i \in 0 .. Len(links) - 1 : links[k].next = {i}
  /\ DOMAIN links = 1 .. Len(links) /\ Placed(links)

\* With the right counts, every byte gets a place of its own: that of its
\* rank among the bytes, equal ones in the order of their positions.
LEMMA LinksArePermutation ==
  ASSUME NEW tt \in Seq(AllBytes), NEW c, Counts(tt, c)
  PROVE  LinksOK(Links(tt, c)) /\ Len(Links(tt, c)) = Len(tt)
<1> DEFINE n == Len(tt)
           D == 1 .. n
           less(b) == MapThenSumSet(LAMBDA x : c[x], {x \in AllBytes : x < b})
           place(i) == less(tt[i]) + Cardinality({j \in 1 .. i - 1 : tt[j] = tt[i]})
           R == {p \in D \X D : tt[p[1]] < tt[p[2]] \/ (tt[p[1]] = tt[p[2]] /\ p[1] < p[2])}
           rank == [i \in D |-> place(i)]
<1>0. ByteCount \in Int
  BY BlockAssumption DEF ByteCount
<1>1. n \in Nat /\ \A j \in D : tt[j] \in AllBytes /\ tt[j] \in Int
  BY <1>0 DEF AllBytes
<1>2. IsFiniteSet(D) /\ Cardinality(D) = n /\ IsFiniteSet(AllBytes)
  <2>2. IsFiniteSet(AllBytes)
    BY <1>0, FS_Interval DEF AllBytes
  <2>3. 1 \in Int /\ n \in Int
    BY <1>1
  <2>4. IsFiniteSet(1 .. n) /\ Cardinality(1 .. n) = IF 1 > n THEN 0 ELSE n - 1 + 1
    BY <2>3, FS_Interval
  <2> QED BY <1>1, <2>2, <2>4
<1>3. ASSUME NEW b \in AllBytes PROVE less(b) = Cardinality({j \in D : tt[j] < b})
  <2> DEFINE S == {x \in AllBytes : x < b}
  <2>1. IsFiniteSet(S) /\ IsCount(c, tt, D, S)
    BY <1>2, FS_Subset DEF Counts, IsCount
  <2>2. less(b) = SumOver(c, S)
    BY DEF SumOver
  <2>3. {j \in D : tt[j] \in S} = {j \in D : tt[j] < b}
    BY <1>1
  <2> HIDE DEF S, less, D
  <2>4. SumOver(c, S) = Cardinality({j \in D : tt[j] \in S})
    BY <1>2, <2>1, SumOfCounts
  <2> QED BY <2>2, <2>3, <2>4
<1> HIDE DEF less
<1>4. \A x \in D : \A y \in D : <<x, y>> \in R <=> tt[x] < tt[y] \/ (tt[x] = tt[y] /\ x < y)
  OBVIOUS
<1>5. IsStrictOrder(R, D)
  BY <1>1, <1>4 DEF IsStrictOrder
<1>6. ASSUME NEW i \in D PROVE place(i) = Cardinality({j \in D : <<j, i>> \in R})
  <2> DEFINE A == {j \in D : tt[j] < tt[i]}
             B == {j \in 1 .. i - 1 : tt[j] = tt[i]}
             X == {j \in D : <<j, i>> \in R}
  <2>1. X = A \cup B /\ A \cap B = {} /\ A \subseteq D /\ B \subseteq D
    BY <1>1, <1>4
  <2>2. place(i) = Cardinality(A) + Cardinality(B)
    BY <1>1, <1>3
  <2> HIDE DEF A, B, X, place, R, D
  <2>3. IsFiniteSet(A) /\ IsFiniteSet(B)
    BY <1>2, <2>1, FS_Subset
  <2>4. Cardinality(A \cup B) = Cardinality(A) + Cardinality(B) - Cardinality(A \cap B)
    BY <2>3, FS_Union, Zenon
  <2>5. Cardinality({}) = 0 /\ Cardinality(A) \in Nat /\ Cardinality(B) \in Nat
    BY <2>3, FS_EmptySet, FS_CardinalityType
  <2>6. Cardinality(X) = Cardinality(A) + Cardinality(B) - Cardinality({})
    BY <2>1, <2>4, Zenon
  <2>7. place(i) = Cardinality(X)
    BY <2>2, <2>5, <2>6
  <2> QED BY <2>7 DEF X
<1>7. \A i \in D : rank[i] = place(i)
  OBVIOUS
<1>8. Enumerates(rank, R, D)
  <2>1. IsRank(rank, R, D)
    <3> HIDE DEF rank, R, place, D
    <3> QED BY <1>6, <1>7 DEF IsRank
  <2> HIDE DEF rank, R, D
  <2> QED BY <1>2, <1>5, <2>1, Ranks
<1> DEFINE L == [k \in 1 .. n |-> [byte |-> tt[k],
                                   next |-> {i - 1 : i \in {j \in 1 .. n : place(j) = k - 1}}]]
<1>9. Links(tt, c) = L
  BY DEF Links, less
<1> HIDE DEF place, R, rank
<1>10. L \in [1 .. n -> [byte : AllBytes, next : SUBSET Int]] /\ Len(L) = n /\ DOMAIN L = 1 .. n
  BY <1>1
<1>11. ASSUME NEW k \in 1 .. n
       PROVE  /\ L[k].byte \in AllBytes
              /\ \E i \in D : place(i) = k - 1 /\ L[k].next = {i - 1}
  <2>1. k - 1 \in 0 .. Cardinality(D) - 1
    BY <1>1, <1>2
  <2>2. PICK i \in D : place(i) = k - 1
    BY <1>7, <1>8, <2>1 DEF Enumerates
  <2>3. ASSUME NEW j \in D, place(j) = k - 1, j # i PROVE FALSE
    <3>1. <<j, i>> \in R \/ <<i, j>> \in R
      BY <1>5, <2>3 DEF IsStrictOrder
    <3>2. place(j) < place(i) \/ place(i) < place(j)
      BY <1>7, <1>8, <3>1 DEF Enumerates
    <3> QED BY <2>2, <2>3, <3>2
  <2>4. {j \in 1 .. n : place(j) = k - 1} = {i}
    BY <2>2, <2>3
  <2>5. L[k].next = {i - 1} /\ L[k].byte = tt[k]
    BY <2>4
  <2> QED BY <1>1, <2>2, <2>5
<1>12. UNION {L[k].next : k \in 1 .. n} = 0 .. n - 1
  <2>1. ASSUME NEW k \in 1 .. n PROVE L[k].next \subseteq 0 .. n - 1
    BY <1>1, <1>11
  <2>2. ASSUME NEW v \in 0 .. n - 1 PROVE \E k \in 1 .. n : v \in L[k].next
    <3> DEFINE i == v + 1
               k == place(i) + 1
    <3>1. i \in D /\ i - 1 = v
      BY <1>1
    <3>2. place(i) \in 0 .. n - 1
      BY <1>2, <1>7, <1>8, <3>1 DEF Enumerates
    <3>3. k \in 1 .. n /\ place(i) = k - 1
      BY <1>1, <3>2
    <3> HIDE DEF i, k
    <3>4. v \in L[k].next
      BY <3>1, <3>3
    <3> QED BY <3>3, <3>4
  <2> HIDE DEF L
  <2> QED BY <2>1, <2>2
<1> HIDE DEF L
<1>13. Placed(L)
  BY <1>10, <1>12 DEF Placed
<1>14. ASSUME NEW k \in 1 .. n PROVE \E i \in 0 .. n - 1 : L[k].next = {i}
  <2>1. PICK i \in D : L[k].next = {i - 1}
    BY <1>11
  <2>2. i - 1 \in 0 .. n - 1
    BY <1>1
  <2> QED BY <2>1, <2>2
<1> QED
  BY <1>1, <1>9, <1>10, <1>11, <1>13, <1>14 DEF LinksOK

-----------------------------------------------------------------------------
(* The inductive invariant of the decoder: what is known of each record at *)
(* each label.                                                             *)

Early == {"crc", "randomised", "origin", "ranges"}
Selecting == {"groups", "selectors", "unary"}
Tabling == {"start", "adjust", "direction"}
Coding == {"peek", "entry", "walk"}
Outside == Ended \cup {"next", "magic", "streamCrc", "pad", "header", "unrle"}
Labels == Early \cup {"bitmap"} \cup Selecting \cup Tabling \cup Coding \cup Outside

EobOf(h) == Len(h.used) + 1

HeadRecord ==
  [orig : Nat, present : Seq(Nat), used : Seq(AllBytes), seen : Nat, groups : Nat, count : Nat,
   unary : Nat, selectors : Seq(Nat), order : Seq(0 .. 5)]

HeadType(h) ==
  /\ h \in HeadRecord
  /\ IsInjective(h.used) /\ Len(h.order) = 6
  /\ \A i \in DOMAIN h.selectors : h.selectors[i] < h.groups

\* used holds candidates that were seen, and the order of the selectors is one
\* of indexes of tables as far as there are tables.
HeadAt(h, p) ==
  /\ p \in Early => h.used = <<>> /\ h.seen = 0
  /\ p = "bitmap" =>
       /\ h.seen < Len(Candidates(h.present))
       /\ \A i \in DOMAIN h.used : \E k \in 1 .. h.seen : h.used[i] = Candidates(h.present)[k]
  /\ p \in Selecting \cup Tabling \cup Coding => h.used # <<>>
  /\ p \in Early \cup {"bitmap", "groups", "selectors"} =>
       h.selectors = <<>> /\ h.unary = 0 /\ h.order = Head0.order
  /\ p \in {"selectors", "unary"} \cup Tabling \cup Coding => h.groups \in 2 .. 6
  /\ p = "unary" =>
       /\ h.unary < h.groups /\ Len(h.selectors) < h.count
       /\ \A k \in 1 .. h.groups : h.order[k] < h.groups
  /\ p \in Tabling \cup Coding => Len(h.selectors) = h.count

HeadOK(h, p) == HeadType(h) /\ HeadAt(h, p)

CodeType(k, h) ==
  k \in [trees : Seq([0 .. EobOf(h) -> 1 .. 20]), length : Int, lengths : Seq(1 .. 20)]

\* There is a tree for every group when the symbols begin.
CodeAt(k, h, p) ==
  /\ p \in Early \cup {"bitmap"} \cup Selecting => k.trees = <<>>
  /\ p \in Tabling => Len(k.trees) < h.groups
  /\ p \in {"adjust", "direction"} => k.length \in 1 .. 20 /\ Len(k.lengths) <= EobOf(h)
  /\ p \in Coding => Len(k.trees) = h.groups

CodeOK(k, h, p) == CodeType(k, h) /\ CodeAt(k, h, p)

SymRecord ==
  [tt : Seq(AllBytes), c : [AllBytes -> Nat], mtf : Seq(AllBytes), left : Int, sel : Nat,
   repeat : Nat, power : Nat, node : Seq(Nat)]

SymType(s) ==
  /\ s \in SymRecord
  /\ Len(s.tt) <= Blocksize /\ Len(s.node) < 20
  /\ Counts(s.tt, s.c)

\* The bytes that are used stay in the list, and the selector is one that
\* was read.
SymAt(s, h, p) ==
  /\ p \in Early \cup {"bitmap"} \cup Selecting \cup Tabling => s.sel = 0
  /\ p \in Coding =>
       /\ Len(s.mtf) = Len(h.used) /\ ToSet(s.mtf) = ToSet(h.used)
       /\ s.sel = 0 \/ s.sel < h.count

SymOK(s, h, p) == SymType(s) /\ SymAt(s, h, p)

UnrleOK(u, p) ==
  /\ DOMAIN u = DOMAIN Unrle0
  /\ u.repeats \in 0 .. 3 /\ u.last \in AllBytes \cup {-1}
  /\ u.repeats > 0 => u.last \in AllBytes
  /\ u.cap \in Nat /\ u.out \in Seq(AllBytes)
  /\ p = "unrle" => LinksOK(u.links) /\ u.tPos \in 0 .. Len(u.links) - 1

\* A Vec that was written behind its end.
Space == pc = "overflow" <=> Len(unrle.out) > unrle.cap

DecodeInv ==
  /\ ReaderInv /\ pc \in Labels /\ Space
  /\ HeadOK(head, pc) /\ CodeOK(code, head, pc) /\ SymOK(sym, head, pc) /\ UnrleOK(unrle, pc)

-----------------------------------------------------------------------------

LEMMA ConstantTypes ==
  /\ RangeSize \in Nat /\ RangeSize > 0 /\ GroupSize \in Nat /\ GroupSize > 0
  /\ MaxSelectors \in Nat /\ MaxBlocksize \in Nat /\ Blocksize \in Nat /\ Blocksize > 0
  /\ ByteCount \in Nat /\ ByteCount > 0 /\ AllBytes \subseteq Nat /\ IsFiniteSet(AllBytes)
<1>1. /\ RangeSize \in Nat /\ RangeSize > 0 /\ GroupSize \in Nat /\ GroupSize > 0
      /\ MaxSelectors \in Nat /\ MaxBlocksize \in Nat /\ Blocksize \in Nat /\ Blocksize > 0
  BY BlockAssumption
<1>2. ByteCount \in Nat /\ ByteCount > 0
  BY <1>1 DEF ByteCount
<1>3. AllBytes \subseteq Nat
  BY <1>2 DEF AllBytes
<1>4. IsFiniteSet(AllBytes)
  BY <1>2, FS_Interval DEF AllBytes
<1> QED
  BY <1>1, <1>2, <1>3, <1>4

\* What is set at the magic, and in the beginning.
LEMMA Fresh ==
  ASSUME NEW p \in Early \cup Outside
  PROVE  HeadOK(Head0, p) /\ CodeOK(Code0, Head0, p) /\ SymOK(Sym0, Head0, p)
<1> USE DEF Early, Outside, Ended, Selecting, Tabling, Coding
<1>1. HeadType(Head0)
  <2>1. Head0.order \in Seq(0 .. 5) /\ Len(Head0.order) = 6
    BY DEF Head0
  <2>2. IsInjective(<<>>)
    BY DEF IsInjective
  <2> QED BY <2>1, <2>2 DEF HeadType, HeadRecord, Head0
<1>2. HeadAt(Head0, p)
  BY DEF HeadAt, Head0
<1>3. CodeType(Code0, Head0) /\ CodeAt(Code0, Head0, p)
  BY DEF CodeType, CodeAt, Code0
<1>4. SymType(Sym0)
  <2>1. Counts(Sym0.tt, Sym0.c)
    <3>1. \A b \in AllBytes : {j \in 1 .. Len(Sym0.tt) : Sym0.tt[j] = b} = {}
      BY DEF Sym0
    <3> QED BY <3>1, FS_EmptySet DEF Counts, Sym0
  <2>2. Sym0.c \in [AllBytes -> Nat] /\ Sym0.left \in Int
    BY ConstantTypes DEF Sym0
  <2>3. Sym0 \in SymRecord
    BY <2>2 DEF Sym0, SymRecord
  <2> QED BY <2>1, <2>3, ConstantTypes DEF SymType, Sym0
<1>5. SymAt(Sym0, Head0, p)
  BY DEF SymAt, Sym0
<1> QED
  BY <1>1, <1>2, <1>3, <1>4, <1>5 DEF HeadOK, CodeOK, SymOK

\* Outside a block nothing is asked of what is left of the last one.
LEMMA Left ==
  ASSUME NEW p \in Outside, NEW h, NEW k, NEW s
  PROVE  /\ HeadType(h) => HeadOK(h, p)
         /\ CodeType(k, h) => CodeOK(k, h, p)
         /\ SymType(s) => SymOK(s, h, p)
<1> USE DEF Early, Outside, Ended, Selecting, Tabling, Coding
<1>1. HeadAt(h, p)
  BY DEF HeadAt
<1>2. CodeAt(k, h, p)
  BY DEF CodeAt
<1>3. SymAt(s, h, p)
  BY DEF SymAt
<1> QED
  BY <1>1, <1>2, <1>3 DEF HeadOK, CodeOK, SymOK

LEMMA FailIsOutside == Fail => pc' \in Ended /\ pc' \in Outside /\ pc' \notin {"unrle", "overflow"}
BY DEF Fail, Ended, Outside

\* A number that was read is one.
LEMMA ReadIsNumber ==
  ASSUME NEW f \in DOMAIN Fields, Read(f)
  PROVE  /\ Fields[f] \in 1 .. 57 /\ ReadBits(Fields[f]) /\ pc = f
         /\ Len(answer') = Fields[f] /\ Number(answer') \in Nat
<1>1. Fields[f] \in 1 .. 57
  BY DEF Fields
<1> DEFINE n == Fields[f]
<1>2. ReadBits(n) /\ answer' # None /\ pc = f /\ n \in Nat
  BY <1>1 DEF Read
<1> HIDE DEF n
<1>3. answer' = Top(Ensure(reader, n), n)
  BY <1>2 DEF ReadBits
<1>4. Len(answer') = n
  BY <1>2, <1>3 DEF Top
<1>5. Number(answer') \in Nat
  <2>1. Len(answer') \in Nat
    BY <1>2, <1>4
  <2> QED BY <2>1, NumberIsNat
<1> QED
  BY <1>1, <1>2, <1>4, <1>5 DEF n

-----------------------------------------------------------------------------
(* The head of a block                                                     *)

\* Labels of a step that leaves the other records alone.
LEMMA HeadStep ==
  ASSUME DecodeInv, UNCHANGED <<code, sym, unrle>>,
         pc \in Early \cup {"bitmap"} \cup Selecting,
         pc' \in Early \cup {"bitmap"} \cup Selecting \cup {"start"} \cup Outside, pc' # "unrle",
         HeadType(head'), pc' \notin Outside => HeadAt(head', pc')
  PROVE  HeadOK(head', pc') /\ CodeOK(code', head', pc') /\ SymOK(sym', head', pc') /\ UnrleOK(unrle', pc')
<1> USE DEF Early, Outside, Ended, Selecting, Tabling, Coding
<1>1. HeadOK(head', pc')
  BY Left DEF HeadOK
<1>2. CodeOK(code', head', pc')
  <2>1. code.trees = <<>> /\ CodeType(code, head)
    BY DEF DecodeInv, CodeOK, CodeAt
  <2>2. CodeType(code, head')
    BY <2>1 DEF CodeType
  <2>3. pc' = "start" => head'.groups \in 2 .. 6
    BY DEF HeadAt
  <2>4. CodeAt(code, head', pc')
    BY <2>1, <2>3 DEF CodeAt
  <2> QED BY <2>2, <2>4 DEF CodeOK
<1>3. SymOK(sym', head', pc')
  <2>1. SymType(sym) /\ sym.sel = 0
    BY DEF DecodeInv, SymOK, SymAt
  <2> QED BY <2>1 DEF SymOK, SymAt
<1>4. UnrleOK(unrle', pc')
  BY DEF DecodeInv, UnrleOK
<1> QED
  BY <1>1, <1>2, <1>3, <1>4

Kept == pc' \in Labels /\ HeadOK(head', pc') /\ CodeOK(code', head', pc') /\ SymOK(sym', head', pc') /\ UnrleOK(unrle', pc')

LEMMA CandidatesAre ==
  ASSUME NEW present
  PROVE  /\ Len(Candidates(present)) \in Nat
         /\ \A i \in 1 .. Len(Candidates(present)) : Candidates(present)[i] \in AllBytes
         /\ \A i, j \in 1 .. Len(Candidates(present)) :
              i # j => Candidates(present)[i] # Candidates(present)[j]
         /\ Candidates(present) # <<>> => Len(Candidates(present)) > 0
<1> DEFINE S == {b \in AllBytes : present[b \div RangeSize + 1] = 1}
           s == Sorted(S)
           n == Cardinality(S)
<1>1. S \in SUBSET Int /\ IsFiniteSet(S) /\ S \subseteq AllBytes
  <2>1. S \subseteq AllBytes
    OBVIOUS
  <2> HIDE DEF S
  <2>2. IsFiniteSet(S)
    BY <2>1, ConstantTypes, FS_Subset
  <2>3. S \subseteq Int
    BY <2>1, ConstantTypes
  <2> QED BY <2>1, <2>2, <2>3
<1>2. Candidates(present) = s
  BY DEF Candidates
<1> HIDE DEF S
<1>3. /\ n \in Nat /\ s \in [1 .. n -> S]
      /\ \A i, j \in 1 .. n : i < j => s[i] < s[j]
  BY <1>1, SortedAscends
<1> HIDE DEF s, n
<1>4. Len(s) = n /\ s \in Seq(AllBytes)
  <2>1. s \in [1 .. n -> AllBytes]
    BY <1>1, <1>3
  <2> QED BY <1>3, <2>1
<1>5. \A i \in 1 .. n : s[i] \in AllBytes /\ s[i] \in Int
  BY <1>1, <1>3
<1>6. \A i, j \in 1 .. n : i # j => s[i] # s[j]
  <2> SUFFICES ASSUME NEW i \in 1 .. n, NEW j \in 1 .. n, i # j PROVE s[i] # s[j]
    OBVIOUS
  <2>1. CASE i < j
    BY <1>3, <1>5, <2>1
  <2>2. CASE ~(i < j)
    <3>1. j < i
      BY <1>3, <2>2
    <3> QED BY <1>3, <1>5, <3>1
  <2> QED BY <2>1, <2>2
<1>7. s # <<>> => n > 0
  BY <1>3, <1>4
<1> QED
  BY <1>2, <1>3, <1>4, <1>5, <1>6, <1>7

LEMMA MagicKeeps ==
  ASSUME DecodeInv, ReadMagic
  PROVE  Kept
<1>1. head' = Head0 /\ code' = Code0 /\ sym' = Sym0 /\ UNCHANGED unrle
  BY DEF ReadMagic
<1>2. pc' \in {"crc", "done", "streamCrc"} \cup Ended
  BY FailIsOutside DEF ReadMagic, Goto
<1>3. pc' \in Early \cup Outside /\ pc' # "unrle"
  BY <1>2 DEF Early, Outside, Ended
<1>4. UnrleOK(unrle', pc')
  BY <1>1, <1>3 DEF DecodeInv, UnrleOK
<1> QED
  BY <1>1, <1>3, <1>4, Fresh DEF Kept, Labels

LEMMA CrcKeeps ==
  ASSUME DecodeInv, ReadCrc \/ ReadRandomised
  PROVE  Kept
<1> USE DEF Early, Outside, Ended, Selecting, Tabling, Coding
<1>1. UNCHANGED coreVars /\ pc \in {"crc", "randomised"} /\ pc' \in {"randomised", "origin"} \cup Ended
  BY FailIsOutside DEF ReadCrc, ReadRandomised, Read, Goto
<1>2. HeadType(head') /\ (pc' \notin Outside => HeadAt(head', pc'))
  BY <1>1 DEF coreVars, DecodeInv, HeadOK, HeadAt
<1> QED
  BY <1>1, <1>2, HeadStep DEF Kept, Labels, coreVars

LEMMA OriginKeeps ==
  ASSUME DecodeInv, ReadOrigin
  PROVE  Kept
<1> USE DEF Early, Outside, Ended, Selecting, Tabling, Coding
<1>1. /\ pc = "origin" /\ pc' = "ranges" /\ UNCHANGED <<code, sym, unrle>>
      /\ head' = [head EXCEPT !.orig = Number(answer')]
  BY DEF ReadOrigin, Read, Goto
<1>2. Number(answer') \in Nat
  BY ReadIsNumber DEF ReadOrigin, Fields
<1>3. HeadType(head) /\ HeadAt(head, pc)
  BY DEF DecodeInv, HeadOK
<1>4. HeadType(head')
  BY <1>1, <1>2, <1>3 DEF HeadType, HeadRecord
<1>5. HeadAt(head', pc')
  BY <1>1, <1>3 DEF HeadAt, HeadType, HeadRecord
<1> QED
  BY <1>1, <1>4, <1>5, HeadStep DEF Kept, Labels

LEMMA RangeKeeps ==
  ASSUME DecodeInv, ReadRange
  PROVE  Kept
<1> USE DEF Early, Outside, Ended, Selecting, Tabling, Coding
<1> DEFINE present == Append(head.present, Number(answer'))
<1>1. /\ pc = "ranges" /\ UNCHANGED <<code, sym, unrle>>
      /\ head' = [head EXCEPT !.present = present]
      /\ \/ pc' = "ranges" \/ Fail
         \/ Candidates(present) # <<>> /\ pc' = "bitmap"
  BY DEF ReadRange, Read, Goto
<1>2. Number(answer') \in Nat
  BY ReadIsNumber DEF ReadRange, Fields
<1>3. HeadType(head) /\ HeadAt(head, pc)
  BY DEF DecodeInv, HeadOK
<1>4. present \in Seq(Nat)
  BY <1>2, <1>3 DEF HeadType, HeadRecord
<1> HIDE DEF present
<1>5. HeadType(head') /\ head'.used = head.used /\ head'.seen = head.seen /\ head'.present = present
      /\ head'.selectors = head.selectors /\ head'.unary = head.unary /\ head'.order = head.order
  BY <1>1, <1>3, <1>4 DEF HeadType, HeadRecord
<1>6. head.used = <<>> /\ head.seen = 0 /\ head.selectors = <<>> /\ head.unary = 0
      /\ head.order = Head0.order
  BY <1>1, <1>3 DEF HeadAt
<1>7. pc' = "bitmap" => Len(Candidates(present)) > 0
  BY <1>1, FailIsOutside, CandidatesAre
<1>8. pc' \in {"ranges", "bitmap"} \cup Ended
  BY <1>1, FailIsOutside
<1>9. pc' \notin Outside => HeadAt(head', pc')
  BY <1>5, <1>6, <1>7, <1>8 DEF HeadAt
<1> QED
  BY <1>1, <1>5, <1>8, <1>9, HeadStep DEF Kept, Labels

LEMMA BitmapKeeps ==
  ASSUME DecodeInv, ReadBitmap
  PROVE  Kept
<1> USE DEF Early, Outside, Ended, Selecting, Tabling, Coding
<1> DEFINE all == Candidates(head.present)
           used == IF Number(answer') = 1 THEN Append(head.used, all[head.seen + 1]) ELSE head.used
<1>1. /\ pc = "bitmap" /\ UNCHANGED <<code, sym, unrle>>
      /\ head' = [head EXCEPT !.used = used, !.seen = @ + 1]
      /\ \/ head.seen + 1 < Len(all) /\ pc' = "bitmap"
         \/ Fail
         \/ used # <<>> /\ pc' = "groups"
  BY DEF ReadBitmap, Read, Goto
<1>2. HeadType(head) /\ HeadAt(head, pc)
  BY DEF DecodeInv, HeadOK
<1>3. /\ head.used \in Seq(AllBytes) /\ head.seen \in Nat /\ head.seen < Len(all)
      /\ IsInjective(head.used)
      /\ \A i \in DOMAIN head.used : \E k \in 1 .. head.seen : head.used[i] = all[k]
      /\ head.selectors = <<>> /\ head.unary = 0 /\ head.order = Head0.order
  BY <1>1, <1>2 DEF HeadType, HeadRecord, HeadAt
<1>4. /\ Len(all) \in Nat /\ \A i \in 1 .. Len(all) : all[i] \in AllBytes
      /\ \A i, j \in 1 .. Len(all) : i # j => all[i] # all[j]
  BY CandidatesAre
<1> HIDE DEF all
<1>5. /\ used \in Seq(AllBytes) /\ IsInjective(used)
      /\ \A i \in DOMAIN used : \E k \in 1 .. head.seen + 1 : used[i] = all[k]
  <2>1. CASE Number(answer') # 1
    <3>1. used = head.used
      BY <2>1
    <3>2. 1 .. head.seen \subseteq 1 .. head.seen + 1
      BY <1>3
    <3> HIDE DEF used
    <3> QED BY <1>3, <3>1, <3>2
  <2>2. CASE Number(answer') = 1
    <3> DEFINE b == all[head.seen + 1]
    <3>1. used = Append(head.used, b) /\ head.seen + 1 \in 1 .. Len(all) /\ b \in AllBytes
      BY <1>3, <1>4, <2>2
    <3>2. \A i \in DOMAIN head.used : head.used[i] # b
      <4> SUFFICES ASSUME NEW i \in DOMAIN head.used PROVE head.used[i] # b
        OBVIOUS
      <4>1. PICK k \in 1 .. head.seen : head.used[i] = all[k]
        BY <1>3
      <4>2. k \in 1 .. Len(all) /\ k # head.seen + 1
        BY <1>3, <1>4
      <4> QED BY <1>4, <3>1, <4>1, <4>2
    <3> HIDE DEF used
    <3> DEFINE n == Len(head.used)
    <3>3. /\ n \in Nat /\ DOMAIN head.used = 1 .. n /\ DOMAIN used = 1 .. n + 1
          /\ used \in Seq(AllBytes)
          /\ \A i \in 1 .. n : used[i] = head.used[i]
          /\ used[n + 1] = b
      BY <1>3, <3>1
    <3>4. used[n + 1] = all[head.seen + 1] /\ head.seen + 1 \in 1 .. head.seen + 1
      BY <1>3, <3>3
    <3> HIDE DEF n, b
    <3>5. \A i \in 1 .. n + 1 : i = n + 1 \/ i \in 1 .. n
      BY <3>3
    <3>6. IsInjective(used)
      BY <1>3, <3>2, <3>3, <3>5 DEF IsInjective
    <3>7. ASSUME NEW i \in 1 .. n + 1 PROVE \E k \in 1 .. head.seen + 1 : used[i] = all[k]
      <4>1. CASE i = n + 1
        BY <3>4, <4>1
      <4>2. CASE i \in 1 .. n
        <5>1. PICK k \in 1 .. head.seen : head.used[i] = all[k]
          BY <1>3, <3>3, <4>2
        <5>2. k \in 1 .. head.seen + 1
          BY <1>3
        <5> QED BY <3>3, <4>2, <5>1, <5>2
      <4> QED BY <3>5, <4>1, <4>2
    <3> QED BY <3>3, <3>6, <3>7
  <2> QED BY <2>1, <2>2
<1> HIDE DEF used
<1>6. /\ HeadType(head') /\ head'.used = used /\ head'.seen = head.seen + 1
      /\ head'.present = head.present
      /\ head'.selectors = <<>> /\ head'.unary = 0 /\ head'.order = Head0.order
  <2>1. /\ head' \in HeadRecord /\ head'.used = used /\ head'.seen = head.seen + 1
        /\ head'.present = head.present /\ head'.groups = head.groups
        /\ head'.selectors = head.selectors /\ head'.unary = head.unary /\ head'.order = head.order
    <3> DEFINE seen == head.seen + 1
    <3>1. /\ head' = [head EXCEPT !.used = used, !.seen = seen] /\ seen \in Nat
          /\ head \in HeadRecord /\ used \in Seq(AllBytes)
      BY <1>1, <1>2, <1>3, <1>5 DEF HeadType, HeadRecord
    <3> HIDE DEF seen
    <3>2. /\ head' \in HeadRecord /\ head'.used = used /\ head'.seen = seen
          /\ head'.present = head.present /\ head'.groups = head.groups
          /\ head'.selectors = head.selectors /\ head'.unary = head.unary /\ head'.order = head.order
      BY <3>1 DEF HeadRecord
    <3> QED BY <3>2 DEF seen
  <2> QED BY <1>2, <1>3, <1>5, <2>1 DEF HeadType
<1>7. pc' \in {"bitmap", "groups"} \cup Ended
  BY <1>1, FailIsOutside
<1>8. pc' = "bitmap" => head.seen + 1 < Len(all)
  BY <1>1, FailIsOutside
<1>9. pc' = "groups" => used # <<>>
  BY <1>1, FailIsOutside
<1>10. pc' \notin Outside => HeadAt(head', pc')
  BY <1>5, <1>6, <1>7, <1>8, <1>9 DEF HeadAt, all
<1> QED
  BY <1>1, <1>6, <1>7, <1>10, HeadStep DEF Kept, Labels

LEMMA GroupsKeeps ==
  ASSUME DecodeInv, ReadGroups
  PROVE  Kept
<1> USE DEF Early, Outside, Ended, Selecting, Tabling, Coding
<1> DEFINE n == Number(answer')
<1>1. /\ pc = "groups" /\ UNCHANGED <<code, sym, unrle>>
      /\ head' = [head EXCEPT !.groups = n]
      /\ (n \in 2 .. 6 /\ pc' = "selectors") \/ Fail
  BY DEF ReadGroups, Read, Goto
<1>2. n \in Nat
  BY ReadIsNumber DEF ReadGroups, Fields
<1>3. HeadType(head) /\ HeadAt(head, pc)
  BY DEF DecodeInv, HeadOK
<1>4. head.selectors = <<>> /\ head.unary = 0 /\ head.order = Head0.order /\ head.used # <<>>
  BY <1>1, <1>3 DEF HeadAt
<1> HIDE DEF n
<1>6. /\ head' \in HeadRecord /\ head'.used = head.used
      /\ head'.selectors = <<>> /\ head'.unary = 0 /\ head'.order = Head0.order /\ head'.used # <<>>
      /\ head'.groups = n
  BY <1>1, <1>2, <1>3, <1>4 DEF HeadType, HeadRecord
<1>5. HeadType(head')
  BY <1>3, <1>4, <1>6 DEF HeadType
<1>7. pc' \in {"selectors"} \cup Ended /\ (pc' = "selectors" => n \in 2 .. 6)
  BY <1>1, FailIsOutside
<1>8. pc' \notin Outside => HeadAt(head', pc')
  BY <1>6, <1>7 DEF HeadAt
<1> QED
  BY <1>1, <1>5, <1>7, <1>8, HeadStep DEF Kept, Labels

LEMMA SelectorCountKeeps ==
  ASSUME DecodeInv, ReadSelectorCount
  PROVE  Kept
<1> USE DEF Early, Outside, Ended, Selecting, Tabling, Coding
<1> DEFINE n == Number(answer')
<1>1. /\ pc = "selectors" /\ UNCHANGED <<code, sym, unrle>>
      /\ head' = [head EXCEPT !.count = n]
      /\ Fail \/ (n = 0 /\ pc' = "start") \/ (n # 0 /\ pc' = "unary")
  BY DEF ReadSelectorCount, Read, Goto
<1>2. n \in Nat
  BY ReadIsNumber DEF ReadSelectorCount, Fields
<1>3. HeadType(head) /\ HeadAt(head, pc)
  BY DEF DecodeInv, HeadOK
<1>4. /\ head.selectors = <<>> /\ head.unary = 0 /\ head.order = Head0.order /\ head.used # <<>>
      /\ head.groups \in 2 .. 6
  BY <1>1, <1>3 DEF HeadAt
<1> HIDE DEF n
<1>5. HeadType(head')
  BY <1>1, <1>2, <1>3, <1>4 DEF HeadType, HeadRecord
<1>6. /\ head'.selectors = <<>> /\ head'.unary = 0 /\ head'.order = Head0.order /\ head'.used # <<>>
      /\ head'.groups = head.groups /\ head'.count = n
  BY <1>1, <1>3, <1>4 DEF HeadType, HeadRecord
<1>7. /\ pc' \in {"start", "unary"} \cup Ended
      /\ (pc' = "start" => n = 0) /\ (pc' = "unary" => n > 0)
  BY <1>1, <1>2, FailIsOutside
<1>8. \A k \in 1 .. 6 : Head0.order[k] = k - 1
  BY DEF Head0
<1>9. \A k \in 1 .. head.groups : Head0.order[k] < head.groups
  BY <1>4, <1>8
<1>10. pc' \notin Outside => HeadAt(head', pc')
  BY <1>4, <1>6, <1>7, <1>9 DEF HeadAt
<1> QED
  BY <1>1, <1>5, <1>7, <1>10, HeadStep DEF Kept, Labels

LEMMA SelectorKeeps ==
  ASSUME DecodeInv, ReadSelector
  PROVE  Kept
<1> USE DEF Early, Outside, Ended, Selecting, Tabling, Coding
<1> DEFINE i == head.unary + 1
           x == head.order[i]
           order == MoveToFront(head.order, i)
<1>1. pc = "unary" /\ UNCHANGED <<code, sym, unrle>>
  BY DEF ReadSelector, Read
<1>2. HeadType(head) /\ HeadAt(head, pc)
  BY DEF DecodeInv, HeadOK
<1>3. /\ head.groups \in 2 .. 6 /\ head.unary \in Nat /\ head.unary < head.groups
      /\ head.selectors \in Seq(Nat) /\ head.count \in Nat /\ Len(head.selectors) < head.count
      /\ head.order \in Seq(0 .. 5) /\ Len(head.order) = 6 /\ head.used # <<>>
      /\ \A k \in 1 .. head.groups : head.order[k] < head.groups
      /\ \A k \in DOMAIN head.selectors : head.selectors[k] < head.groups
  BY <1>1, <1>2 DEF HeadType, HeadRecord, HeadAt
<1>4. CASE Number(answer') = 1
  <2>1. /\ head' = [head EXCEPT !.unary = @ + 1]
        /\ Fail \/ (head.unary + 1 < head.groups /\ pc' = "unary")
    BY <1>3, <1>4 DEF ReadSelector, Goto
  <2>2. HeadType(head')
    <3> DEFINE u == head.unary + 1
    <3>2. head' = [head EXCEPT !.unary = u] /\ u \in Nat /\ head \in HeadRecord
      BY <1>2, <1>3, <2>1 DEF HeadType, HeadRecord
    <3> HIDE DEF u
    <3>1. head' \in HeadRecord /\ head'.used = head.used /\ head'.order = head.order
          /\ head'.selectors = head.selectors /\ head'.groups = head.groups
      BY <3>2 DEF HeadRecord
    <3> QED BY <1>2, <3>1 DEF HeadType
  <2>3. pc' \in {"unary"} \cup Ended /\ (pc' = "unary" => head.unary + 1 < head.groups)
    BY <2>1, FailIsOutside
  <2>4. /\ head'.unary = head.unary + 1 /\ head'.groups = head.groups /\ head'.order = head.order
        /\ head'.used = head.used /\ head'.selectors = head.selectors /\ head'.count = head.count
    BY <1>2, <2>1 DEF HeadType, HeadRecord
  <2>5. pc' \notin Outside => HeadAt(head', pc')
    BY <1>3, <2>3, <2>4 DEF HeadAt
  <2> QED
    BY <1>1, <2>2, <2>3, <2>5, HeadStep DEF Kept, Labels
<1>5. CASE Number(answer') # 1
  <2>1. /\ head' = [head EXCEPT !.unary = 0, !.selectors = Append(@, x), !.order = order]
        /\ \/ Len(head.selectors) + 1 < head.count /\ pc' = "unary"
           \/ ~(Len(head.selectors) + 1 < head.count) /\ pc' = "start"
    BY <1>5 DEF ReadSelector, Goto
  <2>2. i \in 1 .. head.groups /\ i \in 1 .. 6 /\ i \in 1 .. Len(head.order)
    <3>1. head.unary + 1 \in 1 .. head.groups /\ head.unary + 1 \in 1 .. 6
      BY <1>3
    <3> QED BY <1>3, <3>1
  <2>3. /\ order \in Seq(0 .. 5) /\ Len(order) = 6
        /\ \A k \in 1 .. 6 : order[k] = IF k = 1 THEN x ELSE IF k <= i THEN head.order[k - 1] ELSE head.order[k]
    <3> DEFINE s == head.order
    <3>1. s \in Seq(0 .. 5) /\ i \in 1 .. Len(s) /\ Len(s) = 6
      BY <1>3, <2>2
    <3> HIDE DEF i, s
    <3>2. /\ MoveToFront(s, i) \in Seq(0 .. 5) /\ Len(MoveToFront(s, i)) = Len(s)
          /\ \A k \in 1 .. Len(s) :
               MoveToFront(s, i)[k] = IF k = 1 THEN s[i] ELSE IF k <= i THEN s[k - 1] ELSE s[k]
      BY <3>1, Moved
    <3> QED BY <3>1, <3>2 DEF s
  <2>4. x \in 0 .. 5 /\ x \in Nat /\ x < head.groups
    <3> HIDE DEF i
    <3>1. head.order[i] \in 0 .. 5 /\ head.order[i] < head.groups
      BY <1>3, <2>2
    <3> QED BY <3>1
  <2> HIDE DEF i, x, order
  <2>5. \A k \in 1 .. head.groups : order[k] < head.groups
    <3> SUFFICES ASSUME NEW k \in 1 .. head.groups PROVE order[k] < head.groups
      OBVIOUS
    <3>1. k \in 1 .. 6 /\ (k # 1 => k - 1 \in 1 .. head.groups)
      BY <1>3
    <3> QED BY <1>3, <2>3, <2>4, <3>1
  <2> DEFINE selectors == Append(head.selectors, x)
  <2>6. /\ selectors \in Seq(Nat) /\ Len(selectors) = Len(head.selectors) + 1
        /\ \A k \in DOMAIN selectors : selectors[k] < head.groups
    BY <1>3, <2>4
  <2>7. head' = [head EXCEPT !.unary = 0, !.selectors = selectors, !.order = order]
    BY <1>2, <2>1 DEF HeadType, HeadRecord
  <2> HIDE DEF selectors
  <2>9. /\ head' \in HeadRecord /\ head'.unary = 0 /\ head'.groups = head.groups /\ head'.order = order
        /\ head'.used = head.used /\ head'.selectors = selectors /\ head'.count = head.count
    BY <1>2, <2>3, <2>6, <2>7 DEF HeadType, HeadRecord
  <2>8. HeadType(head')
    BY <1>2, <2>3, <2>6, <2>9 DEF HeadType
  <2>10. pc' = "start" => Len(selectors) = head.count
    BY <1>3, <2>1, <2>6
  <2>11. pc' = "unary" => Len(selectors) < head.count
    BY <2>1, <2>6
  <2>12. pc' \in {"unary", "start"}
    BY <2>1
  <2>13. HeadAt(head', pc')
    BY <1>3, <2>5, <2>9, <2>10, <2>11, <2>12 DEF HeadAt
  <2> QED
    BY <1>1, <2>8, <2>12, <2>13, HeadStep DEF Kept, Labels
<1> QED
  BY <1>4, <1>5

-----------------------------------------------------------------------------
(* The tables                                                              *)

\* A step that reads a table leaves the head and the output alone.
LEMMA CodeStep ==
  ASSUME DecodeInv, UNCHANGED <<head, unrle>>, pc \in Tabling,
         pc' \in Tabling \cup {"peek"} \cup Outside, pc' # "unrle",
         CodeType(code', head), pc' \notin Outside => CodeAt(code', head, pc'),
         SymType(sym'), pc' \notin Outside => SymAt(sym', head, pc')
  PROVE  Kept
<1> USE DEF Early, Outside, Ended, Selecting, Tabling, Coding
<1>1. HeadType(head) /\ HeadAt(head, pc)
  BY DEF DecodeInv, HeadOK
<1>2. HeadAt(head, pc')
  BY <1>1 DEF HeadAt
<1>3. CodeOK(code', head, pc') /\ SymOK(sym', head, pc')
  BY Left DEF CodeOK, SymOK
<1>4. UnrleOK(unrle, pc')
  BY DEF DecodeInv, UnrleOK
<1> QED
  BY <1>1, <1>2, <1>3, <1>4 DEF Kept, Labels, HeadOK

LEMMA StartKeeps ==
  ASSUME DecodeInv, ReadStart
  PROVE  Kept
<1> USE DEF Early, Outside, Ended, Selecting, Tabling, Coding
<1> DEFINE n == Number(answer')
<1>1. /\ pc = "start" /\ UNCHANGED <<head, sym, unrle>>
      /\ code' = [code EXCEPT !.length = n, !.lengths = <<>>]
      /\ (n \in 1 .. 20 /\ pc' = "adjust") \/ Fail
  BY DEF ReadStart, Read, Goto, CheckLength
<1>2. n \in Nat
  BY ReadIsNumber DEF ReadStart, Fields
<1>3. CodeType(code, head) /\ CodeAt(code, head, pc) /\ SymType(sym) /\ SymAt(sym, head, pc)
  BY DEF DecodeInv, CodeOK, SymOK
<1> HIDE DEF n
<1>4. /\ CodeType(code', head)
      /\ code'.trees = code.trees /\ code'.length = n /\ code'.lengths = <<>>
  <2>1. n \in Int /\ <<>> \in Seq(1 .. 20)
    BY <1>2
  <2> QED BY <1>1, <1>3, <2>1 DEF CodeType
<1>5. pc' \in {"adjust"} \cup Ended /\ (pc' = "adjust" => n \in 1 .. 20)
  BY <1>1, FailIsOutside
<1>6. EobOf(head) \in Nat
  BY DEF DecodeInv, HeadOK, HeadType, HeadRecord, EobOf
<1>7. pc' \notin Outside => CodeAt(code', head, pc')
  BY <1>1, <1>3, <1>4, <1>5, <1>6 DEF CodeAt
<1>8. SymType(sym') /\ (pc' \notin Outside => SymAt(sym', head, pc'))
  BY <1>1, <1>3, <1>5 DEF SymAt
<1> QED
  BY <1>1, <1>4, <1>5, <1>7, <1>8, CodeStep

LEMMA DirectionKeeps ==
  ASSUME DecodeInv, ReadDirection
  PROVE  Kept
<1> USE DEF Early, Outside, Ended, Selecting, Tabling, Coding
<1> DEFINE n == IF Number(answer') = 1 THEN code.length - 1 ELSE code.length + 1
<1>1. /\ pc = "direction" /\ UNCHANGED <<head, sym, unrle>>
      /\ code' = [code EXCEPT !.length = n]
      /\ (n \in 1 .. 20 /\ pc' = "adjust") \/ Fail
  BY DEF ReadDirection, Read, Goto, CheckLength
<1>3. CodeType(code, head) /\ CodeAt(code, head, pc) /\ SymType(sym) /\ SymAt(sym, head, pc)
  BY DEF DecodeInv, CodeOK, SymOK
<1>2. n \in Int
  BY <1>3 DEF CodeType
<1> HIDE DEF n
<1>4. /\ CodeType(code', head)
      /\ code'.trees = code.trees /\ code'.length = n /\ code'.lengths = code.lengths
  BY <1>1, <1>2, <1>3 DEF CodeType
<1>5. pc' \in {"adjust"} \cup Ended /\ (pc' = "adjust" => n \in 1 .. 20)
  BY <1>1, FailIsOutside
<1>7. pc' \notin Outside => CodeAt(code', head, pc')
  BY <1>1, <1>3, <1>4, <1>5 DEF CodeAt
<1>8. SymType(sym') /\ (pc' \notin Outside => SymAt(sym', head, pc'))
  BY <1>1, <1>3, <1>5 DEF SymAt
<1> QED
  BY <1>1, <1>4, <1>5, <1>7, <1>8, CodeStep

LEMMA AdjustKeeps ==
  ASSUME DecodeInv, ReadAdjust
  PROVE  Kept
<1> USE DEF Early, Outside, Ended, Selecting, Tabling, Coding
<1> DEFINE lengths == Append(code.lengths, code.length)
           table == [s \in 0 .. Len(lengths) - 1 |-> lengths[s + 1]]
           trees == Append(code.trees, table)
           eob == EobOf(head)
<1>1. pc = "adjust" /\ UNCHANGED <<head, unrle>>
  BY DEF ReadAdjust, Read
<1>2. /\ CodeType(code, head) /\ CodeAt(code, head, pc) /\ SymType(sym) /\ SymAt(sym, head, pc)
      /\ HeadType(head) /\ HeadAt(head, pc)
  BY DEF DecodeInv, CodeOK, SymOK, HeadOK
<1>3. /\ code.trees \in Seq([0 .. eob -> 1 .. 20]) /\ Len(code.trees) < head.groups
      /\ code.length \in 1 .. 20 /\ code.lengths \in Seq(1 .. 20) /\ Len(code.lengths) <= eob
      /\ eob \in Nat /\ head.groups \in Nat /\ head.used \in Seq(AllBytes) /\ sym.sel = 0
      /\ SymbolCount = eob + 1
  BY <1>1, <1>2 DEF CodeType, CodeAt, SymAt, HeadType, HeadRecord, EobOf, SymbolCount
<1>4. /\ lengths \in Seq(1 .. 20) /\ Len(lengths) = Len(code.lengths) + 1
  BY <1>3
<1>5. CASE Number(answer') = 1
  <2>1. UNCHANGED <<code, sym>> /\ pc' = "direction"
    BY <1>5 DEF ReadAdjust, Goto
  <2>2. CodeAt(code', head, pc') /\ SymAt(sym', head, pc')
    BY <1>1, <1>2, <2>1 DEF CodeAt, SymAt
  <2> QED BY <1>1, <1>2, <2>1, <2>2, CodeStep
<1>6. CASE Number(answer') # 1 /\ Len(lengths) < SymbolCount
  <2>1. /\ UNCHANGED sym /\ pc' = "adjust" /\ code' = [code EXCEPT !.lengths = lengths]
    BY <1>6 DEF ReadAdjust, Goto
  <2> HIDE DEF lengths
  <2>2. CodeType(code', head) /\ code'.trees = code.trees /\ code'.length = code.length
        /\ code'.lengths = lengths
    BY <1>2, <1>4, <2>1 DEF CodeType
  <2>3. CodeAt(code', head, pc') /\ SymAt(sym', head, pc')
    BY <1>1, <1>2, <1>3, <1>4, <1>6, <2>1, <2>2 DEF CodeAt, SymAt
  <2> QED BY <1>1, <1>2, <2>1, <2>2, <2>3, CodeStep
<1>7. CASE Number(answer') # 1 /\ ~(Len(lengths) < SymbolCount)
  <2>1. /\ code' = [code EXCEPT !.lengths = <<>>, !.trees = Append(@, table)]
        /\ sym' = [sym EXCEPT !.mtf = head.used]
        /\ \/ Fail \/ pc' = "panic"
           \/ Len(code.trees) + 1 < head.groups /\ pc' = "start"
           \/ ~(Len(code.trees) + 1 < head.groups) /\ pc' = "peek"
    BY <1>7 DEF ReadAdjust, Goto
  <2>2. Len(lengths) = eob + 1
    BY <1>3, <1>4, <1>7
  <2>3. table \in [0 .. eob -> 1 .. 20]
    <3> HIDE DEF lengths
    <3>1. \A s \in 0 .. Len(lengths) - 1 : s + 1 \in 1 .. Len(lengths) /\ lengths[s + 1] \in 1 .. 20
      BY <1>3, <1>4, <2>2
    <3>2. Len(lengths) - 1 = eob
      BY <1>3, <2>2
    <3> HIDE DEF eob
    <3> QED BY <3>1, <3>2
  <2> HIDE DEF lengths, table, eob
  <2>4. trees \in Seq([0 .. eob -> 1 .. 20]) /\ Len(trees) = Len(code.trees) + 1
    BY <1>3, <2>3
  <2>5. code' = [code EXCEPT !.lengths = <<>>, !.trees = trees]
    BY <1>2, <2>1 DEF CodeType
  <2> HIDE DEF trees
  <2>6. CodeType(code', head) /\ code'.trees = trees
    <3>1. trees \in Seq([0 .. EobOf(head) -> 1 .. 20]) /\ <<>> \in Seq(1 .. 20)
      BY <2>4 DEF eob
    <3> QED BY <1>2, <2>5, <3>1 DEF CodeType
  <2>7. /\ SymType(sym') /\ sym'.mtf = head.used /\ sym'.sel = 0
    BY <1>2, <1>3, <2>1 DEF SymType, SymRecord
  <2>8. pc' \in {"start", "peek", "panic"} \cup Ended
    BY <2>1, FailIsOutside
  <2>9. /\ pc' = "start" => Len(trees) < head.groups
        /\ pc' = "peek" => Len(trees) = head.groups
    BY <1>3, <2>1, <2>4, FailIsOutside
  <2>10. pc' \notin Outside => CodeAt(code', head, pc')
    BY <2>6, <2>8, <2>9 DEF CodeAt
  <2>11. pc' \notin Outside => SymAt(sym', head, pc')
    BY <2>7, <2>8 DEF SymAt
  <2> QED BY <1>1, <2>6, <2>7, <2>8, <2>10, <2>11, CodeStep
<1> QED
  BY <1>5, <1>6, <1>7

-----------------------------------------------------------------------------
(* The symbols                                                             *)

\* The tree with which a symbol is decoded is one for all symbols.
LEMMA TreeIsThere ==
  ASSUME DecodeInv, pc \in Coding
  PROVE  /\ Tree \in [0 .. EobOf(head) -> 1 .. 20] /\ EobOf(head) \in Nat /\ EobOf(head) >= 2
         /\ Eob = EobOf(head)
<1>1. /\ head.selectors \in Seq(Nat) /\ head.used \in Seq(AllBytes) /\ head.used # <<>>
      /\ head.groups \in 2 .. 6 /\ Len(head.selectors) = head.count
      /\ \A i \in DOMAIN head.selectors : head.selectors[i] < head.groups
  BY DEF DecodeInv, HeadOK, HeadType, HeadRecord, HeadAt, Coding
<1>2. code.trees \in Seq([0 .. EobOf(head) -> 1 .. 20]) /\ Len(code.trees) = head.groups
  BY DEF DecodeInv, CodeOK, CodeType, CodeAt, Coding
<1>3. sym.sel \in Nat /\ (sym.sel = 0 \/ sym.sel < head.count)
  BY DEF DecodeInv, SymOK, SymType, SymRecord, SymAt, Coding
<1>4. EobOf(head) \in Nat /\ EobOf(head) >= 2 /\ Eob = EobOf(head)
  BY <1>1 DEF EobOf, Eob, SymbolCount
<1>5. CASE head.selectors = <<>>
  <2>1. Tree = code.trees[1]
    BY <1>5 DEF Tree
  <2>2. 1 \in 1 .. Len(code.trees)
    BY <1>1, <1>2
  <2> QED BY <1>2, <1>4, <2>1, <2>2
<1>6. CASE head.selectors # <<>>
  <2> DEFINE g == head.selectors[sym.sel + 1]
  <2>1. sym.sel + 1 \in 1 .. Len(head.selectors)
    BY <1>1, <1>3, <1>6
  <2>2. g \in Nat /\ g < head.groups
    BY <1>1, <2>1
  <2>3. Tree = code.trees[1 + g]
    BY <1>6 DEF Tree
  <2>4. 1 + g \in 1 .. Len(code.trees)
    BY <1>1, <1>2, <2>2
  <2> HIDE DEF g
  <2> QED BY <1>2, <1>4, <2>3, <2>4
<1> QED
  BY <1>5, <1>6

Recounted(tt, c, b, k) ==
  /\ tt \o Repeated(b, k) \in Seq(AllBytes)
  /\ Len(tt \o Repeated(b, k)) = Len(tt) + k
  /\ [c EXCEPT ![b] = @ + k] \in [AllBytes -> Nat]
  /\ Counts(tt \o Repeated(b, k), [c EXCEPT ![b] = @ + k])

\* Repeating a byte adds to its count alone.
LEMMA CountsRepeated ==
  ASSUME NEW tt \in Seq(AllBytes), NEW c \in [AllBytes -> Nat], Counts(tt, c),
         NEW b \in AllBytes, NEW k \in Nat
  PROVE  Recounted(tt, c, b, k)
<1> DEFINE r == Repeated(b, k)
           n == Len(tt)
           t == tt \o r
           d == [c EXCEPT ![b] = @ + k]
<1>1. r \in Seq(AllBytes) /\ Len(r) = k /\ \A i \in 1 .. k : r[i] = b
  BY DEF Repeated
<1> HIDE DEF r
<1>2. /\ t \in Seq(AllBytes) /\ Len(t) = n + k /\ n \in Nat
      /\ \A i \in 1 .. n + k : t[i] = IF i <= n THEN tt[i] ELSE r[i - n]
  <2>1. tt \in Seq(AllBytes) /\ r \in Seq(AllBytes)
    BY <1>1
  <2>2. /\ tt \o r \in Seq(AllBytes) /\ Len(tt \o r) = Len(tt) + Len(r)
        /\ \A i \in 1 .. Len(tt) + Len(r) : (tt \o r)[i] = IF i <= Len(tt) THEN tt[i] ELSE r[i - Len(tt)]
    BY <2>1, ConcatProperties
  <2> QED BY <1>1, <2>2
<1> HIDE DEF t
<1>3. \A i \in 1 .. n : i \in 1 .. n + k /\ t[i] = tt[i]
  BY <1>2
<1>4. \A i \in n + 1 .. n + k : i \in 1 .. n + k /\ t[i] = b /\ i \notin 1 .. n
  <2> SUFFICES ASSUME NEW i \in n + 1 .. n + k
               PROVE  i \in 1 .. n + k /\ t[i] = b /\ i \notin 1 .. n
    OBVIOUS
  <2>1. i \in 1 .. n + k /\ ~(i <= n) /\ i - n \in 1 .. k
    BY <1>2
  <2> QED BY <1>1, <1>2, <2>1
<1>5. \A i \in 1 .. n + k : i \in 1 .. n \/ i \in n + 1 .. n + k
  BY <1>2
<1>6. d \in [AllBytes -> Nat]
  OBVIOUS
<1>7. ASSUME NEW x \in AllBytes PROVE d[x] = Cardinality({j \in 1 .. Len(t) : t[j] = x})
  <2> DEFINE A == {j \in 1 .. n : tt[j] = x}
             B == n + 1 .. n + k
             X == {j \in 1 .. Len(t) : t[j] = x}
  <2>1. c[x] = Cardinality(A) /\ c[x] \in Nat
    BY DEF Counts
  <2>2. IsFiniteSet(A) /\ IsFiniteSet(B)
    <3>1. IsFiniteSet(1 .. n) /\ IsFiniteSet(n + 1 .. n + k)
      BY <1>2, FS_Interval
    <3> QED BY <3>1, FS_Subset
  <2>3. CASE x = b
    <3>1. X = A \cup B /\ A \cap B = {}
      BY <1>2, <1>3, <1>4, <1>5, <2>3
    <3>2. Cardinality(B) = k
      <4> DEFINE lo == n + 1
                 hi == n + k
      <4>1. lo \in Int /\ hi \in Int /\ B = lo .. hi
        BY <1>2
      <4> HIDE DEF lo, hi
      <4>2. Cardinality(lo .. hi) = IF lo > hi THEN 0 ELSE hi - lo + 1
        BY <4>1, FS_Interval
      <4> QED BY <1>2, <4>1, <4>2 DEF lo, hi
    <3> HIDE DEF A, B, X
    <3>3. Cardinality(A \cup B) = Cardinality(A) + Cardinality(B) - Cardinality(A \cap B)
      BY <2>2, FS_Union, Zenon
    <3>4. Cardinality(X) = Cardinality(A) + Cardinality(B) - Cardinality({})
      BY <3>1, <3>3, Zenon
    <3>5. Cardinality({}) = 0
      BY FS_EmptySet
    <3>6. d[x] = c[x] + k
      BY <2>3
    <3>7. d[x] = Cardinality(X)
      BY <2>1, <3>2, <3>4, <3>5, <3>6
    <3> QED BY <3>7 DEF X
  <2>4. CASE x # b
    <3>1. X = A
      BY <1>2, <1>3, <1>4, <1>5, <2>4
    <3>2. d[x] = c[x]
      BY <2>4
    <3> QED BY <2>1, <3>1, <3>2
  <2> QED BY <2>3, <2>4
<1> HIDE DEF d
<1>8. Counts(t, d)
  BY <1>7 DEF Counts
<1>9. t = tt \o Repeated(b, k)
  BY DEF t, r
<1> QED
  BY <1>2, <1>6, <1>8, <1>9 DEF d, Recounted

\* A symbol leaves the head and the tables alone; it ends the block, fails or
\* is followed by the next.
SymbolDone ==
  /\ pc' \in {"peek"} \cup Outside /\ UNCHANGED <<head, code>>
  /\ SymType(sym') /\ (pc' = "peek" => SymAt(sym', head, "peek"))
  /\ UnrleOK(unrle', pc') /\ Space'

LEMMA SymbolDoneKeeps ==
  ASSUME DecodeInv, pc \in Coding, SymbolDone
  PROVE  Kept /\ Space'
<1> USE DEF Early, Outside, Ended, Selecting, Tabling, Coding
<1>1. HeadType(head) /\ HeadAt(head, pc) /\ CodeType(code, head) /\ CodeAt(code, head, pc)
  BY DEF DecodeInv, HeadOK, CodeOK
<1>2. HeadAt(head, pc') /\ CodeAt(code, head, pc')
  BY <1>1 DEF HeadAt, CodeAt, SymbolDone
<1>3. SymOK(sym', head, pc')
  BY Left DEF SymOK, SymbolDone
<1> QED
  BY <1>1, <1>2, <1>3 DEF Kept, Labels, HeadOK, CodeOK, SymbolDone

\* What is known of the records while symbols are decoded.
LEMMA InCoding ==
  ASSUME DecodeInv, pc \in Coding
  PROVE  /\ sym \in SymRecord /\ SymType(sym)
         /\ Len(sym.mtf) = Len(head.used) /\ ToSet(sym.mtf) = ToSet(head.used)
         /\ sym.sel = 0 \/ sym.sel < head.count
         /\ head.used \in Seq(AllBytes) /\ Len(head.used) > 0 /\ head.count \in Nat
         /\ sym.mtf[1] \in AllBytes
         /\ pc' \notin {"unrle", "overflow"} /\ UNCHANGED unrle => UnrleOK(unrle', pc') /\ Space'
<1>1. /\ sym \in SymRecord /\ SymType(sym)
      /\ Len(sym.mtf) = Len(head.used) /\ ToSet(sym.mtf) = ToSet(head.used)
      /\ sym.sel = 0 \/ sym.sel < head.count
  BY DEF DecodeInv, SymOK, SymType, SymAt
<1>2. head.used \in Seq(AllBytes) /\ Len(head.used) > 0 /\ head.count \in Nat
  BY DEF DecodeInv, HeadOK, HeadType, HeadRecord, HeadAt, Coding
<1>3. sym.mtf[1] \in AllBytes
  BY <1>1, <1>2 DEF SymRecord
<1>4. pc' \notin {"unrle", "overflow"} /\ UNCHANGED unrle => UnrleOK(unrle', pc') /\ Space'
  BY DEF DecodeInv, UnrleOK, Space, Coding
<1> QED
  BY <1>1, <1>2, <1>3, <1>4

LEMMA ProceedDone ==
  ASSUME DecodeInv, pc \in Coding, NEW new, SymType(new), new.sel = sym.sel,
         Len(new.mtf) = Len(head.used), ToSet(new.mtf) = ToSet(head.used),
         Proceed(new), UNCHANGED <<head, code, unrle>>
  PROVE  SymbolDone
<1> USE DEF Outside, Ended
<1>1. new \in SymRecord /\ sym \in SymRecord
  BY InCoding DEF SymType
<1>2. CASE sym.left > 1
  <2>1. sym' = [new EXCEPT !.left = @ - 1] /\ pc' = "peek"
    BY <1>2 DEF Proceed, Goto
  <2> DEFINE left == new.left - 1
  <2>2. sym' = [new EXCEPT !.left = left] /\ left \in Int
    BY <1>1, <2>1 DEF SymRecord
  <2> HIDE DEF left
  <2>3. /\ sym' \in SymRecord /\ sym'.tt = new.tt /\ sym'.c = new.c /\ sym'.mtf = new.mtf
        /\ sym'.sel = new.sel /\ sym'.node = new.node
    BY <1>1, <2>2 DEF SymRecord
  <2>4. SymType(sym')
    BY <2>3 DEF SymType
  <2>5. SymAt(sym', head, "peek")
    BY <2>3, InCoding DEF SymAt, Coding, Early, Selecting, Tabling
  <2> QED BY <2>1, <2>4, <2>5, InCoding DEF SymbolDone
<1>3. CASE ~(sym.left > 1)
  <2>1. /\ sym' = [new EXCEPT !.left = GroupSize, !.sel = @ + 1]
        /\ Fail \/ (sym.sel + 1 < head.count /\ pc' = "peek")
    <3>1. sym.sel \in Nat /\ head.count \in Nat
      BY <1>1, InCoding DEF SymRecord
    <3> QED BY <1>3, <3>1 DEF Proceed, Goto
  <2> DEFINE sel == sym.sel + 1
  <2>2. sym' = [new EXCEPT !.left = GroupSize, !.sel = sel] /\ sel \in Nat /\ GroupSize \in Int
    <3>1. sel \in Nat /\ sel = new.sel + 1
      BY <1>1 DEF SymRecord
    <3>2. GroupSize \in Int
      BY ConstantTypes
    <3> HIDE DEF sel
    <3> QED BY <1>1, <2>1, <3>1, <3>2 DEF SymRecord
  <2>3. Fail \/ (sel < head.count /\ pc' = "peek")
    BY <2>1
  <2> HIDE DEF sel
  <2>4. /\ sym' \in SymRecord /\ sym'.tt = new.tt /\ sym'.c = new.c /\ sym'.mtf = new.mtf
        /\ sym'.sel = sel /\ sym'.node = new.node
    BY <1>1, <2>2 DEF SymRecord
  <2>5. SymType(sym')
    BY <2>4 DEF SymType
  <2>6. pc' \in {"peek"} \cup Outside /\ pc' \notin {"unrle", "overflow"} /\ (pc' = "peek" => sel < head.count)
    BY <2>3, FailIsOutside
  <2>7. pc' = "peek" => SymAt(sym', head, "peek")
    BY <2>4, <2>6 DEF SymAt, Coding, Early, Selecting, Tabling
  <2> QED BY <2>5, <2>6, <2>7, InCoding DEF SymbolDone
<1> QED
  BY <1>2, <1>3

LEMMA RunDone ==
  ASSUME DecodeInv, pc \in Coding, NEW s, RunSymbol(s), UNCHANGED <<head, code, unrle>>
  PROVE  SymbolDone
<1> DEFINE power == IF sym.repeat = 0 THEN 1 ELSE sym.power
           repeat == sym.repeat + (IF s = 0 THEN power ELSE 2 * power)
           double == 2 * power
           new == [sym EXCEPT !.repeat = repeat, !.power = double]
<1>1. sym \in SymRecord /\ SymType(sym)
  BY InCoding
<1>2. repeat \in Nat /\ double \in Nat
  <2>1. sym.repeat \in Nat /\ power \in Nat
    BY <1>1 DEF SymRecord
  <2> HIDE DEF power
  <2> QED BY <2>1
<1>3. (sym' = new /\ Fail) \/ Proceed(new)
  BY DEF RunSymbol
<1> HIDE DEF repeat, double
<1>4. /\ new \in SymRecord /\ new.tt = sym.tt /\ new.c = sym.c /\ new.mtf = sym.mtf
      /\ new.sel = sym.sel /\ new.node = sym.node
  BY <1>1, <1>2 DEF SymRecord
<1> HIDE DEF new
<1>5. SymType(new)
  BY <1>1, <1>4 DEF SymType
<1>6. CASE sym' = new /\ Fail
  BY <1>5, <1>6, FailIsOutside, InCoding DEF SymbolDone, Outside, Ended
<1>7. CASE Proceed(new)
  BY <1>4, <1>5, <1>7, InCoding, ProceedDone
<1> QED
  BY <1>3, <1>6, <1>7

\* The pending run is one that fits.
Fitting == sym.repeat = 0 \/ Len(sym.tt) + sym.repeat <= Blocksize

LEMMA FlushedIs ==
  ASSUME DecodeInv, pc \in Coding, Fitting
  PROVE  /\ Flushed \in SymRecord /\ SymType(Flushed)
         /\ Flushed.mtf = sym.mtf /\ Flushed.sel = sym.sel /\ Flushed.node = sym.node
<1> DEFINE b == sym.mtf[1]
           k == sym.repeat
           tt == sym.tt \o Repeated(b, k)
           c == [sym.c EXCEPT ![b] = @ + k]
<1>1. /\ sym \in SymRecord /\ SymType(sym) /\ b \in AllBytes
  BY InCoding
<1>2. k \in Nat /\ sym.tt \in Seq(AllBytes) /\ sym.c \in [AllBytes -> Nat] /\ Counts(sym.tt, sym.c)
  BY <1>1 DEF SymRecord, SymType
<1>3. tt \in Seq(AllBytes) /\ Len(tt) = Len(sym.tt) + k /\ c \in [AllBytes -> Nat] /\ Counts(tt, c)
  <2> DEFINE st == sym.tt
             sc == sym.c
  <2> HIDE DEF b, k, st, sc
  <2>1. Recounted(st, sc, b, k)
    BY <1>1, <1>2, CountsRepeated DEF st, sc
  <2> QED BY <2>1 DEF st, sc, Recounted
<1>4. Flushed = [sym EXCEPT !.tt = tt, !.repeat = 0, !.c = c]
  BY <1>1 DEF Flushed, Counted, SymRecord
<1>5. Len(tt) <= Blocksize
  <2>1. Len(sym.tt) <= Blocksize /\ Len(sym.tt) \in Nat
    BY <1>1, <1>2 DEF SymType
  <2> QED BY <1>2, <1>3, <2>1, ConstantTypes DEF Fitting
<1> HIDE DEF tt, c
<1>6. /\ Flushed \in SymRecord /\ Flushed.tt = tt /\ Flushed.c = c
      /\ Flushed.mtf = sym.mtf /\ Flushed.sel = sym.sel /\ Flushed.node = sym.node
  BY <1>1, <1>3, <1>4 DEF SymRecord
<1>7. SymType(Flushed)
  BY <1>1, <1>3, <1>5, <1>6 DEF SymType
<1> QED
  BY <1>6, <1>7

LEMMA LiteralDone ==
  ASSUME DecodeInv, pc \in Coding, Fitting, NEW s \in 2 .. Len(head.used), Literal(s),
         UNCHANGED <<head, code, unrle>>
  PROVE  SymbolDone
<1> DEFINE b == sym.mtf[s]
           tt == Append(Flushed.tt, b)
           c == [Flushed.c EXCEPT ![b] = @ + 1]
           mtf == MoveToFront(Flushed.mtf, s)
           new == [Flushed EXCEPT !.tt = tt, !.mtf = mtf, !.c = c]
<1>1. /\ Flushed \in SymRecord /\ SymType(Flushed)
      /\ Flushed.mtf = sym.mtf /\ Flushed.sel = sym.sel /\ Flushed.node = sym.node
  BY FlushedIs
<1>2. /\ sym \in SymRecord /\ Len(sym.mtf) = Len(head.used) /\ ToSet(sym.mtf) = ToSet(head.used)
      /\ sym.mtf \in Seq(AllBytes) /\ s \in 1 .. Len(sym.mtf) /\ b \in AllBytes
  <2>1. /\ sym \in SymRecord /\ Len(sym.mtf) = Len(head.used) /\ ToSet(sym.mtf) = ToSet(head.used)
    BY InCoding
  <2>2. sym.mtf \in Seq(AllBytes)
    BY <2>1 DEF SymRecord
  <2>3. s \in 1 .. Len(sym.mtf)
    BY <2>1
  <2> QED BY <2>1, <2>2, <2>3
<1>3. \/ sym' = Flushed /\ Fail
      \/ Len(Flushed.tt) < Blocksize /\ Proceed(new)
  <2>1. /\ Flushed.tt \in Seq(AllBytes) /\ Flushed.c \in [AllBytes -> Nat]
    BY <1>1 DEF SymRecord
  <2>2. new = [Flushed EXCEPT !.tt = Append(@, b), !.mtf = MoveToFront(@, s), !.c[b] = @ + 1]
    BY <1>1 DEF SymRecord
  <2>3. Len(Flushed.tt) \in Nat
    BY <2>1
  <2> HIDE DEF new
  <2> QED BY <2>2, <2>3, ConstantTypes DEF Literal
<1>4. CASE sym' = Flushed /\ Fail
  BY <1>1, <1>4, FailIsOutside, InCoding DEF SymbolDone, Outside, Ended
<1>5. CASE Len(Flushed.tt) < Blocksize /\ Proceed(new)
  <2> DEFINE ft == Flushed.tt
             fc == Flushed.c
  <2>1. ft \in Seq(AllBytes) /\ fc \in [AllBytes -> Nat] /\ Counts(ft, fc)
    BY <1>1 DEF SymRecord, SymType
  <2>2. Append(ft, b) = ft \o Repeated(b, 1)
    <3>1. Repeated(b, 1) = <<b>>
      BY DEF Repeated
    <3> HIDE DEF ft, b
    <3>2. Append(ft, b) = ft \o <<b>>
      BY <1>2, <2>1, AppendIsConcat
    <3> QED BY <3>1, <3>2
  <2>3. tt \in Seq(AllBytes) /\ Len(tt) = Len(ft) + 1 /\ c \in [AllBytes -> Nat] /\ Counts(tt, c)
    <3> HIDE DEF ft, fc, b
    <3>1. Recounted(ft, fc, b, 1)
      BY <1>2, <2>1, CountsRepeated
    <3> QED BY <2>2, <3>1 DEF ft, fc, Recounted
  <2>4. mtf \in Seq(AllBytes) /\ Len(mtf) = Len(head.used) /\ ToSet(mtf) = ToSet(head.used)
    <3>1. mtf = MoveToFront(sym.mtf, s)
      BY <1>1
    <3> HIDE DEF mtf
    <3> QED BY <1>2, <3>1, Moved, MovedSame
  <2>5. Len(tt) <= Blocksize
    BY <1>5, <2>1, <2>3, ConstantTypes
  <2> HIDE DEF tt, c, mtf
  <2>6. /\ new \in SymRecord /\ new.tt = tt /\ new.c = c /\ new.mtf = mtf
        /\ new.sel = Flushed.sel /\ new.node = Flushed.node
    BY <1>1, <2>3, <2>4 DEF SymRecord
  <2> HIDE DEF new
  <2>7. SymType(new)
    BY <1>1, <2>3, <2>5, <2>6 DEF SymType
  <2> QED BY <1>1, <1>5, <2>4, <2>6, <2>7, ProceedDone
<1> QED
  BY <1>3, <1>4, <1>5

\* The index that is read from a place with one successor is that successor.
LEMMA IndexIs ==
  ASSUME NEW i \in Nat
  PROVE  Index({i}) = i
<1>1. {i} \cup {0} = {i, 0}
  OBVIOUS
<1>2. Index({i}) = CHOOSE x \in {i, 0} : \A y \in {i, 0} : x >= y
  BY <1>1 DEF Index, Max
<1>3. \E x \in {i, 0} : \A y \in {i, 0} : x >= y
  OBVIOUS
<1> QED
  BY <1>2, <1>3

LEMMA FollowsLink ==
  ASSUME NEW links, LinksOK(links), NEW k \in 1 .. Len(links)
  PROVE  Index(links[k].next) \in 0 .. Len(links) - 1 /\ links[k].byte \in AllBytes
<1>1. PICK i \in 0 .. Len(links) - 1 : links[k].next = {i}
  BY DEF LinksOK
<1>2. i \in Nat
  BY DEF LinksOK
<1> QED
  BY <1>1, <1>2, IndexIs DEF LinksOK

LEMMA RoomIsNat == ASSUME NEW n \in Nat PROVE Room(n) \in Nat
<1>1. n + n \div 4 \in Nat /\ Blocksize + Blocksize \div 4 \in Nat
  BY ConstantTypes
<1> QED
  BY <1>1 DEF Room, Quarter

LEMMA EndDone ==
  ASSUME DecodeInv, pc \in Coding, Fitting, EndOfBlock, UNCHANGED <<head, code>>
  PROVE  SymbolDone
<1> DEFINE tt == Flushed.tt
           links == Links(Flushed.tt, Flushed.c)
           tPos == Index(links[head.orig + 1].next)
           cap == Room(Len(tt))
<1>1. Flushed \in SymRecord /\ SymType(Flushed)
  BY FlushedIs
<1>2. /\ sym' = Flushed
      /\ \/ Fail /\ UNCHANGED unrle
         \/ /\ head.orig < Len(tt) /\ pc' \in {"unrle", "panic"}
            /\ unrle' = [Unrle0 EXCEPT !.links = links, !.tPos = tPos, !.todo = Len(tt), !.cap = cap]
  <2>1. Len(tt) \in Nat /\ head.orig \in Nat
    BY <1>1 DEF SymRecord, DecodeInv, HeadOK, HeadType, HeadRecord
  <2> QED BY <2>1 DEF EndOfBlock, Goto
<1>3. CASE Fail /\ UNCHANGED unrle
  BY <1>1, <1>2, <1>3, FailIsOutside, InCoding DEF SymbolDone, Outside, Ended
<1>4. CASE /\ head.orig < Len(tt) /\ pc' \in {"unrle", "panic"}
           /\ unrle' = [Unrle0 EXCEPT !.links = links, !.tPos = tPos, !.todo = Len(tt), !.cap = cap]
  <2>1. tt \in Seq(AllBytes) /\ Counts(tt, Flushed.c) /\ Len(tt) \in Nat
    BY <1>1 DEF SymRecord, SymType
  <2>2. LinksOK(links) /\ Len(links) = Len(tt)
    <3> DEFINE fc == Flushed.c
    <3> HIDE DEF tt, fc
    <3>1. LinksOK(Links(tt, fc)) /\ Len(Links(tt, fc)) = Len(tt)
      BY <2>1, LinksArePermutation DEF fc
    <3> QED BY <3>1 DEF tt, fc
  <2>3. head.orig + 1 \in 1 .. Len(links)
    BY <1>4, <2>1, <2>2 DEF DecodeInv, HeadOK, HeadType, HeadRecord
  <2> HIDE DEF links
  <2>4. tPos \in 0 .. Len(links) - 1
    BY <2>2, <2>3, FollowsLink
  <2>5. cap \in Nat
    <3> HIDE DEF tt
    <3> QED BY <2>1, RoomIsNat
  <2> HIDE DEF tPos, cap
  <2>6. /\ DOMAIN unrle' = DOMAIN Unrle0 /\ unrle'.links = links /\ unrle'.tPos = tPos
        /\ unrle'.cap = cap /\ unrle'.out = <<>> /\ unrle'.repeats = 0 /\ unrle'.last = -1
    BY <1>4 DEF Unrle0
  <2>7. UnrleOK(unrle', pc')
    <3>1. <<>> \in Seq(AllBytes)
      OBVIOUS
    <3> QED BY <2>2, <2>4, <2>5, <2>6, <3>1 DEF UnrleOK
  <2>8. Space'
    BY <1>4, <2>5, <2>6 DEF Space
  <2> QED BY <1>1, <1>2, <1>4, <2>7, <2>8 DEF SymbolDone, Outside, Ended
<1> QED
  BY <1>2, <1>3, <1>4

LEMMA SymbolKeeps ==
  ASSUME DecodeInv, pc \in Coding, NEW s \in 0 .. EobOf(head), Symbol(s)
  PROVE  Kept /\ Space'
<1>1. UNCHANGED <<head, code>>
  BY DEF Symbol
<1>2. /\ sym.repeat \in Nat /\ Len(sym.tt) \in Nat /\ Eob = EobOf(head)
      /\ EobOf(head) = Len(head.used) + 1 /\ Len(head.used) \in Nat
  BY InCoding, TreeIsThere DEF SymRecord, EobOf
<1>3. CASE s \in {0, 1}
  BY <1>1, <1>3, RunDone, SymbolDoneKeeps DEF Symbol
<1>4. CASE s \notin {0, 1} /\ sym.repeat > 0 /\ Len(sym.tt) + sym.repeat > Blocksize
  <2>1. Fail /\ UNCHANGED <<sym, unrle>>
    BY <1>4 DEF Symbol
  <2>2. SymbolDone
    BY <1>1, <2>1, FailIsOutside, InCoding DEF SymbolDone, Outside, Ended
  <2> QED BY <2>2, SymbolDoneKeeps
<1>5. CASE s \notin {0, 1} /\ ~(sym.repeat > 0 /\ Len(sym.tt) + sym.repeat > Blocksize)
  <2>1. Fitting
    BY <1>2, <1>5, ConstantTypes DEF Fitting
  <2>2. CASE s = Eob
    <3>1. EndOfBlock
      BY <1>5, <2>2 DEF Symbol
    <3> QED BY <1>1, <2>1, <3>1, EndDone, SymbolDoneKeeps
  <2>3. CASE s # Eob
    <3>1. Literal(s) /\ UNCHANGED unrle
      BY <1>5, <2>3 DEF Symbol
    <3>2. s \in 2 .. Len(head.used)
      BY <1>2, <1>5, <2>3
    <3> QED BY <1>1, <2>1, <3>1, <3>2, LiteralDone, SymbolDoneKeeps
  <2> QED BY <2>2, <2>3
<1> QED
  BY <1>3, <1>4, <1>5

LEMMA FastKeeps ==
  ASSUME DecodeInv, FastSymbol
  PROVE  Kept /\ Space'
<1>1. pc = "entry" /\ pc \in Coding
  BY DEF FastSymbol, Coding
<1>2. PICK s \in Entry : Symbol(s)
  BY DEF FastSymbol
<1>3. s \in 0 .. EobOf(head)
  <2>1. s \in FastEntry(Tree, Number(answer))
    BY <1>2 DEF Entry
  <2> QED BY <1>1, <2>1, TreeIsThere, EntriesAreSymbols
<1> QED
  BY <1>1, <1>2, <1>3, SymbolKeeps

LEMMA WalkKeeps ==
  ASSUME DecodeInv, WalkBit
  PROVE  Kept /\ Space'
<1> DEFINE path == Append(sym.node, Number(answer'))
           node == IF path \in Inner(Tree) THEN path ELSE <<>>
<1>1. pc = "walk" /\ pc \in Coding
  BY DEF WalkBit, Read, Coding
<1>2. Number(answer') \in Nat
  BY ReadIsNumber DEF WalkBit, Fields
<1>3. CASE \E s \in LeafAt(Tree, path) : Symbol(s)
  <2>1. PICK s \in LeafAt(Tree, path) : Symbol(s)
    BY <1>3
  <2>2. s \in 0 .. EobOf(head)
    BY <1>1, <2>1, TreeIsThere, EntriesAreSymbols
  <2> QED BY <1>1, <2>1, <2>2, SymbolKeeps
<1>4. CASE /\ sym' = [sym EXCEPT !.node = node] /\ pc' = "walk"
           /\ UNCHANGED <<head, code, unrle>>
  <2>1. sym \in SymRecord /\ SymType(sym) /\ SymAt(sym, head, pc)
    BY <1>1, InCoding DEF DecodeInv, SymOK
  <2>2. path \in Seq(Nat)
    BY <1>2, <2>1 DEF SymRecord
  <2>3. node \in Seq(Nat) /\ Len(node) < 20
    <3>1. CASE path \in Inner(Tree)
      <4> HIDE DEF path
      <4>1. Len(path) < 20
        BY <1>1, <3>1, TreeIsThere, InnerIsShort
      <4> QED BY <2>2, <3>1, <4>1
    <3>2. CASE path \notin Inner(Tree)
      BY <3>2
    <3> QED BY <3>1, <3>2
  <2> HIDE DEF node
  <2>4. /\ sym' \in SymRecord /\ sym'.tt = sym.tt /\ sym'.c = sym.c /\ sym'.mtf = sym.mtf
        /\ sym'.sel = sym.sel /\ sym'.node = node
    BY <1>4, <2>1, <2>3 DEF SymRecord
  <2>5. SymType(sym')
    BY <2>1, <2>3, <2>4 DEF SymType
  <2>6. SymAt(sym', head, pc')
    BY <1>1, <1>4, <2>1, <2>4 DEF SymAt
  <2>7. HeadOK(head, pc') /\ CodeOK(code, head, pc')
    BY <1>1, <1>4 DEF DecodeInv
  <2>8. UnrleOK(unrle', pc') /\ Space'
    BY <1>1, <1>4, InCoding
  <2> QED BY <1>1, <1>4, <2>5, <2>6, <2>7, <2>8 DEF Kept, SymOK, DecodeInv
<1> QED
  BY <1>3, <1>4 DEF WalkBit, Goto

\* Peeking, and taking the tree instead of the table.
LEMMA PeekKeeps ==
  ASSUME DecodeInv, PeekSymbol \/ SlowSymbol
  PROVE  Kept
<1> USE DEF Early, Outside, Ended, Selecting, Tabling, Coding
<1>1. /\ pc \in Coding /\ pc' \in {"entry", "walk"} /\ UNCHANGED <<head, code, unrle>>
      /\ UNCHANGED sym \/ sym' = [sym EXCEPT !.node = <<>>]
  BY DEF PeekSymbol, SlowSymbol, Goto, coreVars
<1>2. /\ HeadType(head) /\ HeadAt(head, pc) /\ CodeType(code, head) /\ CodeAt(code, head, pc)
      /\ sym \in SymRecord /\ SymType(sym) /\ SymAt(sym, head, pc)
  BY <1>1, InCoding DEF DecodeInv, SymOK, HeadOK, CodeOK
<1>3. HeadAt(head, pc') /\ CodeAt(code, head, pc')
  BY <1>1, <1>2 DEF HeadAt, CodeAt
<1>4. SymType(sym') /\ SymAt(sym', head, pc')
  <2>1. CASE UNCHANGED sym
    BY <1>1, <1>2, <2>1 DEF SymAt
  <2>2. CASE sym' = [sym EXCEPT !.node = <<>>]
    <3>1. <<>> \in Seq(Nat) /\ Len(<<>>) < 20
      OBVIOUS
    <3>2. /\ sym' \in SymRecord /\ sym'.tt = sym.tt /\ sym'.c = sym.c /\ sym'.mtf = sym.mtf
          /\ sym'.sel = sym.sel /\ sym'.node = <<>>
      BY <1>2, <2>2, <3>1 DEF SymRecord
    <3>3. SymType(sym')
      BY <1>2, <3>1, <3>2 DEF SymType
    <3> QED BY <1>1, <1>2, <3>2, <3>3 DEF SymAt
  <2> QED BY <1>1, <2>1, <2>2
<1>5. UnrleOK(unrle', pc')
  BY <1>1, InCoding
<1> QED
  BY <1>1, <1>2, <1>3, <1>4, <1>5 DEF Kept, Labels, HeadOK, CodeOK, SymOK

-----------------------------------------------------------------------------
(* Between blocks, and the output of a block                               *)

\* Leaving a block, or going on outside one.
LEMMA OutsideKeeps ==
  ASSUME DecodeInv, UNCHANGED <<head, code, sym>>, pc' \in Outside, UnrleOK(unrle', pc')
  PROVE  Kept
BY Left DEF Kept, DecodeInv, HeadOK, CodeOK, SymOK, Labels

LEMMA LoopKeeps ==
  ASSUME DecodeInv,
         NextBlock \/ ReadStreamCrc \/ SkipPad \/ ReadHeader \/ FinishBlock \/ Truncated
  PROVE  Kept
<1>1. UNCHANGED <<head, code, sym, unrle>> /\ pc' \in Outside /\ pc' # "unrle"
  BY FailIsOutside
  DEF NextBlock, ReadStreamCrc, SkipPad, ReadHeader, FinishBlock, Truncated, Goto, coreVars,
      Outside, Ended
<1>2. UnrleOK(unrle', pc')
  BY <1>1 DEF DecodeInv, UnrleOK
<1> QED
  BY <1>1, <1>2, OutsideKeeps

LEMMA RunLength ==
  ASSUME NEW out \in Seq(AllBytes), NEW last \in AllBytes, NEW b \in Nat
  PROVE  out \o Repeated(last, b) \in Seq(AllBytes) /\ Len(out \o Repeated(last, b)) = Len(out) + b
<1> DEFINE r == Repeated(last, b)
<1>1. r \in Seq(AllBytes) /\ Len(r) = b
  BY DEF Repeated
<1> HIDE DEF r
<1>2. out \o r \in Seq(AllBytes) /\ Len(out \o r) = Len(out) + Len(r)
  BY <1>1, ConcatProperties
<1> QED
  BY <1>1, <1>2 DEF r

\* A Vec that is asked for room has it.
LEMMA CapacityFits ==
  ASSUME NEW len \in Nat, unrle.cap \in Nat,
         NEW cap \in IF len > unrle.cap THEN Reserved(len) ELSE {unrle.cap}
  PROVE  cap \in Nat /\ ~(len > cap)
<1>1. CASE ~(len > unrle.cap)
  BY <1>1
<1>2. CASE len > unrle.cap
  <2> DEFINE d == 2 * unrle.cap
  <2>1. d \in Nat
    OBVIOUS
  <2>2. cap = len \/ cap = Max({len, d})
    BY <1>2 DEF Reserved
  <2> HIDE DEF d
  <2>3. Max({len, d}) = CHOOSE x \in {len, d} : \A y \in {len, d} : x >= y
    BY DEF Max
  <2>4. \E x \in {len, d} : \A y \in {len, d} : x >= y
    BY <2>1
  <2>5. Max({len, d}) \in Nat /\ len <= Max({len, d})
    BY <2>1, <2>3, <2>4
  <2> QED BY <2>2, <2>5
<1> QED
  BY <1>1, <1>2

\* A byte of a run or a plain one: the next place is one of the block.
LEMMA OutputKeeps ==
  ASSUME DecodeInv, OutputByte
  PROVE  Kept /\ Space'
<1> DEFINE entry == unrle.links[unrle.tPos + 1]
           b == entry.byte
           next == Index(entry.next)
<1>1. /\ pc = "unrle" /\ UNCHANGED <<head, code, sym>>
      /\ \/ unrle.repeats = 3 /\ Run(b, next)
         \/ unrle.repeats # 3 /\ Plain(b, next)
  BY DEF OutputByte
<1>2. /\ DOMAIN unrle = {"links", "tPos", "todo", "last", "repeats", "cap", "out"}
      /\ unrle.repeats \in 0 .. 3 /\ unrle.last \in AllBytes \cup {-1}
      /\ unrle.repeats > 0 => unrle.last \in AllBytes
      /\ unrle.cap \in Nat /\ unrle.out \in Seq(AllBytes) /\ Len(unrle.out) <= unrle.cap
      /\ LinksOK(unrle.links) /\ unrle.tPos \in 0 .. Len(unrle.links) - 1
  BY <1>1 DEF DecodeInv, UnrleOK, Unrle0, Space
<1>3. next \in 0 .. Len(unrle.links) - 1 /\ b \in AllBytes
  <2>1. unrle.tPos + 1 \in 1 .. Len(unrle.links)
    BY <1>2 DEF LinksOK
  <2> QED BY <1>2, <2>1, FollowsLink
<1> HIDE DEF entry, next, b
<1>4. CASE UNCHANGED unrle /\ pc' = "panic"
  BY <1>1, <1>2, <1>4, OutsideKeeps DEF Outside, Ended, UnrleOK, Unrle0, Space
<1> DEFINE Written(out, cap, last, repeats) ==
             unrle' = [unrle EXCEPT !.out = out, !.cap = cap, !.tPos = next, !.todo = @ - 1,
                                    !.last = last, !.repeats = repeats]
<1>5. ASSUME NEW out \in Seq(AllBytes), NEW cap \in Nat,
             NEW last \in AllBytes \cup {-1}, NEW repeats \in 0 .. 3,
             repeats > 0 => last \in AllBytes, pc' \in {"unrle", "overflow"},
             pc' = "overflow" <=> Len(out) > cap, Written(out, cap, last, repeats)
      PROVE  Kept /\ Space'
  <2>1. /\ DOMAIN unrle' = DOMAIN Unrle0 /\ unrle'.out = out /\ unrle'.cap = cap /\ unrle'.tPos = next
        /\ unrle'.last = last /\ unrle'.repeats = repeats /\ unrle'.links = unrle.links
    BY <1>2, <1>5 DEF Unrle0
  <2>2. UnrleOK(unrle', pc')
    BY <1>2, <1>3, <1>5, <2>1 DEF UnrleOK
  <2>3. Space'
    BY <1>5, <2>1 DEF Space
  <2> QED BY <1>1, <1>5, <2>2, <2>3, OutsideKeeps DEF Outside, Ended
<1>6. CASE unrle.repeats = 3 /\ Run(b, next)
  <2> DEFINE len == Len(unrle.out) + b
             out == unrle.out \o Repeated(unrle.last, b)
  <2>1. b \in Nat /\ len \in Nat
    BY <1>2, <1>3, ConstantTypes
  <2>2. unrle.last \in AllBytes
    BY <1>2, <1>6
  <2>3. out \in Seq(AllBytes) /\ Len(out) = len
    BY <1>2, <2>1, <2>2, RunLength
  <2>4. CASE UNCHANGED unrle /\ pc' = "panic"
    BY <1>4, <2>4
  <2>5. CASE ~(UNCHANGED unrle /\ pc' = "panic")
    <3>1. PICK cap \in IF len > unrle.cap THEN Reserved(len) ELSE {unrle.cap} :
            /\ pc' = "unrle"
            /\ unrle' = [unrle EXCEPT !.out = @ \o Repeated(unrle.last, b), !.cap = cap,
                           !.tPos = next, !.todo = @ - 1, !.last = -1, !.repeats = 0]
      BY <1>6, <2>5 DEF Run, Goto
    <3>2. cap \in Nat /\ ~(Len(out) > cap)
      BY <1>2, <2>1, <2>3, <3>1, CapacityFits
    <3>3. Written(out, cap, -1, 0)
      BY <1>2, <3>1
    <3>4. -1 \in AllBytes \cup {-1} /\ 0 \in 0 .. 3 /\ ~(0 > 0)
      OBVIOUS
    <3> HIDE DEF out, Written
    <3> QED BY <1>5, <2>3, <3>1, <3>2, <3>3, <3>4
  <2> QED BY <2>4, <2>5
<1>7. CASE unrle.repeats # 3 /\ Plain(b, next)
  <2> DEFINE out == Append(unrle.out, b)
             repeats == IF unrle.last = b THEN unrle.repeats + 1 ELSE 0
             cap == unrle.cap
  <2>1. CASE UNCHANGED unrle /\ pc' = "panic"
    BY <1>4, <2>1
  <2>2. CASE ~(UNCHANGED unrle /\ pc' = "panic")
    <3>1. /\ pc' = IF Len(unrle.out) >= cap THEN "overflow" ELSE "unrle"
          /\ unrle' = [unrle EXCEPT !.out = Append(@, b), !.tPos = next, !.todo = @ - 1, !.last = b,
                         !.repeats = IF unrle.last = b THEN @ + 1 ELSE 0]
      BY <1>7, <2>2 DEF Plain, Goto
    <3>2. /\ out \in Seq(AllBytes) /\ cap \in Nat /\ b \in AllBytes \cup {-1}
          /\ pc' \in {"unrle", "overflow"} /\ (pc' = "overflow" <=> Len(out) > cap)
      BY <1>2, <1>3, <3>1
    <3>3. repeats \in 0 .. 3
      BY <1>2, <1>7
    <3>4. Written(out, cap, b, repeats)
      BY <1>2, <3>1
    <3> HIDE DEF out, repeats, Written, cap
    <3> QED BY <1>3, <1>5, <3>2, <3>3, <3>4
  <2> QED BY <2>1, <2>2
<1> QED
  BY <1>1, <1>6, <1>7

-----------------------------------------------------------------------------
(* The buffer of the output                                                *)

\* Nothing is written behind a buffer but by the last decoding.
LEMMA SpaceKeeps ==
  ASSUME DecodeInv, Step
  PROVE  Space'
<1> USE DEF Space
<1>1. CASE OutputByte \/ FastSymbol \/ WalkBit
  BY <1>1, OutputKeeps, FastKeeps, WalkKeeps
<1>2. CASE \/ NextBlock \/ ReadMagic \/ ReadStreamCrc \/ SkipPad \/ ReadHeader \/ ReadCrc
           \/ ReadRandomised \/ ReadOrigin \/ ReadRange \/ ReadBitmap \/ PeekSymbol \/ SlowSymbol
           \/ FinishBlock
  <2>1. pc # "overflow" /\ pc' # "overflow" /\ UNCHANGED unrle
    BY <1>2, FailIsOutside
    DEF NextBlock, ReadMagic, ReadStreamCrc, SkipPad, ReadHeader, ReadCrc, ReadRandomised, ReadOrigin,
        ReadRange, ReadBitmap, PeekSymbol, SlowSymbol, FinishBlock, Read, Goto, coreVars
  <2> QED BY <2>1 DEF DecodeInv
<1>3. CASE \/ ReadGroups \/ ReadSelectorCount \/ ReadSelector \/ ReadStart \/ ReadAdjust
           \/ ReadDirection \/ Truncated
  <2>1. pc # "overflow" /\ pc' # "overflow" /\ UNCHANGED unrle
    BY <1>3, FailIsOutside
    DEF ReadGroups, ReadSelectorCount, ReadSelector, ReadStart, ReadAdjust, ReadDirection, Truncated,
        CheckLength, Read, Goto, coreVars, Fields
  <2> QED BY <2>1 DEF DecodeInv
<1> QED
  BY <1>1, <1>2, <1>3 DEF Step

-----------------------------------------------------------------------------
(* The reader                                                              *)

\* Every call of the reader is one that it allows: no code in the table is
\* longer than the bits that were peeked at.
LEMMA ReaderKeeps ==
  ASSUME DecodeInv, Step
  PROVE  ReaderInv'
<1>1. CASE \E n \in 1 .. 57 : ReadBits(n)
  BY <1>1, ReadStep DEF DecodeInv
<1>2. CASE UNCHANGED readerVars
  BY <1>2 DEF DecodeInv, ReaderInv, readerVars
<1>3. CASE \E f \in DOMAIN Fields : Read(f)
  BY <1>1, <1>3, ReadIsNumber
<1>4. CASE SkipPad
  <2> DEFINE pad == (8 - (Position(reader) % 8)) % 8
  <2>1. CASE Skip(pad) /\ pad > 0
    <3>1. Position(reader) \in Int
      BY DEF DecodeInv, ReaderInv, Good, Position
    <3>2. pad \in 0 .. 7
      <4> DEFINE p == Position(reader)
      <4> HIDE DEF p
      <4>1. (8 - (p % 8)) % 8 \in 0 .. 7
        BY <3>1 DEF p
      <4> QED BY <4>1 DEF p
    <3> HIDE DEF pad
    <3>3. pad \in 1 .. 63
      BY <2>1, <3>2
    <3> QED BY <2>1, <3>3, SkipStep DEF DecodeInv
  <2> QED BY <1>2, <1>4, <2>1 DEF SkipPad
<1>5. CASE PeekSymbol
  <2>1. FastBits \in 1 .. 56
    BY BlockAssumption, HuffmanAssumption, CountsAssumption
  <2> QED BY <1>5, <2>1, PeekStep DEF PeekSymbol, DecodeInv
<1>6. CASE FastSymbol
  <2>1. PICK s \in Entry : Consume(Tree[s])
    BY <1>6 DEF FastSymbol
  <2>2. pc \in Coding
    BY <1>6 DEF FastSymbol, Coding
  <2>3. Tree[s] \in 1 .. FastBits
    <3>1. s \in FastEntry(Tree, Number(answer))
      BY <2>1 DEF Entry
    <3> QED BY <2>2, <3>1, TreeIsThere, EntriesAreShort
  <2>4. 1 .. FastBits \subseteq PeekCounts /\ PeekCounts \subseteq 1 .. 56
    BY BlockAssumption, CountsAssumption
  <2>5. Tree[s] \in 1 .. 56
    BY <2>3, <2>4
  <2> QED BY <2>1, <2>5, ConsumeStep DEF DecodeInv
<1>7. CASE Truncated
  <2>1. \A f \in DOMAIN Fields : Fields[f] \in 1 .. 57
    BY DEF Fields
  <2> QED BY <1>1, <1>7, <2>1 DEF Truncated
<1>8. CASE NextBlock \/ SlowSymbol \/ OutputByte \/ FinishBlock
  BY <1>2, <1>8 DEF NextBlock, SlowSymbol, OutputByte, FinishBlock
<1>9. CASE ReadMagic \/ ReadStreamCrc \/ ReadHeader \/ ReadCrc \/ ReadRandomised \/ ReadOrigin \/ ReadRange
  BY <1>3, <1>9
  DEF ReadMagic, ReadStreamCrc, ReadHeader, ReadCrc, ReadRandomised, ReadOrigin, ReadRange, Fields
<1>10. CASE \/ ReadBitmap \/ ReadGroups \/ ReadSelectorCount \/ ReadSelector \/ ReadStart \/ ReadAdjust
            \/ ReadDirection \/ WalkBit
  BY <1>3, <1>10
  DEF ReadBitmap, ReadGroups, ReadSelectorCount, ReadSelector, ReadStart, ReadAdjust, ReadDirection,
      WalkBit, Fields
<1> QED
  BY <1>4, <1>5, <1>6, <1>7, <1>8, <1>9, <1>10 DEF Step

LEMMA DecodeInit == Init => DecodeInv
<1> SUFFICES ASSUME Init PROVE DecodeInv
  OBVIOUS
<1>1. ReaderInv
  <2>1. Size(file) \in Nat /\ file.start \in 0 .. 8 * Size(file)
    <3>1. file \in Inputs
      BY DEF Init
    <3>2. Len(file.bits) \in Nat /\ file.start \in 0 .. 8 * Size(file)
      BY <3>1, InputsAssumption
    <3>3. Len(file.bits) \div 8 \in Nat
      <4> DEFINE n == Len(file.bits)
      <4>1. n \in Nat
        BY <3>2
      <4> HIDE DEF n
      <4>2. n \div 8 \in Nat
        BY <4>1
      <4> QED BY <4>2 DEF n
    <3> QED BY <3>2, <3>3 DEF Size
  <2> QED BY <2>1, FromGood DEF Init, ReaderInv
<1>2. pc \in {"magic", "crc"} /\ pc \in Early \cup Outside /\ pc \in Labels /\ pc # "unrle"
  BY DEF Init, Early, Outside, Labels
<1>3. HeadOK(head, pc) /\ CodeOK(code, head, pc) /\ SymOK(sym, head, pc)
  BY <1>2, Fresh DEF Init
<1>4. UnrleOK(unrle, pc) /\ Space
  <2>1. Len(<<>>) = 0 /\ ~(0 > 0) /\ <<>> \in Seq(AllBytes)
    OBVIOUS
  <2> QED BY <1>2, <2>1 DEF Init, UnrleOK, Unrle0, Space
<1> QED
  BY <1>1, <1>2, <1>3, <1>4 DEF DecodeInv

LEMMA DecodeStep == DecodeInv /\ [Next]_vars => DecodeInv'
<1> SUFFICES ASSUME DecodeInv, [Next]_vars PROVE DecodeInv'
  OBVIOUS
<1>1. CASE UNCHANGED vars
  BY <1>1 DEF vars, coreVars, readerVars, DecodeInv, ReaderInv, Space
<1>2. CASE Step
  <2>1. ReaderInv' /\ Space'
    BY <1>2, ReaderKeeps, SpaceKeeps
  <2>2. Kept
    BY <1>2, LoopKeeps, MagicKeeps, CrcKeeps, OriginKeeps, RangeKeeps, BitmapKeeps, GroupsKeeps,
       SelectorCountKeeps, SelectorKeeps, StartKeeps, AdjustKeeps, DirectionKeeps, PeekKeeps,
       FastKeeps, WalkKeeps, OutputKeeps
    DEF Step
  <2> QED BY <2>1, <2>2 DEF DecodeInv, Kept
<1> QED
  BY <1>1, <1>2 DEF Next, Finished

\* The records stay well formed for all files: every selector is of a table
\* that exists, tt stays within its buffer, the output too unless pc says that
\* a Vec was written behind its end, no walk of a tree goes deeper than its
\* longest code.
THEOREM DecodeTypeCorrect == SafeSpec => []DecodeTypeOK
<1>1. DecodeInv => DecodeTypeOK
  <2> SUFFICES ASSUME DecodeInv PROVE DecodeTypeOK
    OBVIOUS
  <2>1. pc \in DOMAIN Fields \cup Ended \cup {"next", "pad", "peek", "entry", "unrle"}
    BY DEF DecodeInv, Labels, Early, Selecting, Tabling, Coding, Outside, Fields, Ended
  <2>2. reader.at \in 0 .. reader.size /\ reader.bits \in 0 .. 64
    BY DEF DecodeInv, ReaderInv, Good
  <2>3. /\ head.used \in Seq(AllBytes) /\ IsInjective(head.used)
        /\ \A i \in DOMAIN head.selectors : head.selectors[i] < head.groups
    BY DEF DecodeInv, HeadOK, HeadType, HeadRecord
  <2>4. pc \in {"peek", "entry", "walk"} =>
          /\ Len(code.trees) = head.groups
          /\ ToSet(sym.mtf) = ToSet(head.used) /\ Len(sym.mtf) = Len(head.used)
    BY DEF DecodeInv, CodeOK, CodeAt, SymOK, SymAt, Coding
  <2>5. sym.tt \in Seq(AllBytes) /\ Len(sym.tt) <= Blocksize /\ Len(sym.node) < 20
    BY DEF DecodeInv, SymOK, SymType, SymRecord
  <2>6. unrle.repeats \in 0 .. 3 /\ (pc = "overflow" <=> Len(unrle.out) > unrle.cap)
    BY DEF DecodeInv, UnrleOK, Space
  <2> QED BY <2>1, <2>2, <2>3, <2>4, <2>5, <2>6 DEF DecodeTypeOK
<1> QED
  BY <1>1, DecodeInit, DecodeStep, PTL DEF SafeSpec

\* Whatever the data were, the last decoding stays in tt: the links that
\* inverse_bwt leaves are a permutation, so that following them reads no place
\* outside of the block.
THEOREM NoPointerLeaves == SafeSpec => []PointersInRange
<1>1. DecodeInv => PointersInRange
  <2> SUFFICES ASSUME DecodeInv, pc = "unrle"
               PROVE  /\ unrle.tPos \in 0 .. Len(unrle.links) - 1
                      /\ \A k \in DOMAIN unrle.links : Cardinality(unrle.links[k].next) = 1
                      /\ Placed(unrle.links)
    BY DEF PointersInRange
  <2>1. LinksOK(unrle.links) /\ unrle.tPos \in 0 .. Len(unrle.links) - 1
    BY DEF DecodeInv, UnrleOK
  <2>2. ASSUME NEW k \in DOMAIN unrle.links PROVE Cardinality(unrle.links[k].next) = 1
    <3>1. PICK i \in 0 .. Len(unrle.links) - 1 : unrle.links[k].next = {i}
      BY <2>1 DEF LinksOK
    <3> QED BY <3>1, FS_Singleton
  <2> QED BY <2>1, <2>2 DEF LinksOK
<1> QED
  BY <1>1, DecodeInit, DecodeStep, PTL DEF SafeSpec

\* For a table of any width: whatever the lengths of the codes, the filling of
\* the fast table leaves it exactly where the short codes take more than there
\* is; and for all lengths a prefix code can have, the table tells of every
\* FastBits bits what the walk of the tree tells, and the walk along the code of
\* a symbol ends at the leaf of this symbol and no other.
THEOREM TablesAgree == SafeSpec => []TablesDecode
<1>1. DecodeInv => TablesDecode
  <2> SUFFICES ASSUME DecodeInv, NEW i \in DOMAIN code.trees
               PROVE  LET lengths == code.trees[i] IN
                      /\ PastTable(lengths) <=> Fills(lengths, Short(lengths)) > Pow2[20]
                      /\ Kraft(lengths) =>
                           /\ FastIsWalk(lengths)
                           /\ \A s \in Used(lengths) : LeafAt(lengths, Path(lengths, s)) = {s}
    BY DEF TablesDecode
  <2> DEFINE lengths == code.trees[i]
  <2>1. EobOf(head) \in Nat
    BY DEF DecodeInv, HeadOK, HeadType, HeadRecord, EobOf
  <2>2. lengths \in [0 .. EobOf(head) -> 1 .. 20]
    BY DEF DecodeInv, CodeOK, CodeType
  <2> HIDE DEF lengths
  <2>3. PastTable(lengths) <=> Fills(lengths, Short(lengths)) > Pow2[20]
    BY <2>1, <2>2, CodesInTable
  <2>4. Kraft(lengths) => FastIsWalk(lengths)
    BY <2>1, <2>2, TableIsTree
  <2>5. Kraft(lengths) => \A s \in Used(lengths) : LeafAt(lengths, Path(lengths, s)) = {s}
    BY <2>1, <2>2, PathLeads
  <2> QED BY <2>3, <2>4, <2>5 DEF lengths
<1> QED
  BY <1>1, DecodeInit, DecodeStep, PTL DEF SafeSpec
=============================================================================
