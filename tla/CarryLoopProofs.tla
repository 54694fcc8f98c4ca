-------------------------- MODULE CarryLoopProofs --------------------------
(***************************************************************************)
(* Theorems about main's loop for every file, number of workers, chunk and *)
(* headroom, wherever a file is cut off, and whatever fails to decode.     *)
(***************************************************************************)
EXTENDS CarryLoop, ScanLemmas

Ascends(s) == \A i, j \in DOMAIN s : i < j => s[i] < s[j]

-----------------------------------------------------------------------------
(* Ascending sequences, put together                                       *)

LEMMA SeqWidens ==
  ASSUME NEW S, NEW T, S \subseteq T, NEW s \in Seq(S)
  PROVE  s \in Seq(T)
<1>1. Len(s) \in Nat /\ s \in [1 .. Len(s) -> S]
  OBVIOUS
<1>2. s \in [1 .. Len(s) -> T]
  BY <1>1
<1> QED BY <1>1, <1>2

\* The elements of s are in front of those of t.
InFront(s, t) == \A x \in DOMAIN s : \A y \in DOMAIN t : s[x] < t[y]
MadeOf(s, t, u) ==
  \A p \in DOMAIN s : (\E x \in DOMAIN t : s[p] = t[x]) \/ (\E y \in DOMAIN u : s[p] = u[y])

LEMMA AscendsConcat ==
  ASSUME NEW S \in SUBSET Int, NEW s \in Seq(S), NEW t \in Seq(S), Ascends(s), Ascends(t), InFront(s, t)
  PROVE  s \o t \in Seq(S) /\ Ascends(s \o t) /\ MadeOf(s \o t, s, t)
<1> DEFINE L == Len(s)
           M == Len(t)
           st == s \o t
<1>1. /\ L \in Nat /\ M \in Nat /\ DOMAIN s = 1 .. L /\ DOMAIN t = 1 .. M
      /\ \A i \in 1 .. L : s[i] \in Int
      /\ \A i \in 1 .. M : t[i] \in Int
  <2>1. L \in Nat /\ M \in Nat /\ DOMAIN s = 1 .. L /\ DOMAIN t = 1 .. M
    OBVIOUS
  <2>2. (\A i \in 1 .. L : s[i] \in S) /\ (\A i \in 1 .. M : t[i] \in S)
    OBVIOUS
  <2> QED BY <2>1, <2>2
<1>2. /\ st \in Seq(S) /\ Len(st) = L + M
      /\ \A i \in 1 .. L + M : st[i] = IF i <= L THEN s[i] ELSE t[i - L]
  BY ConcatProperties
<1>3. DOMAIN st = 1 .. L + M
  BY <1>2
<1> HIDE DEF L, M, st
<1>4. ASSUME NEW i \in 1 .. L + M PROVE (i \in 1 .. L /\ st[i] = s[i]) \/ (i - L \in 1 .. M /\ st[i] = t[i - L])
  BY <1>1, <1>2
<1>5. ASSUME NEW i \in 1 .. L + M, NEW j \in 1 .. L + M, i < j PROVE st[i] < st[j]
  <2>1. CASE j <= L
    <3>1. i \in 1 .. L /\ j \in 1 .. L /\ st[i] = s[i] /\ st[j] = s[j]
      BY <1>1, <1>2, <1>5, <2>1
    <3> QED BY <1>1, <1>5, <3>1 DEF Ascends
  <2>2. CASE ~(j <= L) /\ i <= L
    <3>1. i \in 1 .. L /\ j - L \in 1 .. M /\ st[i] = s[i] /\ st[j] = t[j - L]
      BY <1>1, <1>2, <2>2
    <3> QED BY <1>1, <3>1 DEF InFront
  <2>3. CASE ~(j <= L) /\ ~(i <= L)
    <3>1. i - L \in 1 .. M /\ j - L \in 1 .. M /\ st[i] = t[i - L] /\ st[j] = t[j - L] /\ i - L < j - L
      BY <1>1, <1>2, <1>5, <2>3
    <3> QED BY <1>1, <3>1 DEF Ascends
  <2> QED BY <2>1, <2>2, <2>3
<1>6. Ascends(st)
  BY <1>3, <1>5 DEF Ascends
<1>7. MadeOf(st, s, t)
  BY <1>1, <1>3, <1>4 DEF MadeOf
<1> QED BY <1>2, <1>6, <1>7 DEF st

\* Sequences g[1] to g[k], each ascending and in front of the next ones.
InOrder(g, k) ==
  /\ \A i \in 1 .. k : Ascends(g[i])
  /\ \A i, j \in 1 .. k : i < j => InFront(g[i], g[j])
FromParts(s, g, k) == \A p \in DOMAIN s : \E i \in 1 .. k : \E x \in DOMAIN g[i] : s[p] = g[i][x]

LEMMA FlatAscends ==
  ASSUME NEW S \in SUBSET Int, NEW k \in Nat, NEW g \in [1 .. k -> Seq(S)], InOrder(g, k)
  PROVE  FlattenSeq(g) \in Seq(S) /\ Ascends(FlattenSeq(g)) /\ FromParts(FlattenSeq(g), g, k)
<1>1. FlattenSeq(g) \in Seq(S)
  BY FlatType
<1>2. CASE k = 0
  <2>1. FlattenSeq(g) = <<>>
    BY <1>2, FlatIs
  <2> QED BY <1>1, <2>1 DEF Ascends, FromParts
<1>3. CASE k # 0
  <2>1. PICK v \in [1 .. k -> Seq(S)] : IsFlat(v, g, k) /\ FlattenSeq(g) = v[k]
    BY <1>3, FlatIs
  <2> DEFINE P(h) == Ascends(v[h]) /\ FromParts(v[h], g, h)
             E == {e \in Nat : e + 1 \in 1 .. k => P(e + 1)}
  <2>2. 0 \in E
    <3>1. v[1] = g[1] /\ 1 \in 1 .. k
      BY <1>3, <2>1 DEF IsFlat
    <3>2. P(1)
      BY <3>1 DEF InOrder, FromParts
    <3> QED BY <3>2
  <2>3. ASSUME NEW e \in Nat, e \in E PROVE e + 1 \in E
    <3>1. CASE e + 1 + 1 \in 1 .. k
      <4> DEFINE h == e + 1
      <4>1. h \in 1 .. k /\ h + 1 \in 1 .. k /\ h \in Nat
        BY <3>1
      <4>2. P(h)
        BY <2>3, <4>1
      <4> HIDE DEF h
      <4>3. v[h + 1] = v[h] \o g[h + 1]
        <5>1. h + 1 # 1 /\ h + 1 - 1 = h
          BY <4>1
        <5>2. \A i \in 1 .. k : i # 1 => v[i] = v[i - 1] \o g[i]
          BY <2>1 DEF IsFlat
        <5> HIDE DEF P, E
        <5> DEFINE i == h + 1
        <5>3. i \in 1 .. k /\ i # 1 /\ i - 1 = h
          BY <4>1, <5>1
        <5> HIDE DEF i
        <5>4. v[i] = v[i - 1] \o g[i]
          BY <5>2, <5>3
        <5>5. v[i] = v[h] \o g[i]
          BY <5>3, <5>4
        <5> QED BY <5>5 DEF i
      <4>4. v[h] \in Seq(S) /\ g[h + 1] \in Seq(S) /\ Ascends(g[h + 1])
        BY <4>1 DEF InOrder
      <4>5. InFront(v[h], g[h + 1])
        <5> SUFFICES ASSUME NEW p \in DOMAIN v[h], NEW y \in DOMAIN g[h + 1] PROVE v[h][p] < g[h + 1][y]
          BY DEF InFront
        <5>1. PICK i \in 1 .. h : \E x \in DOMAIN g[i] : v[h][p] = g[i][x]
          BY <4>2 DEF FromParts
        <5>2. i \in 1 .. k /\ i < h + 1
          BY <4>1
        <5> QED BY <4>1, <5>1, <5>2 DEF InOrder, InFront
      <4>6. Ascends(v[h + 1]) /\ MadeOf(v[h + 1], v[h], g[h + 1])
        BY <4>2, <4>3, <4>4, <4>5, AscendsConcat
      <4>7. FromParts(v[h + 1], g, h + 1)
        <5> SUFFICES ASSUME NEW p \in DOMAIN v[h + 1]
                     PROVE  \E i \in 1 .. h + 1 : \E x \in DOMAIN g[i] : v[h + 1][p] = g[i][x]
          BY DEF FromParts
        <5>1. CASE \E x \in DOMAIN v[h] : v[h + 1][p] = v[h][x]
          <6>1. PICK x \in DOMAIN v[h] : v[h + 1][p] = v[h][x]
            BY <5>1
          <6>2. \E i \in 1 .. h : \E y \in DOMAIN g[i] : v[h][x] = g[i][y]
            BY <4>2 DEF FromParts
          <6>3. 1 .. h \subseteq 1 .. h + 1
            BY <4>1
          <6> QED BY <6>1, <6>2, <6>3
        <5>2. CASE \E y \in DOMAIN g[h + 1] : v[h + 1][p] = g[h + 1][y]
          <6>1. h + 1 \in 1 .. h + 1
            BY <4>1
          <6> QED BY <5>2, <6>1
        <5> QED BY <4>6, <5>1, <5>2 DEF MadeOf
      <4> QED BY <4>6, <4>7 DEF h
    <3>2. CASE e + 1 + 1 \notin 1 .. k
      BY <3>2
    <3> QED BY <3>1, <3>2
  <2> HIDE DEF E
  <2>4. k - 1 \in Nat /\ k - 1 + 1 = k /\ k \in 1 .. k
    BY <1>3
  <2>5. k - 1 \in E
    BY <2>2, <2>3, <2>4, Inductive
  <2>6. P(k)
    BY <2>4, <2>5 DEF E
  <2> QED BY <1>1, <2>1, <2>6
<1> QED BY <1>2, <1>3

-----------------------------------------------------------------------------
(* Buffers of ascending bytes                                              *)

\* Where bit x of data stands in the file, and how far that is from x.
Shift(data, x) == (data[x \div ByteBits + 1] - (x \div ByteBits)) * ByteBits
FileBit(data, x) == x + Shift(data, x)

\* Numbers b and c at places i and j.
Level(b, i, c, j) == b - (i - 1) <= c - (j - 1) /\ b - (i - 1) \in Nat /\ c - (j - 1) \in Nat

LEMMA Levels ==
  ASSUME NEW a \in Nat, NEW b \in Nat, NEW c \in Nat, NEW i \in Nat, NEW j \in Nat,
         1 <= i, i <= j, a + (i - 1) <= b, b + (j - i) <= c
  PROVE  Level(b, i, c, j)
BY DEF Level

\* Ascending numbers grow at least as fast as their places.
LEMMA GapsGrow ==
  ASSUME NEW data \in Seq(Nat), Ascends(data), NEW i \in DOMAIN data, NEW j \in DOMAIN data, i <= j
  PROVE  Level(data[i], i, data[j], j)
<1>1. Len(data) \in Nat /\ DOMAIN data = 1 .. Len(data) /\ \A k \in 1 .. Len(data) : data[k] \in Nat
  OBVIOUS
<1>2. ASSUME NEW h \in DOMAIN data, NEW k \in DOMAIN data, h <= k PROVE data[h] + (k - h) <= data[k]
  <2> DEFINE E == {e \in Nat : h + e \in DOMAIN data => data[h] + e <= data[h + e]}
  <2>1. 0 \in E
    BY <1>1
  <2>2. ASSUME NEW e \in Nat, e \in E PROVE e + 1 \in E
    <3>1. CASE h + (e + 1) \in DOMAIN data
      <4>1. h + e \in DOMAIN data /\ h + e < h + (e + 1)
        <5> DEFINE L == Len(data)
        <5>1. h \in Nat /\ 1 <= h /\ h + (e + 1) <= L /\ L \in Nat
          BY <1>1, <3>1
        <5> HIDE DEF L
        <5>2. h + e \in 1 .. L /\ h + e < h + (e + 1)
          BY <5>1
        <5> QED BY <1>1, <5>2 DEF L
      <4>2. data[h] + e <= data[h + e]
        BY <2>2, <4>1
      <4>3. data[h + e] < data[h + (e + 1)]
        BY <3>1, <4>1 DEF Ascends
      <4>4. data[h] \in Nat /\ data[h + e] \in Nat /\ data[h + (e + 1)] \in Nat
        BY <1>1, <3>1, <4>1
      <4> DEFINE a == data[h]
                 b == data[h + e]
                 c == data[h + (e + 1)]
      <4>5. a \in Nat /\ b \in Nat /\ c \in Nat /\ a + e <= b /\ b < c
        BY <4>2, <4>3, <4>4
      <4> HIDE DEF a, b, c
      <4>6. a + (e + 1) <= c
        BY <4>5
      <4> QED BY <4>6 DEF a, c
    <3>2. CASE h + (e + 1) \notin DOMAIN data
      BY <3>2
    <3> QED BY <3>1, <3>2
  <2> HIDE DEF E
  <2>3. k - h \in Nat /\ h + (k - h) = k
    BY <1>1, <1>2
  <2>4. k - h \in E
    BY <2>1, <2>2, <2>3, Inductive
  <2> QED BY <2>3, <2>4 DEF E
<1>3. 1 \in DOMAIN data /\ 1 <= i
  BY <1>1
<1>4. data[1] + (i - 1) <= data[i] /\ data[i] + (j - i) <= data[j]
  BY <1>2, <1>3
<1> DEFINE a == data[1]
           b == data[i]
           c == data[j]
<1>5. a \in Nat /\ b \in Nat /\ c \in Nat /\ i \in Nat /\ j \in Nat /\ 1 <= i /\ i <= j
      /\ a + (i - 1) <= b /\ b + (j - i) <= c
  BY <1>1, <1>3, <1>4
<1> HIDE DEF a, b, c
<1>6. Level(b, i, c, j)
  BY <1>5, Levels
<1> QED BY <1>6 DEF b, c, Level

\* So the distance of a bit from its place in the file only grows.
LEMMA ShiftsGrow ==
  ASSUME NEW data \in Seq(Nat), Ascends(data), NEW x \in Nat, NEW y \in Nat, x <= y,
         y \div ByteBits + 1 \in DOMAIN data
  PROVE  /\ Shift(data, x) \in Nat /\ Shift(data, y) \in Nat
         /\ Shift(data, x) <= Shift(data, y)
         /\ x \div ByteBits + 1 \in DOMAIN data
<1> DEFINE i == x \div ByteBits
           j == y \div ByteBits
<1>1. i \in Nat /\ j \in Nat /\ i <= j
  BY Widths, DivMono, Division
<1>2. i + 1 \in DOMAIN data /\ j + 1 \in DOMAIN data
  BY <1>1
<1> DEFINE u == data[i + 1] - i
           v == data[j + 1] - j
<1>3. Shift(data, x) = u * ByteBits /\ Shift(data, y) = v * ByteBits
  BY DEF Shift
<1> HIDE DEF i, j
<1>4. u \in Nat /\ v \in Nat /\ u <= v
  <2>1. \A h, k \in DOMAIN data : h <= k => Level(data[h], h, data[k], k)
    BY GapsGrow
  <2>2. i + 1 - 1 = i /\ j + 1 - 1 = j /\ i + 1 <= j + 1
    BY <1>1
  <2>3. Level(data[i + 1], i + 1, data[j + 1], j + 1)
    BY <1>2, <2>1, <2>2
  <2> DEFINE b == data[i + 1]
             c == data[j + 1]
  <2>4. b \in Nat /\ c \in Nat /\ Level(b, i + 1, c, j + 1) /\ u = b - i /\ v = c - j
    BY <1>2, <2>3
  <2> HIDE DEF u, v, b, c
  <2> QED BY <1>1, <2>4 DEF Level
<1> HIDE DEF u, v
<1>5. ByteBits * u <= ByteBits * v
  BY <1>4, Widths, MulMono
<1>6. u * ByteBits = ByteBits * u /\ v * ByteBits = ByteBits * v /\ u * ByteBits \in Nat /\ v * ByteBits \in Nat
  BY <1>4, Widths, Products
<1> QED BY <1>2, <1>3, <1>5, <1>6 DEF i

\* What shows up at a bit of a buffer is the magic that stands at this bit's
\* place in the file.
LEMMA OccurrenceIs ==
  ASSUME NEW data \in Seq(Nat), Ascends(data), NEW m \in Nat, NEW x \in Occurrences(data, m)
  PROVE  /\ x \in Nat /\ x \div ByteBits + 1 \in DOMAIN data
         /\ data[x \div ByteBits + 1] = m \div ByteBits
         /\ FileBit(data, x) = m
<1> DEFINE q == m \div ByteBits
           r == m % ByteBits
<1>1. q \in Nat /\ r \in 0 .. ByteBits - 1 /\ q * ByteBits + r = m /\ q * ByteBits \in Nat
  <2>1. m % ByteBits \in 0 .. ByteBits - 1
    BY Widths, Division
  <2> QED BY <2>1, Widths, BitsAndBytes, Products
<1>2. PICK i \in DOMAIN data : x = (i - 1) * ByteBits + r /\ data[i] = q
  BY DEF Occurrences
<1> HIDE DEF q, r
<1> DEFINE p == i - 1
<1>3. p \in Nat /\ i = p + 1
  OBVIOUS
<1> HIDE DEF p
<1>4. p * ByteBits \in Nat /\ ByteBits * p = p * ByteBits /\ x = p * ByteBits + r
  BY <1>2, <1>3, Widths, Products DEF p
<1>5. x \div ByteBits = p
  BY <1>1, <1>3, <1>4, Widths, DivUnique
<1>6. x \in Nat
  BY <1>1, <1>4
<1> DEFINE d == q - p
<1>7. d \in Nat
  <2>1. data[i] - (i - 1) \in Nat
    <3>1. i <= i
      OBVIOUS
    <3> QED BY <3>1, GapsGrow DEF Level
  <2> QED BY <1>2, <1>3, <2>1
<1>8. q = d + p + 0
  BY <1>1, <1>3
<1>9. Shift(data, x) = d * ByteBits
  BY <1>2, <1>3, <1>5 DEF Shift
<1> HIDE DEF d
<1>10. q * ByteBits = d * ByteBits + p * ByteBits + 0 * ByteBits /\ d * ByteBits \in Nat /\ 0 * ByteBits = 0
  BY <1>3, <1>7, <1>8, Widths, Distributes, Products
<1> DEFINE D == d * ByteBits
           P == p * ByteBits
           Q == q * ByteBits
<1>11. x + Shift(data, x) = m
  <2>1. D \in Nat /\ P \in Nat /\ Q = D + P /\ x = P + r /\ Q + r = m /\ Shift(data, x) = D
    BY <1>1, <1>4, <1>9, <1>10
  <2> HIDE DEF D, P, Q
  <2> QED BY <1>1, <2>1
<1> QED BY <1>2, <1>3, <1>5, <1>6, <1>11 DEF FileBit, q

\* The magics main's scan can find in a slot.
MarksAre(data, buf) ==
  /\ BufferType(buf) /\ buf.bytes = Len(data)
  /\ \A x \in buf.marks :
       /\ x \in Nat /\ x \div ByteBits + 1 \in DOMAIN data
       /\ FileBit(data, x) \in Magics(input)
       /\ FileBit(data, x) \div ByteBits = data[x \div ByteBits + 1]

LEMMA MarksOfSlot ==
  ASSUME WellFormed(input), NEW data \in Seq(Nat), Ascends(data)
  PROVE  MarksAre(data, Marked(data))
<1> DEFINE buf == Buffer(input, data)
           F(k) == input.blocks[k].first
<1>1. Marked(data).bytes = buf.bytes /\ Marked(data).marks = buf.marks
  BY DEF Marked, Buffer
<1>2. BufferType(buf)
  BY BufferOfData
<1>3. buf.bytes = Len(data)
  BY DEF Buffer
<1>4. /\ \A k \in DOMAIN input.blocks : F(k) \in Nat /\ F(k) \in Magics(input)
      /\ \A m \in input.fakes : m \in Nat /\ m \in Magics(input)
  BY BlocksType DEF WellFormed, Magics
<1>5. buf.marks = (UNION {Occurrences(data, F(k)) : k \in DOMAIN input.blocks})
                    \cup (UNION {Occurrences(data, m) : m \in input.fakes})
  BY DEF Buffer
<1>6. ASSUME NEW x \in buf.marks PROVE \E m \in Nat : m \in Magics(input) /\ x \in Occurrences(data, m)
  <2> HIDE DEF F, buf
  <2> QED BY <1>4, <1>5
<1> HIDE DEF buf
<1>7. ASSUME NEW x \in buf.marks
      PROVE  /\ x \in Nat /\ x \div ByteBits + 1 \in DOMAIN data
             /\ FileBit(data, x) \in Magics(input)
             /\ FileBit(data, x) \div ByteBits = data[x \div ByteBits + 1]
  <2>1. PICK m \in Nat : m \in Magics(input) /\ x \in Occurrences(data, m)
    BY <1>6
  <2>2. /\ x \in Nat /\ x \div ByteBits + 1 \in DOMAIN data
        /\ data[x \div ByteBits + 1] = m \div ByteBits
        /\ FileBit(data, x) = m
    BY <2>1, OccurrenceIs
  <2> QED BY <2>1, <2>2
<1>8. BufferType(Marked(data))
  BY <1>1, <1>2 DEF BufferType, TotalBits
<1> QED BY <1>1, <1>3, <1>7, <1>8 DEF MarksAre

-----------------------------------------------------------------------------
(* Splitting a slot                                                        *)

SplitIs(buf, split, last) ==
  /\ split.starts \in Seq(Nat) /\ Ascends(split.starts)
  /\ \A i \in DOMAIN split.starts : split.starts[i] \in buf.marks
  /\ split.count \in 1 .. Len(split.starts)
  /\ split.consumed = IF split.count < Len(split.starts)
                      THEN split.starts[split.count + 1] \div ByteBits ELSE buf.bytes
  /\ ~ last => split.count < Len(split.starts)

\* The first magic begins the first segment, every other one begins with a
\* verified magic, and every boundary found begins one.
CutsAt(buf, split, k, last) ==
  /\ split.starts[1] = FindNextBlock(buf, 0)
  /\ \A i \in DOMAIN split.starts : i # 1 => split.starts[i] \in buf.sound
  /\ \A c \in SplitBoundariesParallel(buf, k) : \E i \in DOMAIN split.starts : split.starts[i] = c
  /\ split.count = IF last THEN Len(split.starts) ELSE Len(split.starts) - 1

\* The boundaries the threads find are verified magics in the slot.
LEMMA BoundariesAre ==
  ASSUME NEW buf, BufferType(buf), NEW k \in Nat \ {0}, FindNextBlock(buf, 0) # None
  PROVE  LET first == FindNextBlock(buf, 0)
             T == SplitBoundariesParallel(buf, k) \ {first} IN
         /\ first \in buf.marks /\ first \in Nat
         /\ \A c \in T : c \in buf.marks /\ c \in buf.sound /\ first < c
         /\ IsFiniteSet(T) /\ T \in SUBSET Int
<1> DEFINE first == FindNextBlock(buf, 0)
           at(i) == (TotalBits(buf) * i) \div k
           T == SplitBoundariesParallel(buf, k) \ {first}
<1>1. first # None
  OBVIOUS
<1>2. /\ TotalBits(buf) \in Nat /\ buf.marks \subseteq Nat
      /\ MagicBits \in Nat /\ VerifyBits \in Nat
  BY Widths DEF BufferType
<1>3. first \in buf.marks /\ \A m \in buf.marks : first <= m
  <2>1. 0 \in Nat
    OBVIOUS
  <2>2. first \in buf.marks /\ \A m \in buf.marks : 0 <= m => first <= m
    <3> HIDE DEF T
    <3> QED BY <1>1, <2>1, NextBlock
  <2>3. \A m \in buf.marks : 0 <= m
    BY <1>2
  <2> QED BY <2>2, <2>3
<1> HIDE DEF first
<1>4. ASSUME NEW c \in T
      PROVE  c \in buf.marks /\ c \in buf.sound /\ c \in 0 .. TotalBits(buf) /\ first < c
  <2>1. PICK i \in 1 .. k - 1 : c = FindQuickBoundary(buf, at(i)) /\ c # None /\ c # first
    BY DEF SplitBoundariesParallel
  <2>2. at(i) \in Nat
    <3>1. TotalBits(buf) * i \in Nat
      BY <1>2, Products
    <3> QED BY <3>1, Division
  <2>3. c \in buf.marks /\ c \in buf.sound /\ ~ TooClose(buf, c)
    <3> HIDE DEF T, at
    <3> QED BY <2>1, <2>2, FindQuick
  <2>4. c \in Nat /\ ~(c + MagicBits + VerifyBits > TotalBits(buf)) /\ first <= c /\ first \in Nat
    BY <1>2, <1>3, <2>3 DEF TooClose
  <2> HIDE DEF T, at
  <2>5. first < c /\ c \in 0 .. TotalBits(buf)
    BY <1>2, <2>1, <2>4
  <2> QED BY <2>3, <2>5
<1> HIDE DEF T
<1>5. IsFiniteSet(T) /\ T \in SUBSET Int
  <2>1. T \subseteq 0 .. TotalBits(buf)
    BY <1>4
  <2> DEFINE top == TotalBits(buf)
  <2>2. IsFiniteSet(0 .. top)
    <3>1. top \in Int /\ 0 \in Int
      BY <1>2
    <3> HIDE DEF top
    <3> QED BY <3>1, FS_Interval
  <2>3. T \in SUBSET Int
    BY <1>2, <2>1
  <2> QED BY <2>1, <2>2, <2>3, FS_Subset
<1> QED BY <1>2, <1>3, <1>4, <1>5 DEF first, T

\* split_chunk cuts a slot at magics, in ascending order.
LEMMA SplitsInOrder ==
  ASSUME NEW buf, BufferType(buf), NEW k \in Nat \ {0}, NEW last \in BOOLEAN,
         SplitChunk(buf, k, last) # NoSplit
  PROVE  /\ SplitIs(buf, SplitChunk(buf, k, last), last)
         /\ CutsAt(buf, SplitChunk(buf, k, last), k, last)
<1> DEFINE first == FindNextBlock(buf, 0)
           T == SplitBoundariesParallel(buf, k) \ {first}
           rest == Sorted(T)
           starts == <<first>> \o rest
           count == IF last THEN Len(starts) ELSE Len(starts) - 1
           split == SplitChunk(buf, k, last)
<1>1. /\ first # None /\ count # 0
      /\ split = [starts |-> starts, count |-> count,
                  consumed |-> IF count < Len(starts) THEN starts[count + 1] \div ByteBits
                               ELSE buf.bytes]
  BY DEF SplitChunk
<1>2. /\ TotalBits(buf) \in Nat /\ buf.marks \subseteq Nat
      /\ MagicBits \in Nat /\ VerifyBits \in Nat
  BY Widths DEF BufferType
<1>3. first \in buf.marks
  BY <1>1, BoundariesAre
<1>4. ASSUME NEW c \in T PROVE c \in buf.marks /\ c \in buf.sound /\ first < c
  BY <1>1, BoundariesAre
<1>5. IsFiniteSet(T) /\ T \in SUBSET Int
  BY <1>1, BoundariesAre
<1> HIDE DEF first
<1>4a. SplitBoundariesParallel(buf, k) \subseteq T \cup {first}
  OBVIOUS
<1> HIDE DEF T
<1> DEFINE L == Cardinality(T)
<1>6. /\ L \in Nat /\ rest \in [1 .. L -> T]
      /\ \A i, j \in 1 .. L : i < j => rest[i] < rest[j]
      /\ \A c \in T : \E i \in 1 .. L : rest[i] = c
  BY <1>5, SortedAscends
<1> HIDE DEF rest, L
<1>7. /\ rest \in Seq(Nat) /\ Len(rest) = L /\ DOMAIN rest = 1 .. L /\ Ascends(rest)
      /\ \A i \in 1 .. L : rest[i] \in T
  <2>1. rest \in [1 .. L -> Nat]
    BY <1>2, <1>4, <1>6
  <2>2. rest \in Seq(Nat) /\ Len(rest) = L /\ DOMAIN rest = 1 .. L
    BY <1>6, <2>1
  <2> QED BY <1>6, <2>2 DEF Ascends
<1> DEFINE one == <<first>>
<1>8. first \in Nat /\ one \in Seq(Nat) /\ DOMAIN one = {1} /\ one[1] = first /\ Len(one) = 1
  BY <1>2, <1>3
<1> HIDE DEF one
<1>9. Ascends(one) /\ InFront(one, rest)
  BY <1>4, <1>7, <1>8 DEF Ascends, InFront
<1>10. /\ starts \in Seq(Nat) /\ Ascends(starts) /\ MadeOf(starts, one, rest) /\ Len(starts) = 1 + L
       /\ \A i \in 1 .. 1 + L : starts[i] = IF i <= 1 THEN first ELSE rest[i - 1]
  <2>1. Nat \in SUBSET Int
    OBVIOUS
  <2>2. starts = one \o rest
    BY DEF one
  <2> HIDE DEF starts
  <2>3. one \o rest \in Seq(Nat) /\ Ascends(one \o rest) /\ MadeOf(one \o rest, one, rest)
    BY <1>7, <1>8, <1>9, <2>1, AscendsConcat
  <2>4. /\ Len(one \o rest) = 1 + L
        /\ \A i \in 1 .. 1 + L : (one \o rest)[i] = IF i <= 1 THEN first ELSE rest[i - 1]
    <3> DEFINE N == Nat
    <3>0. one \in Seq(N) /\ rest \in Seq(N)
      BY <1>7, <1>8
    <3> HIDE DEF N
    <3>1. /\ Len(one \o rest) = Len(one) + Len(rest)
          /\ \A i \in 1 .. Len(one) + Len(rest) :
               (one \o rest)[i] = IF i <= Len(one) THEN one[i] ELSE rest[i - Len(one)]
      BY <3>0, ConcatProperties
    <3>2. \A i \in 1 .. 1 + L : i <= 1 => one[i] = first
      BY <1>6, <1>8
    <3> QED BY <1>7, <1>8, <3>1, <3>2
  <2> QED BY <2>2, <2>3, <2>4
<1> HIDE DEF starts
<1>11. \A i \in DOMAIN starts : starts[i] \in buf.marks
  BY <1>3, <1>4, <1>7, <1>8, <1>10 DEF MadeOf
<1>12. /\ count \in 1 .. Len(starts) /\ (~ last => count < Len(starts))
       /\ count = IF last THEN Len(starts) ELSE Len(starts) - 1
  BY <1>1, <1>6, <1>10
<1> HIDE DEF count
<1>13. split.starts = starts /\ split.count = count
       /\ split.consumed = IF count < Len(starts) THEN starts[count + 1] \div ByteBits ELSE buf.bytes
  BY <1>1
<1> HIDE DEF split
<1>14. SplitIs(buf, split, last)
  BY <1>10, <1>11, <1>12, <1>13 DEF SplitIs
<1>15. starts[1] = first /\ \A i \in DOMAIN starts : i # 1 => starts[i] \in buf.sound
  <2>1. DOMAIN starts = 1 .. 1 + L
    BY <1>10
  <2>2. 1 \in 1 .. 1 + L
    BY <1>6
  <2>3. ASSUME NEW i \in 1 .. 1 + L, i # 1 PROVE starts[i] \in buf.sound
    <3>1. i - 1 \in 1 .. L /\ ~(i <= 1)
      BY <1>6, <2>3
    <3> QED BY <1>4, <1>7, <1>10, <3>1
  <2> QED BY <1>10, <2>1, <2>2, <2>3
<1>16. ASSUME NEW c \in SplitBoundariesParallel(buf, k) PROVE \E i \in DOMAIN starts : starts[i] = c
  <2>1. DOMAIN starts = 1 .. 1 + L
    BY <1>10
  <2>2. CASE c = first
    <3>1. 1 \in 1 .. 1 + L /\ 1 <= 1
      BY <1>6
    <3> QED BY <1>10, <2>1, <2>2, <3>1
  <2>3. CASE c # first
    <3>1. PICK i \in 1 .. L : rest[i] = c
      BY <1>4a, <1>6, <2>3
    <3> DEFINE j == i + 1
    <3>2. j \in 1 .. 1 + L /\ ~(j <= 1) /\ j - 1 = i
      BY <1>6
    <3> HIDE DEF j
    <3>3. starts[j] = rest[i]
      BY <1>10, <3>2
    <3> QED BY <2>1, <3>1, <3>2, <3>3
  <2> QED BY <2>2, <2>3
<1>17. CutsAt(buf, split, k, last)
  BY <1>12, <1>13, <1>15, <1>16 DEF CutsAt, first
<1> QED BY <1>14, <1>17 DEF split

\* A chunk is cut if a magic is found and, unless it is the last, another one in the searches.
LEMMA IsCut ==
  ASSUME NEW buf, BufferType(buf), NEW k \in Nat \ {0}, NEW last \in BOOLEAN,
         FindNextBlock(buf, 0) # None,
         last \/ \E c \in SplitBoundariesParallel(buf, k) : c # FindNextBlock(buf, 0)
  PROVE  SplitChunk(buf, k, last) # NoSplit
<1> DEFINE first == FindNextBlock(buf, 0)
           T == SplitBoundariesParallel(buf, k) \ {first}
           rest == Sorted(T)
           starts == <<first>> \o rest
           count == IF last THEN Len(starts) ELSE Len(starts) - 1
           L == Cardinality(T)
<1>1. (last \/ T # {}) /\ IsFiniteSet(T) /\ T \in SUBSET Int /\ first \in Nat
  BY BoundariesAre
<1> HIDE DEF first, T
<1>2. L \in Nat /\ rest \in [1 .. L -> T] /\ \A c \in T : \E i \in 1 .. L : rest[i] = c
  BY <1>1, SortedAscends
<1> HIDE DEF rest, L
<1>3. last \/ L # 0
  <2> SUFFICES ASSUME T # {} PROVE L # 0
    BY <1>1
  <2>1. PICK c : c \in T
    OBVIOUS
  <2>2. PICK i \in 1 .. L : rest[i] = c
    BY <1>2, <2>1
  <2> QED BY <1>2, <2>2
<1>4. Len(starts) = 1 + L
  <2> DEFINE one == <<first>>
             N == Int
  <2>1. one \in Seq(N) /\ Len(one) = 1
    BY <1>1
  <2>2. rest \in Seq(N) /\ Len(rest) = L
    <3>1. rest \in [1 .. L -> N]
      BY <1>1, <1>2
    <3> QED BY <1>2, <3>1
  <2> HIDE DEF one, N
  <2>3. Len(one \o rest) = Len(one) + Len(rest)
    BY <2>1, <2>2, ConcatProperties
  <2> QED BY <2>1, <2>2, <2>3 DEF one
<1> HIDE DEF starts
<1>5. count # 0
  BY <1>2, <1>3, <1>4
<1> HIDE DEF count
<1>6. first # None
  BY DEF first
<1>7. SplitChunk(buf, k, last).count = count
  BY <1>5, <1>6 DEF SplitChunk, first, T, rest, starts, count
<1> QED BY <1>5, <1>7 DEF NoSplit

-----------------------------------------------------------------------------
(* Decoding it                                                             *)

\* decode_segment: blocks in order, that begin between start and end.
SegmentIs(seg, data, start, end) ==
  /\ seg \in Seq(Blocks) /\ Ascends(seg)
  /\ \A i \in DOMAIN seg : /\ FileBit(data, start) <= First(seg[i])
                            /\ First(seg[i]) < end + Shift(data, start)

LEMMA SegmentInOrder ==
  ASSUME WellFormed(input), NEW data \in Seq(Nat), NEW start \in Nat, NEW end \in Nat,
         Shift(data, start) \in Nat
  PROVE  SegmentIs(DecodeSegment(data, start, end), data, start, end)
<1> DEFINE i == start \div ByteBits + 1
           shift == (data[i] - (i - 1)) * ByteBits
           runEnd == (data[RunEnd(data, i)] + 1) * ByteBits
           hit == {b \in Blocks : First(b) = start + shift}
           reached == {b \in Blocks : /\ \A h \in hit : b >= h
                                      /\ hit # {}
                                      /\ First(b) < end + shift
                                      /\ \A c \in Blocks : c <= b /\ (\A h \in hit : c >= h)
                                                           => End(c) <= runEnd /\ c \notin input.damaged}
           S == Shift(data, start)
<1>1. DecodeSegment(data, start, end) = Sorted(reached)
  BY DEF DecodeSegment
<1>2. shift = S
  <2>1. start \div ByteBits \in Nat
    BY Widths, Division
  <2>2. i - 1 = start \div ByteBits
    BY <2>1
  <2> QED BY <2>2 DEF Shift
<1>3. Blocks = 1 .. Len(input.blocks) /\ Len(input.blocks) \in Nat /\ \A b \in Blocks : First(b) \in Nat
  BY BlocksType DEF Blocks, First
<1>4. \A b, c \in Blocks : b < c => First(b) + Window * ByteBits <= First(c)
  BY FirstsAscend DEF Blocks, First
<1> HIDE DEF S, shift, runEnd, i
<1>5. ASSUME NEW b \in reached PROVE b \in Blocks /\ FileBit(data, start) <= First(b) /\ First(b) < end + S
  <2>1. PICK h \in Blocks : First(h) = start + S /\ h <= b
    BY <1>2, <1>3
  <2>2. b \in Blocks /\ First(b) < end + S
    BY <1>2
  <2>3. First(h) <= First(b)
    <3>1. CASE h = b
      BY <1>3, <2>2, <3>1
    <3>2. CASE h # b
      <4>1. h < b
        BY <1>3, <2>1, <2>2, <3>2
      <4> DEFINE w == Window * ByteBits
                 x == First(h)
                 y == First(b)
      <4>2. w \in Nat /\ x \in Nat /\ y \in Nat /\ x + w <= y
        BY <1>3, <1>4, <2>1, <2>2, <4>1, Widths
      <4> HIDE DEF w, x, y
      <4>3. x <= y
        BY <4>2
      <4> QED BY <4>3 DEF x, y
    <3> QED BY <3>1, <3>2
  <2> QED BY <2>1, <2>2, <2>3 DEF FileBit, S
<1>6. IsFiniteSet(reached) /\ reached \in SUBSET Int /\ reached \subseteq Blocks
  <2>1. reached \subseteq Blocks
    OBVIOUS
  <2> HIDE DEF reached
  <2> DEFINE top == Len(input.blocks)
  <2>2. IsFiniteSet(1 .. top)
    <3>1. top \in Int /\ 1 \in Int
      BY <1>3
    <3> HIDE DEF top
    <3> QED BY <3>1, FS_Interval
  <2>3. reached \subseteq 1 .. top /\ reached \in SUBSET Int
    BY <1>3, <2>1
  <2>4. IsFiniteSet(reached)
    <3> HIDE DEF top
    <3> QED BY <2>2, <2>3, FS_Subset
  <2> QED BY <2>1, <2>3, <2>4
<1> HIDE DEF reached, hit
<1> DEFINE seg == Sorted(reached)
           L == Cardinality(reached)
<1>7. /\ L \in Nat /\ seg \in [1 .. L -> reached]
      /\ \A x, y \in 1 .. L : x < y => seg[x] < seg[y]
  BY <1>6, SortedAscends
<1> HIDE DEF seg, L
<1>8. seg \in Seq(Blocks) /\ DOMAIN seg = 1 .. L
  <2>1. seg \in [1 .. L -> Blocks]
    BY <1>6, <1>7
  <2> QED BY <1>7, <2>1
<1>9. SegmentIs(seg, data, start, end)
  BY <1>5, <1>7, <1>8 DEF SegmentIs, Ascends, S
<1> QED BY <1>1, <1>9 DEF seg

\* What is decoded of a slot begins between its first boundary and the one that
\* is carried over.
DecodedIs(d, data, split) ==
  /\ d \in Seq(Blocks) /\ Ascends(d)
  /\ \A p \in DOMAIN d : FileBit(data, split.starts[1]) <= First(d[p])
  /\ split.count < Len(split.starts) =>
       \A p \in DOMAIN d : First(d[p]) < FileBit(data, split.starts[split.count + 1])

LEMMA FirstsOrder ==
  ASSUME WellFormed(input)
  PROVE  /\ Blocks \in SUBSET Int
         /\ \A b, c \in Blocks : First(b) \in Nat /\ (First(b) < First(c) => b < c)
<1>1. Blocks = 1 .. Len(input.blocks) /\ Len(input.blocks) \in Nat /\ \A b \in Blocks : First(b) \in Nat
  BY BlocksType DEF Blocks, First
<1>2. \A b, c \in Blocks : b < c => First(b) + Window * ByteBits <= First(c)
  BY FirstsAscend DEF Blocks, First
<1>3. ASSUME NEW b \in Blocks, NEW c \in Blocks, First(b) < First(c), ~(b < c) PROVE FALSE
  <2> DEFINE w == Window * ByteBits
             x == First(b)
             y == First(c)
  <2>1. w \in Nat /\ x \in Nat /\ y \in Nat /\ x < y
    BY <1>1, <1>3, Widths
  <2>2. b = c \/ c < b
    BY <1>1, <1>3
  <2>3. b = c \/ y + w <= x
    BY <1>2, <2>2
  <2> HIDE DEF w, x, y
  <2>4. b = c
    BY <2>1, <2>3
  <2> QED BY <2>1, <2>4 DEF x, y
<1> QED BY <1>1, <1>3

LEMMA DecodesInOrder ==
  ASSUME WellFormed(input), NEW data \in Seq(Nat), Ascends(data), NEW buf, MarksAre(data, buf),
         NEW last \in BOOLEAN, NEW split, SplitIs(buf, split, last)
  PROVE  DecodedIs(DecodeAll(data, split), data, split)
<1> DEFINE starts == split.starts
           L == Len(starts)
           k == split.count
           end(i) == IF i < L THEN starts[i + 1] ELSE Len(data) * ByteBits
           g == [i \in 1 .. k |-> DecodeSegment(data, starts[i], end(i))]
           sh(i) == Shift(data, starts[i])
           d == DecodeAll(data, split)
<1>1. d = FlattenSeq(g)
  BY DEF DecodeAll
<1>2. /\ L \in Nat /\ DOMAIN starts = 1 .. L /\ k \in 1 .. L /\ k \in Nat
      /\ \A i \in 1 .. L : starts[i] \in Nat /\ starts[i] \in buf.marks
      /\ \A i, j \in 1 .. L : i < j => starts[i] < starts[j]
  <2>1. starts \in Seq(Nat) /\ k \in 1 .. L
    BY DEF SplitIs
  <2> HIDE DEF starts, k
  <2>2. L \in Nat /\ DOMAIN starts = 1 .. L /\ \A i \in 1 .. L : starts[i] \in Nat
    BY <2>1
  <2>3. /\ \A i \in DOMAIN starts : starts[i] \in buf.marks
        /\ \A i, j \in DOMAIN starts : i < j => starts[i] < starts[j]
    BY DEF SplitIs, Ascends, starts
  <2> HIDE DEF L
  <2>4. k \in Nat
    BY <2>1, <2>2
  <2>5. \A i \in 1 .. L : starts[i] \in Nat /\ starts[i] \in buf.marks
    BY <2>2, <2>3
  <2>6. \A i, j \in 1 .. L : i < j => starts[i] < starts[j]
    BY <2>2, <2>3
  <2> QED BY <2>1, <2>2, <2>4, <2>5, <2>6
<1>3. \A i \in 1 .. L : starts[i] \div ByteBits + 1 \in DOMAIN data
  BY <1>2 DEF MarksAre
<1>4. Len(data) * ByteBits \in Nat
  BY Widths, Products
<1>5. /\ Blocks \in SUBSET Int
      /\ \A b, c \in Blocks : First(b) \in Nat /\ (First(b) < First(c) => b < c)
  BY FirstsOrder
<1> HIDE DEF starts, L, k, d
<1>6. ASSUME NEW i \in 1 .. L, NEW j \in 1 .. L, i <= j
      PROVE  /\ sh(i) \in Nat /\ sh(j) \in Nat /\ sh(i) <= sh(j)
             /\ starts[i] <= starts[j] /\ FileBit(data, starts[i]) <= FileBit(data, starts[j])
  <2> DEFINE x == starts[i]
             y == starts[j]
  <2>1. x \in Nat /\ y \in Nat /\ x <= y /\ y \div ByteBits + 1 \in DOMAIN data
    <3>1. i = j \/ i < j
      BY <1>2, <1>6
    <3> QED BY <1>2, <1>3, <3>1
  <2> HIDE DEF x, y
  <2>2. Shift(data, x) \in Nat /\ Shift(data, y) \in Nat /\ Shift(data, x) <= Shift(data, y)
    BY <2>1, ShiftsGrow
  <2>3. FileBit(data, x) <= FileBit(data, y)
    BY <2>1, <2>2 DEF FileBit
  <2> QED BY <2>1, <2>2, <2>3 DEF x, y
<1>7. ASSUME NEW i \in 1 .. k
      PROVE  /\ i \in 1 .. L /\ end(i) \in Nat
             /\ SegmentIs(g[i], data, starts[i], end(i))
  <2>1. i \in 1 .. L
    BY <1>2
  <2>2. end(i) \in Nat
    <3>1. CASE i < L
      <4>1. i + 1 \in 1 .. L
        BY <1>2, <2>1, <3>1
      <4>2. starts[i + 1] \in Nat
        BY <1>2, <4>1
      <4> QED BY <3>1, <4>2
    <3>2. CASE ~(i < L)
      BY <1>4, <3>2
    <3> QED BY <3>1, <3>2
  <2>3. sh(i) \in Nat /\ starts[i] \in Nat
    <3>1. i <= i
      BY <1>2
    <3> QED BY <1>2, <1>6, <2>1, <3>1
  <2>4. g[i] = DecodeSegment(data, starts[i], end(i))
    OBVIOUS
  <2> HIDE DEF end, g
  <2>5. SegmentIs(g[i], data, starts[i], end(i))
    BY <2>2, <2>3, <2>4, SegmentInOrder
  <2> QED BY <2>1, <2>2, <2>5
<1>8. ASSUME NEW i \in 1 .. k, NEW j \in 1 .. L, i < j, NEW x \in DOMAIN g[i]
      PROVE  First(g[i][x]) < FileBit(data, starts[j])
  <2>1. i \in 1 .. L /\ i + 1 \in 1 .. L /\ i + 1 <= j /\ i <= j /\ i < L
    BY <1>2, <1>8
  <2>2. end(i) = starts[i + 1]
    BY <2>1
  <2>3. First(g[i][x]) < end(i) + sh(i) /\ g[i][x] \in Blocks
    <3>1. SegmentIs(g[i], data, starts[i], end(i))
      BY <1>7
    <3> HIDE DEF g, end
    <3> QED BY <1>8, <3>1 DEF SegmentIs
  <2>4. starts[i + 1] <= starts[j] /\ sh(i) <= sh(j) /\ sh(i) \in Nat /\ sh(j) \in Nat
    BY <1>6, <2>1
  <2>5. starts[i + 1] \in Nat /\ starts[j] \in Nat
    BY <1>2, <2>1
  <2>6. FileBit(data, starts[j]) = starts[j] + sh(j)
    BY DEF FileBit
  <2> DEFINE f == First(g[i][x])
             a == starts[i + 1]
             b == starts[j]
             u == sh(i)
             v == sh(j)
  <2>7. f \in Nat /\ f < a + u /\ a <= b /\ u <= v /\ a \in Nat /\ b \in Nat /\ u \in Nat /\ v \in Nat
        /\ FileBit(data, starts[j]) = b + v
    BY <1>5, <2>2, <2>3, <2>4, <2>5, <2>6
  <2> HIDE DEF f, a, b, u, v
  <2>8. f < b + v
    BY <2>7
  <2> QED BY <2>7, <2>8 DEF f
<1>9. ASSUME NEW i \in 1 .. k, NEW x \in DOMAIN g[i]
      PROVE  g[i][x] \in Blocks /\ FileBit(data, starts[i]) <= First(g[i][x])
  <2>1. SegmentIs(g[i], data, starts[i], end(i))
    BY <1>7
  <2> HIDE DEF g, end
  <2> QED BY <1>9, <2>1 DEF SegmentIs
<1>10. \A i \in 1 .. L : FileBit(data, starts[i]) \in Nat
  <2> SUFFICES ASSUME NEW i \in 1 .. L PROVE FileBit(data, starts[i]) \in Nat
    OBVIOUS
  <2>1. i <= i
    BY <1>2
  <2>2. sh(i) \in Nat /\ starts[i] \in Nat
    BY <1>2, <1>6, <2>1
  <2> QED BY <2>2 DEF FileBit
<1>11. g \in [1 .. k -> Seq(Blocks)] /\ \A i \in 1 .. k : Ascends(g[i])
  <2>1. \A i \in 1 .. k : g[i] \in Seq(Blocks) /\ Ascends(g[i])
    <3> HIDE DEF g, end
    <3> QED BY <1>7 DEF SegmentIs
  <2>2. g = [i \in 1 .. k |-> g[i]]
    OBVIOUS
  <2> HIDE DEF g
  <2> QED BY <2>1, <2>2
<1> HIDE DEF g
<1>12. InOrder(g, k)
  <2> SUFFICES ASSUME NEW i \in 1 .. k, NEW j \in 1 .. k, i < j, NEW x \in DOMAIN g[i], NEW y \in DOMAIN g[j]
               PROVE  g[i][x] < g[j][y]
    BY <1>11 DEF InOrder, InFront
  <2>1. j \in 1 .. L
    BY <1>2
  <2>2. First(g[i][x]) < FileBit(data, starts[j]) /\ FileBit(data, starts[j]) <= First(g[j][y])
    BY <1>8, <1>9, <2>1
  <2>3. g[i][x] \in Blocks /\ g[j][y] \in Blocks
    BY <1>9
  <2>4. First(g[i][x]) \in Nat /\ First(g[j][y]) \in Nat /\ FileBit(data, starts[j]) \in Nat
    BY <1>5, <1>10, <2>1, <2>3
  <2>5. First(g[i][x]) < First(g[j][y])
    BY <2>2, <2>4
  <2> QED BY <1>5, <2>3, <2>5
<1>13. d \in Seq(Blocks) /\ Ascends(d) /\ FromParts(d, g, k)
  BY <1>1, <1>2, <1>5, <1>11, <1>12, FlatAscends
<1>14. ASSUME NEW p \in DOMAIN d
       PROVE  /\ FileBit(data, starts[1]) <= First(d[p])
              /\ k < L => First(d[p]) < FileBit(data, starts[k + 1])
  <2>1. PICK i \in 1 .. k : \E x \in DOMAIN g[i] : d[p] = g[i][x]
    BY <1>13 DEF FromParts
  <2>2. PICK x \in DOMAIN g[i] : d[p] = g[i][x]
    BY <2>1
  <2>3. 1 \in 1 .. L /\ i \in 1 .. L /\ 1 <= i
    BY <1>2
  <2>4. FileBit(data, starts[1]) <= FileBit(data, starts[i]) /\ FileBit(data, starts[i]) <= First(g[i][x])
    BY <1>6, <1>9, <2>3
  <2>5. FileBit(data, starts[1]) \in Nat /\ FileBit(data, starts[i]) \in Nat /\ First(g[i][x]) \in Nat
    BY <1>5, <1>9, <1>10, <2>3
  <2>6. ASSUME k < L PROVE First(g[i][x]) < FileBit(data, starts[k + 1])
    <3>1. k + 1 \in 1 .. L /\ i < k + 1
      BY <1>2, <2>6
    <3> QED BY <1>8, <3>1
  <2> QED BY <2>2, <2>4, <2>5, <2>6
<1>15. DecodedIs(d, data, split)
  BY <1>13, <1>14 DEF DecodedIs, starts, L, k
<1> QED BY <1>15 DEF d

-----------------------------------------------------------------------------
(* The loop                                                                *)

\* The next slot begins with the byte in which magic m begins, behind all that
\* was decoded.
CarriedOver(m) ==
  /\ m \in Magics(input) /\ carry # <<>> /\ carry[1] = m \div ByteBits
  /\ \A i \in DOMAIN decoded : First(decoded[i]) < m

\* The carry is a part of the file, in order and not from beyond what was read.
CarryInOrder == Ascends(carry) /\ \A i \in DOMAIN carry : carry[i] < pos

OrderInv ==
  /\ TypeOK /\ CarryInOrder /\ Ascends(decoded)
  /\ pc = "loop" /\ decoded # <<>> => \E m : CarriedOver(m)

LEMMA InputType ==
  ASSUME TypeOK
  PROVE  /\ WellFormed(input) /\ MagicsApart(input) /\ input.size \in Nat /\ HeaderSize <= input.size
         /\ HeaderSize \in Nat \ {0} /\ ChunkSize \in Nat \ {0} /\ n \in Nat \ {0}
         /\ pos \in Nat /\ pos <= input.size /\ carry \in Seq(Nat)
<1>1. WellFormed(input) /\ MagicsApart(input) /\ HeaderSize <= input.size
  BY FilesAssumption DEF TypeOK
<1>2. input.size \in Nat
  BY <1>1 DEF WellFormed
<1>3. HeaderSize \in Nat \ {0} /\ ChunkSize \in Nat \ {0} /\ n \in Nat \ {0}
  BY CarryAssumption DEF TypeOK
<1>4. pos \in Nat /\ pos <= input.size
  BY <1>2 DEF TypeOK
<1>5. carry \in Seq(Nat)
  <2> DEFINE R == 0 .. input.size - 1
  <2>1. carry \in Seq(R) /\ R \subseteq Nat
    BY <1>2 DEF TypeOK
  <2> HIDE DEF R
  <2> QED BY <2>1, SeqWidens
<1> QED BY <1>1, <1>2, <1>3, <1>4, <1>5

LEMMA ReadLenType ==
  ASSUME TypeOK
  PROVE  ReadLen \in Nat /\ pos + ReadLen <= input.size /\ IsLast \in BOOLEAN
<1>1. input.size \in Nat /\ ChunkSize \in Nat /\ pos \in Nat /\ pos <= input.size
  BY InputType
<1> DEFINE rest == input.size - pos
<1>2. rest \in Nat
  BY <1>1
<1>3. ReadLen = IF ChunkSize <= rest THEN ChunkSize ELSE rest
  <2>1. ChunkSize \in Int /\ rest \in Int
    BY <1>1, <1>2
  <2>2. ReadLen = Min({ChunkSize, rest})
    BY DEF ReadLen
  <2> HIDE DEF rest
  <2> QED BY <2>1, <2>2, MinOfTwo
<1>4. ReadLen \in Nat /\ ReadLen <= rest
  BY <1>1, <1>2, <1>3
<1> QED BY <1>1, <1>4 DEF IsLast

\* A slot holds a part of the file in order, the carry in front.
SlotIs(data) ==
  /\ data \in Seq(Nat) /\ data \in Seq(0 .. input.size - 1) /\ Ascends(data)
  /\ \A i \in DOMAIN data : data[i] < pos + ReadLen
  /\ carry # <<>> => data # <<>> /\ data[1] = carry[1]

LEMMA SlotsInOrder ==
  ASSUME OrderInv, NEW data \in Slots
  PROVE  SlotIs(data)
<1> DEFINE q == pos + ReadLen
           new == Bytes(pos, q)
           R == 0 .. input.size - 1
<1>1. /\ pos \in Nat /\ q \in Nat /\ pos <= q /\ q <= input.size /\ input.size \in Nat
      /\ TypeOK /\ carry \in Seq(Nat)
  BY InputType, ReadLenType DEF OrderInv
<1>2. data = carry \o new
  BY DEF Slots
<1> HIDE DEF q, new
<1>3. /\ new \in Seq(pos .. q - 1) /\ DOMAIN new = 1 .. q - pos
      /\ \A i \in 1 .. q - pos : new[i] = pos + i - 1
  BY <1>1, StretchOfBytes DEF new
<1>4. Ascends(new) /\ \A i \in DOMAIN new : new[i] \in Nat /\ pos <= new[i] /\ new[i] < q /\ new[i] \in R
  BY <1>1, <1>3 DEF Ascends
<1>5. \A i \in DOMAIN carry : carry[i] \in Nat /\ carry[i] < pos
  <2>1. \A i \in DOMAIN carry : carry[i] \in Nat
    BY <1>1
  <2> QED BY <2>1 DEF OrderInv, CarryInOrder
<1>6. InFront(carry, new)
  BY <1>1, <1>4, <1>5 DEF InFront
<1>7. new \in Seq(Nat) /\ new \in Seq(R) /\ carry \in Seq(R) /\ R \in SUBSET Int
  <2>1. carry \in Seq(R)
    BY <1>1 DEF TypeOK
  <2>2. pos .. q - 1 \subseteq Nat /\ pos .. q - 1 \subseteq R /\ R \in SUBSET Int
    BY <1>1
  <2> DEFINE Q == pos .. q - 1
  <2> HIDE DEF R, Q
  <2>3. new \in Seq(Q) /\ Q \subseteq Nat /\ Q \subseteq R
    BY <1>3, <2>2 DEF Q
  <2>4. new \in Seq(Nat) /\ new \in Seq(R)
    BY <2>3, SeqWidens
  <2>5. R \in SUBSET Int
    BY <2>2
  <2> QED BY <2>1, <2>4, <2>5
<1> HIDE DEF R
<1>8. data \in Seq(R) /\ Ascends(data) /\ MadeOf(data, carry, new)
  BY <1>2, <1>4, <1>6, <1>7, AscendsConcat DEF OrderInv, CarryInOrder
<1>9. data \in Seq(Nat)
  BY <1>1, <1>2, <1>7
<1>10. \A i \in DOMAIN data : data[i] < q
  BY <1>1, <1>4, <1>5, <1>8 DEF MadeOf
<1>11. ASSUME carry # <<>> PROVE data # <<>> /\ data[1] = carry[1]
  <2>1. /\ Len(data) = Len(carry) + Len(new)
        /\ \A i \in 1 .. Len(carry) + Len(new) : data[i] = IF i <= Len(carry) THEN carry[i] ELSE new[i - Len(carry)]
    BY <1>1, <1>2, <1>7, ConcatProperties
  <2>2. Len(carry) \in Nat \ {0} /\ Len(new) \in Nat
    BY <1>1, <1>7, <1>11
  <2> DEFINE a == Len(carry)
             b == Len(new)
  <2> HIDE DEF a, b
  <2>3. 1 \in 1 .. a + b /\ 1 <= a /\ a + b # 0
    BY <2>2 DEF a, b
  <2>4. data[1] = carry[1] /\ Len(data) # 0
    BY <2>1, <2>3 DEF a, b
  <2> QED BY <2>4
<1> QED BY <1>8, <1>9, <1>10, <1>11 DEF SlotIs, R, q

\* All magics in a slot are behind what was decoded before, as the carry
\* begins with the next one's byte and no other begins there.
LEMMA NothingTwice ==
  ASSUME OrderInv, pc = "loop", NEW data \in Slots, NEW buf, MarksAre(data, buf), NEW x \in buf.marks
  PROVE  \A i \in DOMAIN decoded : First(decoded[i]) < FileBit(data, x)
<1> SUFFICES ASSUME NEW i \in DOMAIN decoded PROVE First(decoded[i]) < FileBit(data, x)
  OBVIOUS
<1>1. WellFormed(input) /\ MagicsApart(input) /\ SlotIs(data)
  BY InputType, SlotsInOrder DEF OrderInv
<1>2. decoded \in Seq(Blocks)
  BY DEF OrderInv, TypeOK
<1>3. decoded # <<>> /\ decoded[i] \in Blocks
  BY <1>2
<1>4. PICK m : CarriedOver(m)
  BY <1>3 DEF OrderInv
<1> DEFINE k == FileBit(data, x)
           h == x \div ByteBits + 1
           f == First(decoded[i])
<1>5. /\ k \in Magics(input) /\ h \in DOMAIN data /\ k \div ByteBits = data[h] /\ x \in Nat
  BY DEF MarksAre
<1>6. /\ m \in Magics(input) /\ data # <<>> /\ data[1] = m \div ByteBits /\ f < m
  BY <1>1, <1>4 DEF CarriedOver, SlotIs
<1>7. k \in Nat /\ m \in Nat /\ f \in Nat
  BY <1>1, <1>3, <1>5, <1>6, BlocksType, FirstsOrder
<1> HIDE DEF k, f
<1>8. data[1] <= data[h] /\ data[1] \in Nat /\ data[h] \in Nat
  <2>1. data \in Seq(Nat) /\ Ascends(data)
    BY <1>1 DEF SlotIs
  <2>2. 1 \in DOMAIN data /\ (h = 1 \/ 1 < h)
    <3>1. h \in 1 .. Len(data) /\ Len(data) \in Nat
      BY <1>5, <2>1
    <3> HIDE DEF h
    <3> QED BY <2>1, <3>1
  <2> HIDE DEF h
  <2>3. data[1] \in Nat /\ data[h] \in Nat
    BY <1>5, <2>1, <2>2
  <2> QED BY <1>5, <2>1, <2>2, <2>3 DEF Ascends
<1> HIDE DEF h
<1>9. CASE k < m
  <2>1. k + ByteBits <= m
    BY <1>1, <1>5, <1>6, <1>9 DEF MagicsApart
  <2>2. k \div ByteBits < m \div ByteBits
    <3> DEFINE K == k \div ByteBits
               M == m \div ByteBits
    <3>1. /\ ByteBits * K <= k /\ m < ByteBits * M + ByteBits /\ K \in Nat /\ M \in Nat
          /\ ByteBits * K \in Nat /\ ByteBits * M \in Nat
      BY <1>7, Widths, Division
    <3>2. ASSUME M <= K PROVE FALSE
      <4>1. ByteBits * M <= ByteBits * K
        BY <3>1, <3>2, Widths, MulMono
      <4> DEFINE a == ByteBits * K
                 b == ByteBits * M
      <4>2. a \in Nat /\ b \in Nat /\ b <= a /\ a <= k /\ m < b + ByteBits /\ ByteBits \in Nat
        BY <3>1, <4>1, Widths
      <4> HIDE DEF a, b
      <4> QED BY <1>7, <2>1, <4>2
    <3> QED BY <3>1, <3>2
  <2> QED BY <1>5, <1>6, <1>8, <2>2
<1>10. CASE ~(k < m)
  <2>1. f < k
    BY <1>6, <1>7, <1>10
  <2> QED BY <2>1 DEF f, k
<1> QED BY <1>9, <1>10

LEMMA OrderInit == Init => OrderInv
<1> SUFFICES ASSUME Init PROVE OrderInv
  OBVIOUS
<1> DEFINE h == HeaderSize
<1>1. /\ input \in Inputs /\ n \in WorkerCounts /\ carry = Bytes(0, h)
      /\ pos = h /\ decoded = <<>> /\ pc = "loop"
  BY DEF Init
<1>2. WellFormed(input) /\ h <= input.size /\ h \in Nat \ {0}
  BY <1>1, FilesAssumption, CarryAssumption
<1>3. input.size \in Nat
  BY <1>2 DEF WellFormed
<1> HIDE DEF h
<1>4. 0 \in Nat /\ 0 <= h /\ h \in Nat
  BY <1>2
<1>5. /\ carry \in Seq(0 .. h - 1) /\ DOMAIN carry = 1 .. h - 0
      /\ \A i \in 1 .. h - 0 : carry[i] = 0 + i - 1
  BY <1>1, <1>4, StretchOfBytes
<1>6. carry \in Seq(0 .. input.size - 1)
  <2>1. 0 .. h - 1 \subseteq 0 .. input.size - 1
    BY <1>2, <1>3
  <2> QED BY <1>5, <2>1, SeqWidens
<1>7. CarryInOrder
  BY <1>1, <1>2, <1>5 DEF CarryInOrder, Ascends
<1>8. Ascends(decoded) /\ decoded \in Seq(Blocks)
  BY <1>1 DEF Ascends
<1> QED BY <1>1, <1>2, <1>3, <1>6, <1>7, <1>8 DEF OrderInv, TypeOK

LEMMA OrderAccept ==
  ASSUME OrderInv, Accept
  PROVE  OrderInv'
<1>1. PICK data \in Slots : \E split \in Splits(data) \ {NoSplit} :
        /\ decoded' = decoded \o DecodeAll(data, split)
        /\ carry' = SubSeq(data, split.consumed + 1, Len(data))
  BY DEF Accept
<1>2. PICK split \in Splits(data) \ {NoSplit} :
        /\ decoded' = decoded \o DecodeAll(data, split)
        /\ carry' = SubSeq(data, split.consumed + 1, Len(data))
  BY <1>1
<1>3. /\ pc = "loop" /\ input' = input /\ n' = n
      /\ pos' = pos + ReadLen /\ pc' = IF IsLast THEN "done" ELSE "loop"
  BY DEF Accept
<1>4. /\ WellFormed(input) /\ MagicsApart(input) /\ input.size \in Nat /\ n \in Nat \ {0}
      /\ pos \in Nat /\ ReadLen \in Nat /\ pos + ReadLen <= input.size /\ IsLast \in BOOLEAN
      /\ TypeOK
  BY InputType, ReadLenType DEF OrderInv
<1>5. SlotIs(data)
  BY SlotsInOrder
<1> DEFINE buf == Marked(data)
           d == DecodeAll(data, split)
<1>6. split = SplitChunk(buf, n, IsLast) /\ split # NoSplit
  BY <1>2 DEF Splits
<1>7. MarksAre(data, buf)
  BY <1>4, <1>5, MarksOfSlot DEF SlotIs
<1> HIDE DEF buf
<1>8. BufferType(buf) /\ buf.bytes = Len(data)
  BY <1>7 DEF MarksAre
<1>9. SplitIs(buf, split, IsLast)
  BY <1>4, <1>6, <1>8, SplitsInOrder
<1>10. DecodedIs(d, data, split)
  BY <1>4, <1>5, <1>7, <1>9, DecodesInOrder DEF SlotIs
<1> HIDE DEF d
<1>11. decoded' = decoded \o d
  BY <1>2 DEF d
<1>12. /\ split.starts \in Seq(Nat) /\ split.count \in 1 .. Len(split.starts)
       /\ \A i \in 1 .. Len(split.starts) : split.starts[i] \in buf.marks /\ split.starts[i] \in Nat
  BY <1>9 DEF SplitIs
<1>13. \A i \in DOMAIN decoded : First(decoded[i]) < FileBit(data, split.starts[1])
  <2>1. split.starts[1] \in buf.marks
    <3>1. 1 \in 1 .. Len(split.starts)
      BY <1>12
    <3> QED BY <1>12, <3>1
  <2> QED BY <1>3, <1>7, <2>1, NothingTwice
<1>14. /\ Blocks \in SUBSET Int /\ decoded \in Seq(Blocks) /\ d \in Seq(Blocks)
       /\ Ascends(decoded) /\ Ascends(d)
  BY <1>4, <1>10, FirstsOrder DEF OrderInv, TypeOK, DecodedIs
<1>15. InFront(decoded, d)
  <2> SUFFICES ASSUME NEW i \in DOMAIN decoded, NEW j \in DOMAIN d PROVE decoded[i] < d[j]
    BY DEF InFront
  <2> DEFINE f == FileBit(data, split.starts[1])
             x == First(decoded[i])
             y == First(d[j])
  <2>1. decoded[i] \in Blocks /\ d[j] \in Blocks
    BY <1>14
  <2>2. x < f /\ f <= y
    BY <1>10, <1>13 DEF DecodedIs
  <2>3. x \in Nat /\ y \in Nat
    BY <1>4, <2>1, FirstsOrder
  <2>4. f \in Nat
    <3>1. 1 \in 1 .. Len(split.starts)
      BY <1>12
    <3>2. f \in Magics(input)
      BY <1>7, <1>12, <3>1 DEF MarksAre
    <3> HIDE DEF f
    <3> QED BY <1>4, <3>2, BlocksType
  <2>5. x < y
    <3> HIDE DEF x, y, f
    <3> QED BY <2>2, <2>3, <2>4
  <2> QED BY <1>4, <2>1, <2>5, FirstsOrder
<1>16. decoded' \in Seq(Blocks) /\ Ascends(decoded') /\ MadeOf(decoded', decoded, d)
  BY <1>11, <1>14, <1>15, AscendsConcat
<1> DEFINE c == split.consumed
           L == Len(data)
<1>17. L \in Nat /\ DOMAIN data = 1 .. L /\ c \in 0 .. L /\ data \in Seq(Nat)
       /\ (split.count < Len(split.starts) =>
             /\ split.count + 1 \in 1 .. Len(split.starts)
             /\ c = split.starts[split.count + 1] \div ByteBits /\ c + 1 \in 1 .. L)
  <2>1. L \in Nat /\ DOMAIN data = 1 .. L /\ data \in Seq(Nat)
    BY <1>5 DEF SlotIs
  <2>2. CASE split.count < Len(split.starts)
    <3>1. split.count + 1 \in 1 .. Len(split.starts)
      BY <1>12, <2>2
    <3> DEFINE x == split.starts[split.count + 1]
    <3>2. x \in Nat /\ x \in buf.marks /\ c = x \div ByteBits
      BY <1>9, <1>12, <2>2, <3>1 DEF SplitIs
    <3> HIDE DEF x
    <3>3. x \div ByteBits + 1 \in DOMAIN data /\ x \div ByteBits \in Nat
      BY <1>7, <3>2, Widths, Division DEF MarksAre
    <3>4. c + 1 \in 1 .. L /\ c \in Nat
      BY <2>1, <3>2, <3>3
    <3>5. c \in 0 .. L
      BY <2>1, <3>4
    <3> QED BY <2>1, <3>1, <3>2, <3>4, <3>5 DEF x
  <2>3. CASE ~(split.count < Len(split.starts))
    <3>1. c = L
      BY <1>8, <1>9, <2>3 DEF SplitIs
    <3> QED BY <2>1, <2>3, <3>1
  <2> QED BY <2>2, <2>3
<1> HIDE DEF c, L
<1>18. carry' = [i \in 1 .. L - c |-> data[c + i]]
  <2>1. carry' = SubSeq(data, c + 1, L)
    BY <1>2 DEF c, L
  <2>2. c + 1 \in Nat /\ L \in Nat /\ c + 1 <= L + 1
    BY <1>17
  <2>3. SubSeq(data, c + 1, L) = [i \in 1 .. L - (c + 1) + 1 |-> data[c + 1 + i - 1]]
    BY <2>2, Stretch
  <2>4. L - (c + 1) + 1 = L - c /\ \A i \in 1 .. L - c : c + 1 + i - 1 = c + i
    BY <1>17
  <2> QED BY <2>1, <2>3, <2>4
<1>19. L - c \in Nat /\ \A i \in 1 .. L - c : c + i \in DOMAIN data
  BY <1>17
<1>20. carry' \in Seq(0 .. input.size - 1)
  <2> DEFINE R == 0 .. input.size - 1
  <2>1. data \in Seq(R)
    BY <1>5 DEF SlotIs
  <2> HIDE DEF R
  <2>2. \A i \in DOMAIN data : data[i] \in R
    BY <2>1
  <2>3. carry' \in [1 .. L - c -> R]
    BY <1>18, <1>19, <2>2
  <2>4. carry' \in Seq(R)
    BY <1>19, <2>3
  <2> QED BY <2>4 DEF R
<1>21. CarryInOrder'
  <2>1. Ascends(data) /\ \A i \in DOMAIN data : data[i] < pos'
    BY <1>3, <1>5 DEF SlotIs
  <2>2. DOMAIN carry' = 1 .. L - c /\ \A i \in 1 .. L - c : carry'[i] = data[c + i]
    BY <1>18
  <2>3. \A i, j \in 1 .. L - c : i < j => c + i < c + j
    BY <1>17
  <2>4. Ascends(carry')
    BY <1>19, <2>1, <2>2, <2>3 DEF Ascends
  <2>5. \A i \in DOMAIN carry' : carry'[i] < pos'
    BY <1>19, <2>1, <2>2
  <2> QED BY <2>4, <2>5 DEF CarryInOrder
<1>22. ASSUME pc' = "loop" PROVE \E m : CarriedOver(m)'
  <2>1. split.count < Len(split.starts)
    BY <1>3, <1>4, <1>9, <1>22 DEF SplitIs
  <2> DEFINE x == split.starts[split.count + 1]
             m == FileBit(data, x)
  <2>2. /\ x \in buf.marks /\ c = x \div ByteBits /\ c + 1 \in 1 .. L
        /\ split.count + 1 \in 1 .. Len(split.starts)
    BY <1>12, <1>17, <2>1
  <2>3. m \in Magics(input) /\ m \div ByteBits = data[c + 1]
    BY <1>7, <2>2 DEF MarksAre
  <2>4. 1 \in 1 .. L - c
    BY <1>17, <2>2
  <2>5. carry' # <<>> /\ carry'[1] = m \div ByteBits
    BY <1>18, <2>3, <2>4
  <2>6. FileBit(data, split.starts[1]) <= m /\ m \in Nat /\ FileBit(data, split.starts[1]) \in Nat
    <3> DEFINE y == split.starts[1]
    <3>1. y \in buf.marks /\ y \in Nat /\ x \in Nat /\ y <= x
      <4>1. 1 \in 1 .. Len(split.starts) /\ 1 < split.count + 1
        BY <1>12
      <4>2. y < x
        BY <1>9, <2>2, <4>1 DEF SplitIs, Ascends
      <4> QED BY <1>12, <2>2, <4>1, <4>2
    <3> HIDE DEF x, y
    <3>2. x \div ByteBits + 1 \in DOMAIN data
      BY <1>7, <2>2 DEF MarksAre
    <3>3. Shift(data, y) \in Nat /\ Shift(data, x) \in Nat /\ Shift(data, y) <= Shift(data, x)
      BY <1>5, <3>1, <3>2, ShiftsGrow DEF SlotIs
    <3>4. FileBit(data, y) <= m /\ m \in Nat /\ FileBit(data, y) \in Nat
      BY <3>1, <3>3 DEF FileBit
    <3> QED BY <3>4 DEF y
  <2>7. \A i \in DOMAIN decoded' : First(decoded'[i]) < m
    <3>1. \A i \in DOMAIN d : First(d[i]) < m
      BY <1>10, <2>1 DEF DecodedIs
    <3>2. ASSUME NEW i \in DOMAIN decoded PROVE First(decoded[i]) < m
      <4>1. decoded[i] \in Blocks
        BY <1>14
      <4>2. First(decoded[i]) \in Nat
        BY <1>4, <4>1, FirstsOrder
      <4> HIDE DEF m
      <4> QED BY <1>13, <2>6, <4>2
    <3> QED BY <1>16, <3>1, <3>2 DEF MadeOf
  <2> HIDE DEF m, x
  <2>8. PICK k : k = m
    OBVIOUS
  <2>9. k \in Magics(input) /\ carry' # <<>> /\ carry'[1] = k \div ByteBits
        /\ \A i \in DOMAIN decoded' : First(decoded'[i]) < k
    BY <2>3, <2>5, <2>7, <2>8
  <2>10. CarriedOver(k)'
    BY <1>3, <2>9 DEF CarriedOver, First
  <2> QED BY <2>10
<1>23. TypeOK'
  <2>1. Blocks' = Blocks
    BY <1>3 DEF Blocks
  <2>2. pos' \in 0 .. input'.size /\ pc' \in {"loop", "done", "panicked"}
    BY <1>3, <1>4
  <2>3. input' \in Inputs /\ n' \in WorkerCounts
    BY <1>3, <1>4 DEF TypeOK
  <2> QED BY <1>3, <1>16, <1>20, <2>1, <2>2, <2>3 DEF TypeOK
<1> QED BY <1>16, <1>21, <1>22, <1>23 DEF OrderInv

LEMMA OrderStep ==
  ASSUME OrderInv, [Next]_vars
  PROVE  OrderInv'
<1>1. CASE Accept
  BY <1>1, OrderAccept
<1>2. CASE Reject
  <2>1. UNCHANGED <<input, n, carry, decoded>> /\ pos' = pos + ReadLen /\ pc = "loop"
        /\ pc' \in {"loop", "done"}
    BY <1>2 DEF Reject
  <2>2. ReadLen \in Nat /\ pos \in Nat /\ pos + ReadLen <= input.size /\ carry \in Seq(Nat) /\ TypeOK
    BY InputType, ReadLenType DEF OrderInv
  <2>3. TypeOK'
    <3>1. pos' \in 0 .. input.size
      BY <2>1, <2>2
    <3> QED BY <2>1, <2>2, <3>1 DEF TypeOK, Blocks
  <2>4. CarryInOrder'
    <3>1. \A i \in DOMAIN carry : carry[i] \in Nat /\ carry[i] < pos
      BY <2>2 DEF OrderInv, CarryInOrder
    <3>2. \A i \in DOMAIN carry : carry[i] < pos'
      BY <2>1, <2>2, <3>1
    <3> QED BY <2>1, <3>2 DEF OrderInv, CarryInOrder
  <2>5. \A m : CarriedOver(m)' <=> CarriedOver(m)
    BY <2>1 DEF CarriedOver, First
  <2> QED BY <2>1, <2>3, <2>4, <2>5 DEF OrderInv
<1>3. CASE NothingLeft \/ CarryOverflow
  <2>1. UNCHANGED <<input, n, carry, pos, decoded>> /\ pc' \in {"done", "panicked"}
    BY <1>3 DEF NothingLeft, CarryOverflow
  <2> QED BY <2>1 DEF OrderInv, TypeOK, CarryInOrder, Blocks
<1>4. CASE UNCHANGED vars
  BY <1>4 DEF vars, OrderInv, TypeOK, CarryInOrder, CarriedOver, Blocks, First
<1> QED BY <1>1, <1>2, <1>3, <1>4 DEF Next, Stopped

\* The variables of main's loop keep their types for every file, wherever it is
\* cut, every number of workers, chunk and headroom.
THEOREM CarryTypeCorrect == Spec => []TypeOK
<1>1. OrderInv => TypeOK
  BY DEF OrderInv
<1> QED BY <1>1, OrderInit, OrderStep, PTL DEF Spec

\* No block is decoded twice or out of order, however few workers there are,
\* whatever chunks are dropped (split_chunk's None), whatever blocks fail and
\* wherever a false magic splits a block.
THEOREM NothingDecodedTwice == Spec => []DecodedInOrder
<1>1. OrderInv => DecodedInOrder
  BY DEF OrderInv, DecodedInOrder, Ascends
<1> QED BY <1>1, OrderInit, OrderStep, PTL DEF Spec

-----------------------------------------------------------------------------
(* The last of n cuts                                                      *)

\* Behind the last of n nominal cuts there is room for a part, in front of it, too.
LEMMA LastCut ==
  ASSUME NEW T \in Nat, NEW k \in Nat \ {0}, NEW C \in Nat, C <= T, k # 1
  PROVE  LET P == (T * (k - 1)) \div k IN
         /\ P \in Nat /\ C \div k \in Nat
         /\ C \div k <= P /\ P + (C \div k) <= T
<1> DEFINE X == T * (k - 1)
           P == X \div k
           Q == T \div k
           R == C \div k
           Y == T * k
<1>1. k - 1 \in Nat /\ k - 1 # 0
  OBVIOUS
<1>2. X \in Nat /\ X = Y - T /\ Y \in Nat
  <2>1. (k - 1) * T = k * T - T
    BY LessOne
  <2>2. (k - 1) * T = X /\ k * T = Y /\ X \in Nat /\ Y \in Nat
    BY <1>1, Products
  <2> QED BY <2>1, <2>2
<1>3. T <= X
  <2> DEFINE j == k - 1 - 1
  <2>1. j \in Nat /\ k - 1 = j + 1 + 0
    BY <1>1
  <2> HIDE DEF j
  <2>2. (j + 1 + 0) * T = j * T + 1 * T + 0 * T /\ j * T \in Nat /\ 1 * T = T /\ 0 * T = 0
    BY <2>1, Distributes, Products
  <2>3. (k - 1) * T = T * (k - 1)
    BY <1>1, Products
  <2> QED BY <2>1, <2>2, <2>3
<1> HIDE DEF X, Y
<1>4. P \in Nat /\ Q \in Nat /\ R \in Nat /\ k * P \in Nat /\ k * P <= X /\ k * Q \in Nat /\ k * Q <= T
  BY <1>2, Division
<1>5. R <= Q /\ Q <= P
  BY <1>2, <1>3, DivMono
<1> HIDE DEF P, Q, R
<1>6. P + Q <= T
  <2> SUFFICES ASSUME T + 1 <= P + Q PROVE FALSE
    BY <1>4
  <2>1. k * (T + 1) <= k * (P + Q)
    BY <1>4, MulMono
  <2>2. k * (P + Q) = k * P + k * Q
    <3>1. (P + Q + 0) * k = P * k + Q * k + 0 * k /\ 0 * k = 0
      BY <1>4, Distributes
    <3>2. (P + Q) * k = k * (P + Q) /\ P * k = k * P /\ Q * k = k * Q
      BY <1>4, Products
    <3> QED BY <1>4, <3>1, <3>2
  <2>3. k * (T + 1) = Y + k
    <3>1. (T + 1 + 0) * k = T * k + 1 * k + 0 * k /\ 1 * k = k /\ 0 * k = 0
      BY Distributes
    <3>2. (T + 1) * k = k * (T + 1)
      BY Products
    <3> QED BY <1>2, <3>1, <3>2 DEF Y
  <2> DEFINE u == k * P
             v == k * Q
  <2>4. u \in Nat /\ v \in Nat /\ Y + k <= u + v /\ u <= X /\ v <= T
    BY <1>4, <2>1, <2>2, <2>3
  <2> HIDE DEF u, v
  <2> QED BY <1>2, <2>4
<1> QED BY <1>4, <1>5, <1>6 DEF P, R, X

\* Who cuts at or behind that, leaves at most a part, rounded up: L bytes, cut
\* at byte y, the last of them a part of a slot that fits the headroom.
LEMMA CutLeaves ==
  ASSUME NEW L \in Nat, NEW k \in Nat \ {0}, NEW H \in Nat, L <= H * k,
         NEW s \in Nat, ((L * ByteBits) * (k - 1)) \div k <= s, NEW y, y = s \div ByteBits, y <= L
  PROVE  L - y <= H
<1> DEFINE T == L * ByteBits
           X == T * (k - 1)
           P == X \div k
<1>1. ByteBits \in Nat \ {0}
  BY Widths
<1>2. T \in Nat /\ X \in Nat
  <2>1. k - 1 \in Nat
    OBVIOUS
  <2> QED BY <1>1, <2>1, Products
<1>3. P \in Nat /\ X < k * P + k /\ k * P \in Nat /\ P <= s
  <2> HIDE DEF X
  <2> QED BY <1>2, Division DEF X
<1>4. y \in Nat /\ s < ByteBits * y + ByteBits /\ ByteBits * y \in Nat
  BY <1>1, Division
<1> HIDE DEF P
<1> DEFINE z == y + 1
           Z == z * ByteBits
<1>5. z \in Nat /\ Z \in Nat /\ Z = ByteBits * y + ByteBits
  <2>1. y + 1 + 0 = z /\ (y + 1 + 0) * ByteBits = y * ByteBits + 1 * ByteBits + 0 * ByteBits
        /\ 1 * ByteBits = ByteBits /\ 0 * ByteBits = 0 /\ y * ByteBits = ByteBits * y
    BY <1>1, <1>4, Distributes, Products
  <2>2. z \in Nat
    BY <1>4
  <2> QED BY <1>1, <1>4, <2>1, <2>2
<1>6. P + 1 <= Z
  BY <1>3, <1>4, <1>5
<1>7. X < k * Z /\ k * Z \in Nat
  <2>1. k * (P + 1) <= k * Z
    BY <1>3, <1>5, <1>6, MulMono
  <2>2. k * (P + 1) = k * P + k
    <3>1. (P + 1 + 0) * k = P * k + 1 * k + 0 * k /\ 1 * k = k /\ 0 * k = 0
      BY <1>3, Distributes
    <3>2. (P + 1) * k = k * (P + 1) /\ P * k = k * P
      BY <1>3, Products
    <3> QED BY <1>3, <3>1, <3>2
  <2>3. k * Z \in Nat
    BY <1>5, Products
  <2> HIDE DEF X
  <2> QED BY <1>2, <1>3, <2>1, <2>2, <2>3
\* Divided by the bits of a byte.
<1>8. L * (k - 1) < k * z
  <2> DEFINE A == L * (k - 1)
             B == k * z
  <2>1. A \in Nat /\ B \in Nat /\ X = A * ByteBits /\ k * Z = B * ByteBits
    <3>1. k - 1 \in Nat
      OBVIOUS
    <3> HIDE DEF z
    <3>2. A \in Nat /\ (L * ByteBits) * (k - 1) = (L * (k - 1)) * ByteBits
      BY <1>1, <3>1, Products
    <3>3. B \in Nat /\ B = z * k /\ (z * k) * ByteBits = (z * ByteBits) * k /\ Z * k = k * Z
      BY <1>1, <1>5, Products
    <3> QED BY <3>2, <3>3
  <2> HIDE DEF A, B, X, Z
  <2>2. ASSUME B <= A PROVE FALSE
    <3>1. ByteBits * B <= ByteBits * A
      BY <1>1, <2>1, <2>2, MulMono
    <3>2. ByteBits * B = B * ByteBits /\ ByteBits * A = A * ByteBits
      BY <1>1, <2>1, Products
    <3> DEFINE u == A * ByteBits
               v == B * ByteBits
    <3>3. v <= u /\ u < v /\ u \in Nat /\ v \in Nat
      BY <1>2, <1>7, <2>1, <3>1, <3>2
    <3> HIDE DEF u, v
    <3> QED BY <3>3
  <2>3. A < B
    BY <2>1, <2>2
  <2> QED BY <2>3 DEF A, B
<1>9. L * (k - 1) = k * L - L /\ k * L \in Nat
  <2>1. (k - 1) * L = k * L - L
    BY LessOne
  <2>2. k - 1 \in Nat
    OBVIOUS
  <2> QED BY <2>1, <2>2, Products
<1> SUFFICES ASSUME H + 1 <= L - y PROVE FALSE
  BY <1>4
<1>10. z + H <= L /\ k * (z + H) <= k * L
  <2>1. z + H <= L
    BY <1>4
  <2> QED BY <1>5, <2>1, MulMono
<1>11. k * (z + H) = k * z + k * H /\ k * z \in Nat /\ k * H \in Nat /\ k * H = H * k
  <2> HIDE DEF z
  <2>1. (z + H + 0) * k = z * k + H * k + 0 * k /\ 0 * k = 0
    BY <1>5, Distributes
  <2>2. (z + H) * k = k * (z + H) /\ z * k = k * z /\ H * k = k * H /\ k * z \in Nat /\ k * H \in Nat
    BY <1>5, Products
  <2> QED BY <1>5, <2>1, <2>2
<1> DEFINE a == k * L
           b == k * z
           c == k * H
<1>12. a \in Nat /\ b \in Nat /\ c \in Nat /\ a - L < b /\ b + c <= a /\ L <= c
  BY <1>8, <1>9, <1>10, <1>11
<1> HIDE DEF a, b, c, z
<1> QED BY <1>12

-----------------------------------------------------------------------------
(* Slots that are stretches of the file                                    *)

\* The marks of a slot from byte a to byte q, and what is verified of them.
IsStretch(a, q, buf) ==
  /\ BufferType(buf) /\ buf.bytes = q - a
  /\ TotalBits(buf) = q * ByteBits - a * ByteBits
  /\ \A x : x \in buf.marks <=> \E m \in Magics(input) : InStretch(a, q, m) /\ x = m - a * ByteBits
  /\ \A b \in Blocks : InStretch(a, q, First(b)) => First(b) - a * ByteBits \in buf.marks \cap buf.sound
  /\ Whole => \A x \in buf.sound : \E b \in Blocks : InStretch(a, q, First(b)) /\ x = First(b) - a * ByteBits

LEMMA StretchMarked ==
  ASSUME WellFormed(input), NEW a \in Nat, NEW q \in Nat, a <= q
  PROVE  IsStretch(a, q, Marked(Bytes(a, q)))
<1> DEFINE data == Bytes(a, q)
           raw == Buffer(input, data)
           buf == Marked(data)
           aB == a * ByteBits
<1>1. /\ buf.bytes = raw.bytes /\ buf.marks = raw.marks
      /\ buf.sound = raw.sound \cup UNION {Occurrences(data, m) : m \in input.forged}
  BY DEF Marked, Buffer
<1>2. /\ BufferType(raw) /\ TotalBits(raw) = q * ByteBits - aB
      /\ \A x : x \in raw.marks <=> \E m \in Magics(input) : InStretch(a, q, m) /\ x = m - aB
  BY BufferOfStretch
<1>3. raw.bytes = q - a
  <2>1. raw.bytes = Len(data)
    BY DEF Buffer
  <2> QED BY <2>1, StretchOfBytes
<1>4. raw.sound = UNION {Occurrences(data, First(b)) : b \in Blocks}
  BY DEF Buffer, Blocks, First
<1>5. \A b \in Blocks : First(b) \in Nat /\ First(b) \in Magics(input)
  BY BlocksType DEF Blocks, First, Magics
<1> HIDE DEF raw, aB
<1>6. ASSUME NEW b \in Blocks
      PROVE  /\ InStretch(a, q, First(b)) => Occurrences(data, First(b)) = {First(b) - aB}
             /\ ~ InStretch(a, q, First(b)) => Occurrences(data, First(b)) = {}
  BY <1>5, OccurrencesInStretch DEF aB
<1> HIDE DEF data
<1>7. ASSUME NEW b \in Blocks, InStretch(a, q, First(b))
      PROVE  First(b) - aB \in buf.marks \cap buf.sound
  <2>1. First(b) - aB \in raw.marks
    BY <1>2, <1>5, <1>7
  <2>2. First(b) - aB \in raw.sound
    BY <1>4, <1>6, <1>7
  <2> HIDE DEF buf
  <2> QED BY <1>1, <2>1, <2>2
<1>8. ASSUME Whole, NEW x \in buf.sound
      PROVE  \E b \in Blocks : InStretch(a, q, First(b)) /\ x = First(b) - aB
  <2> HIDE DEF buf
  <2>1. buf.sound = raw.sound
    BY <1>1, <1>8 DEF Whole
  <2>2. PICK b \in Blocks : x \in Occurrences(data, First(b))
    BY <1>4, <1>8, <2>1
  <2> QED BY <1>6, <2>2
<1> HIDE DEF buf
<1>9. TotalBits(buf) = TotalBits(raw) /\ BufferType(buf)
  BY <1>1, <1>2 DEF TotalBits, BufferType
<1>10. IsStretch(a, q, buf)
  BY <1>1, <1>2, <1>3, <1>7, <1>8, <1>9 DEF IsStretch, aB
<1> QED BY <1>10 DEF buf, data

\* The magic the slot begins with.
Leads(m, a) ==
  /\ m \in Magics(input) /\ a * ByteBits <= m /\ m <= (a + HeaderSize) * ByteBits
  /\ \A k \in Magics(input) : a * ByteBits <= k => m <= k

\* It is the first the scan finds, if any.
LEMMA FirstFound ==
  ASSUME WellFormed(input), NEW a \in Nat, NEW q \in Nat, a <= q, NEW buf, IsStretch(a, q, buf),
         NEW m, Leads(m, a)
  PROVE  /\ FindNextBlock(buf, 0) \in {None, m - a * ByteBits}
         /\ m + Window * ByteBits <= q * ByteBits => FindNextBlock(buf, 0) = m - a * ByteBits
<1> DEFINE aB == a * ByteBits
           qB == q * ByteBits
           w == Window * ByteBits
           c == FindNextBlock(buf, 0)
<1>1. /\ aB \in Nat /\ qB \in Nat /\ w \in Nat /\ MagicBits \in Nat /\ MagicBits <= w
      /\ Magics(input) \subseteq Nat /\ m \in Magics(input) /\ aB <= m
      /\ \A k \in Magics(input) : aB <= k => m <= k
  BY Widths, Products, BlocksType DEF Leads
<1>2. /\ TotalBits(buf) = qB - aB /\ buf.marks \subseteq Nat
      /\ \A x : x \in buf.marks <=> \E k \in Magics(input) : InStretch(a, q, k) /\ x = k - aB
  BY DEF IsStretch, BufferType
<1>3. \/ c = None /\ \A x \in buf.marks : 0 <= x => x + w > TotalBits(buf)
      \/ c \in buf.marks /\ \A x \in buf.marks : 0 <= x => c <= x
  <2>1. 0 \in Nat /\ BufferType(buf)
    BY DEF IsStretch
  <2> QED BY <2>1, NextBlock
<1>4. \A k : InStretch(a, q, k) <=> aB <= k /\ k + MagicBits <= qB
  BY DEF InStretch
<1> HIDE DEF aB, qB, w, c
<1>5. ASSUME c # None PROVE c = m - aB
  <2>1. c \in buf.marks /\ \A x \in buf.marks : c <= x
    BY <1>2, <1>3, <1>5
  <2>2. PICK k \in Magics(input) : InStretch(a, q, k) /\ c = k - aB
    BY <1>2, <2>1
  <2>3. k \in Nat /\ m \in Nat /\ m <= k /\ InStretch(a, q, m)
    BY <1>1, <1>4, <2>2
  <2>4. c <= m - aB
    BY <1>1, <1>2, <2>1, <2>3
  <2> QED BY <1>1, <2>2, <2>3, <2>4
<1>6. ASSUME m + w <= qB PROVE c # None
  <2>1. m \in Nat /\ InStretch(a, q, m)
    BY <1>1, <1>4, <1>6
  <2>2. m - aB \in buf.marks
    BY <1>1, <1>2, <2>1
  <2>3. m - aB + w <= TotalBits(buf) /\ 0 <= m - aB
    BY <1>1, <1>2, <1>6, <2>1
  <2>4. ASSUME m - aB + w > TotalBits(buf) PROVE FALSE
    BY <1>1, <1>2, <2>1, <2>3, <2>4
  <2>5. c # None \/ m - aB + w > TotalBits(buf)
    <3>1. CASE c \in buf.marks
      <4>1. c \in Nat
        BY <1>2, <3>1
      <4> QED BY <4>1 DEF None
    <3>2. CASE \A x \in buf.marks : 0 <= x => x + w > TotalBits(buf)
      BY <2>2, <2>3, <3>2
    <3> QED BY <1>3, <3>1, <3>2
  <2> QED BY <2>4, <2>5
<1> QED BY <1>5, <1>6 DEF aB, qB, w, c

\* Under Roomy, in numbers.
LEMMA RoomyMeans ==
  ASSUME TypeOK, Roomy
  PROVE  LET part == (ChunkSize * ByteBits) \div n
             w == Window * ByteBits
             h == HeaderSize * ByteBits
             top == input.size * ByteBits IN
         /\ part \in Nat /\ w \in Nat /\ h \in Nat /\ top \in Nat /\ h <= w /\ h < part /\ w <= part /\ n # 1
         /\ First(1) = h /\ 1 \in Blocks
         /\ \A b \in Blocks : First(b) \in Nat /\ Span(b) \in Int /\ Span(b) + MagicBits + VerifyBits + w <= part
         /\ \A b \in Blocks : Span(b) = (IF b + 1 \in Blocks THEN First(b + 1) ELSE top) - First(b)
<1> DEFINE cB == ChunkSize * ByteBits
           part == cB \div n
           w == Window * ByteBits
           h == HeaderSize * ByteBits
           top == input.size * ByteBits
           N == Len(input.blocks)
<1>1. /\ WellFormed(input) /\ n \in Nat \ {0} /\ ChunkSize \in Nat \ {0} /\ HeaderSize \in Nat
      /\ input.size \in Nat /\ HeaderSize <= input.size
  BY InputType
<1>2. HeaderSize <= Window /\ Headroom \in Nat
  BY CarryAssumption, Widths
<1>3. /\ cB \in Nat /\ part \in Nat /\ w \in Nat /\ h \in Nat /\ top \in Nat
      /\ MagicBits \in Nat \ {0} /\ VerifyBits \in Nat \ {0}
  <2>1. cB \in Nat
    BY <1>1, Widths, Products
  <2>2. part \in Nat
    <3> HIDE DEF cB
    <3> QED BY <1>1, <2>1, Division
  <2> QED BY <1>1, <2>1, <2>2, Widths, Products
<1>4. h <= w /\ h <= top
  <2>1. ByteBits * HeaderSize <= ByteBits * Window /\ ByteBits * HeaderSize <= ByteBits * input.size
    BY <1>1, <1>2, Widths, MulMono
  <2>2. ByteBits * HeaderSize = h /\ ByteBits * Window = w /\ ByteBits * input.size = top
    BY <1>1, Widths, Products
  <2> HIDE DEF h, w, top
  <2> QED BY <2>1, <2>2
<1>5. Blocks = 1 .. N /\ N \in Nat /\ \A b \in Blocks : First(b) \in Nat
  BY <1>1, BlocksType DEF Blocks, First
<1>6. 1 \in Blocks /\ First(1) = h
  BY <1>5 DEF Roomy
<1>7. \A b \in Blocks : Span(b) = (IF b + 1 \in Blocks THEN First(b + 1) ELSE top) - First(b)
  BY DEF Span
<1>8. \A b \in Blocks : Span(b) + MagicBits + VerifyBits + w <= part
  BY DEF Roomy
<1> HIDE DEF part, w, h, top, N
<1>9. ASSUME NEW b \in Blocks PROVE Span(b) \in Int
  <2>1. First(b) \in Nat
    BY <1>5
  <2>2. CASE b + 1 \in Blocks
    <3>1. Span(b) = First(b + 1) - First(b) /\ First(b + 1) \in Nat
      BY <1>5, <1>7, <2>2
    <3> QED BY <2>1, <3>1
  <2>3. CASE b + 1 \notin Blocks
    <3>1. Span(b) = top - First(b)
      BY <1>7, <2>3
    <3> QED BY <1>3, <2>1, <3>1
  <2> QED BY <2>2, <2>3
<1>10. n # 1
  <2>1. Headroom * n >= ChunkSize + Headroom
    BY DEF Roomy
  <2>2. Headroom * 1 = Headroom
    BY <1>2
  <2>3. ASSUME n = 1 PROVE FALSE
    <3>1. Headroom >= ChunkSize + Headroom
      BY <2>1, <2>2, <2>3
    <3> QED BY <1>1, <1>2, <3>1
  <2> QED BY <2>3
<1>11. Span(1) >= 0
  <2>1. CASE 2 \in Blocks
    <3>1. First(1) + Window * ByteBits <= First(2)
      <4>1. \A i, j \in DOMAIN input.blocks : i < j => input.blocks[i].first + Window * ByteBits <= input.blocks[j].first
        BY <1>1, FirstsAscend
      <4> QED BY <1>6, <2>1, <4>1 DEF Blocks, First
    <3>2. Span(1) = First(2) - First(1)
      BY <1>6, <1>7, <2>1
    <3> QED BY <1>3, <1>5, <1>6, <2>1, <3>1, <3>2 DEF w
  <2>2. CASE 2 \notin Blocks
    <3>1. Span(1) = top - First(1)
      BY <1>6, <1>7, <2>2
    <3> QED BY <1>3, <1>4, <1>6, <3>1
  <2> QED BY <2>1, <2>2
<1>12. h < part /\ w <= part
  BY <1>3, <1>4, <1>6, <1>8, <1>9, <1>11
<1> QED BY <1>3, <1>4, <1>5, <1>6, <1>7, <1>8, <1>9, <1>10, <1>12 DEF part, w, h, top

\* The search from the last nominal cut of a full slot finds a boundary.
LEMMA LastFound ==
  ASSUME TypeOK, Roomy, NEW a \in Nat, NEW q \in Nat, a + ChunkSize <= q, q <= input.size,
         NEW buf, IsStretch(a, q, buf)
  PROVE  LET P == (TotalBits(buf) * (n - 1)) \div n
             c == FindQuickBoundary(buf, P) IN
         /\ c # None /\ c \in buf.marks /\ P \in Nat /\ P <= c /\ HeaderSize * ByteBits < c
         /\ HeaderSize * ByteBits + Window * ByteBits <= TotalBits(buf)
<1> DEFINE T == TotalBits(buf)
           P == (T * (n - 1)) \div n
           part == (ChunkSize * ByteBits) \div n
           w == Window * ByteBits
           h == HeaderSize * ByteBits
           v == MagicBits + VerifyBits
           aB == a * ByteBits
           qB == q * ByteBits
           top == input.size * ByteBits
           N == Len(input.blocks)
           fp == P + aB
<1>1. /\ WellFormed(input) /\ n \in Nat \ {0} /\ ChunkSize \in Nat /\ HeaderSize \in Nat /\ input.size \in Nat
  BY InputType
<1>2. /\ part \in Nat /\ w \in Nat /\ h \in Nat /\ top \in Nat /\ h <= w /\ h < part /\ w <= part /\ n # 1
      /\ First(1) = h /\ 1 \in Blocks
      /\ \A b \in Blocks : First(b) \in Nat /\ Span(b) \in Int /\ Span(b) + MagicBits + VerifyBits + w <= part
      /\ \A b \in Blocks : Span(b) = (IF b + 1 \in Blocks THEN First(b + 1) ELSE top) - First(b)
  BY RoomyMeans
<1>3. T = qB - aB /\ T \in Nat /\ aB \in Nat /\ qB \in Nat /\ top \in Nat
  BY <1>1, Widths, Products DEF IsStretch, BufferType
<1>4. ChunkSize * ByteBits \in Nat /\ ChunkSize * ByteBits <= T /\ qB <= top
  <2>1. (q - a) * ByteBits = qB - aB
    BY <1>1, StretchBits
  <2>2. q - a \in Nat /\ ChunkSize <= q - a
    BY <1>1
  <2> DEFINE d == q - a
  <2> HIDE DEF d
  <2>3. d \in Nat /\ ChunkSize <= d /\ d * ByteBits = qB - aB
    BY <2>1, <2>2 DEF d
  <2>4. ByteBits * ChunkSize <= ByteBits * d /\ ByteBits * q <= ByteBits * input.size
    BY <1>1, <2>3, Widths, MulMono
  <2>5. /\ ByteBits * ChunkSize = ChunkSize * ByteBits /\ ByteBits * d = d * ByteBits
        /\ ByteBits * q = qB /\ ByteBits * input.size = top /\ ChunkSize * ByteBits \in Nat
    BY <1>1, <2>3, Widths, Products
  <2> HIDE DEF qB, aB, top, T
  <2> QED BY <1>3, <2>3, <2>4, <2>5
<1>5. P \in Nat /\ part <= P /\ P + part <= T
  <2> HIDE DEF T
  <2> QED BY <1>1, <1>2, <1>3, <1>4, LastCut
<1>6. Blocks = 1 .. N /\ N \in Nat
  BY <1>1, BlocksType DEF Blocks
<1>7. v \in Nat /\ MagicBits \in Nat /\ VerifyBits \in Nat
  BY Widths
<1>8. \A i, j \in Blocks : i < j => First(i) + w <= First(j)
  BY <1>1, FirstsAscend DEF Blocks, First
\* The last block that begins in front of the cut has a next one, which the
\* search finds if no other.
<1> HIDE DEF T, P, part, w, h, aB, qB, top, N
<1>9. fp \in Nat
  BY <1>3, <1>5
<1> HIDE DEF fp
<1>10. PICK k \in 1 .. N : First(k) <= fp /\ (k + 1 \in Blocks => fp < First(k + 1))
  <2> DEFINE Q == {b \in 1 .. N : First(b) <= fp}
  <2>1. 1 \in Q
    <3>1. First(1) <= fp
      BY <1>2, <1>3, <1>5 DEF fp
    <3> QED BY <1>2, <1>6, <3>1
  <2>2. \A b \in Q : \A c \in 1 .. N : c < b => c \in Q
    <3> SUFFICES ASSUME NEW b \in Q, NEW c \in 1 .. N, c < b PROVE First(c) <= fp
      OBVIOUS
    <3>1. First(c) + w <= First(b) /\ First(b) <= fp /\ First(c) \in Nat /\ First(b) \in Nat
      BY <1>2, <1>6, <1>8
    <3> QED BY <1>2, <1>9, <3>1
  <2> HIDE DEF Q
  <2>3. PICK k \in 0 .. N : Q = 1 .. k
    <3>1. Q \in SUBSET (1 .. N)
      BY DEF Q
    <3> QED BY <1>6, <2>2, <3>1, DownClosed
  <2>4. k \in 1 .. N /\ k \in Q
    BY <1>6, <2>1, <2>3
  <2>5. ASSUME k + 1 \in Blocks PROVE fp < First(k + 1)
    <3>1. k + 1 \notin Q
      BY <1>6, <2>3, <2>4
    <3> QED BY <1>2, <1>6, <1>9, <2>5, <3>1 DEF Q
  <2> QED BY <2>4, <2>5 DEF Q
<1> DEFINE span == Span(k)
           f == First(k)
<1>11. k \in Blocks /\ f \in Nat /\ f <= fp /\ span \in Int /\ span + v + w <= part
  <2>1. k \in Blocks
    BY <1>6, <1>10
  <2>2. f \in Nat /\ f <= fp /\ span \in Int /\ span + MagicBits + VerifyBits + w <= part
    BY <1>2, <1>10, <2>1
  <2> HIDE DEF f, span
  <2>3. span + v + w <= part
    BY <1>2, <1>7, <2>2
  <2> QED BY <2>1, <2>2, <2>3
<1>12. k + 1 \in Blocks
  <2> SUFFICES ASSUME k + 1 \notin Blocks PROVE FALSE
    OBVIOUS
  <2>1. span = top - f
    BY <1>2, <1>11
  <2> HIDE DEF span, f, v
  <2> QED BY <1>2, <1>3, <1>4, <1>5, <1>7, <1>9, <1>11, <2>1, Widths DEF fp, v
<1> DEFINE g == First(k + 1)
           x == g - aB
<1>13. g \in Nat /\ fp < g /\ g = f + span
  <2>1. span = g - f /\ g \in Nat /\ fp < g
    BY <1>2, <1>10, <1>11, <1>12
  <2> HIDE DEF span, f, g
  <2> QED BY <1>11, <2>1
<1>14. x \in Nat /\ P <= x /\ x + v + w <= T
  <2> HIDE DEF g, f, span, v
  <2> QED BY <1>2, <1>3, <1>5, <1>7, <1>9, <1>11, <1>13 DEF fp
<1>15. x \in buf.marks \cap buf.sound
  <2>1. aB <= g /\ g + MagicBits <= qB
    <3> HIDE DEF g
    <3> QED BY <1>2, <1>3, <1>7, <1>13, <1>14
  <2>2. InStretch(a, q, First(k + 1))
    BY <2>1 DEF InStretch, aB, qB
  <2> QED BY <1>12, <2>2 DEF IsStretch, aB
<1>16. ~(x + MagicBits + VerifyBits > T) /\ ~(x + w > T)
  <2> HIDE DEF x
  <2> QED BY <1>2, <1>3, <1>7, <1>14
<1> DEFINE c == FindQuickBoundary(buf, P)
<1>17. c # None /\ c \in buf.marks /\ P <= c
  <2> HIDE DEF x
  <2>1. \/ /\ c = None
           /\ \A m \in buf.marks \cap buf.sound : P <= m => TooClose(buf, m) \/ m + w > T
        \/ c \in buf.marks \cap buf.sound /\ P <= c
    <3>1. BufferType(buf)
      BY DEF IsStretch
    <3> QED BY <1>5, <3>1, FindQuick DEF w, T
  <2>2. ~ TooClose(buf, x)
    BY <1>16 DEF TooClose, T
  <2>3. c \in buf.marks \cap buf.sound /\ P <= c
    BY <1>14, <1>15, <1>16, <2>1, <2>2
  <2>4. c \in Nat
    BY <2>3 DEF IsStretch, BufferType
  <2> QED BY <2>3, <2>4 DEF None
<1>18. c \in Nat /\ h < c /\ h + w <= T
  <2>1. c \in Nat
    BY <1>17 DEF IsStretch, BufferType
  <2> HIDE DEF c, x, span, f
  <2>2. h < c
    BY <1>2, <1>5, <1>17, <2>1
  <2>3. h + w <= T
    BY <1>2, <1>3, <1>5
  <2> QED BY <2>1, <2>2, <2>3
<1> QED BY <1>5, <1>17, <1>18 DEF P, T, h, w

-----------------------------------------------------------------------------
(* What is decoded of a stretch of the file                                *)

LEMMA BlocksOrder ==
  ASSUME WellFormed(input)
  PROVE  /\ Blocks = 1 .. Len(input.blocks) /\ Len(input.blocks) \in Nat
         /\ \A b \in Blocks : First(b) \in Nat /\ End(b) \in Nat
         /\ \A b, c \in Blocks : b < c => First(b) < First(c) /\ End(b) <= First(c)
         /\ \A b, c \in Blocks : First(b) < First(c) => b < c
<1>2. /\ Blocks = 1 .. Len(input.blocks) /\ Len(input.blocks) \in Nat
      /\ \A b \in Blocks : First(b) \in Nat /\ End(b) \in Nat
  BY BlocksType DEF Blocks, First, End
<1>3. /\ \A b, c \in Blocks : b < c => First(b) < First(c) /\ End(b) <= First(c)
      /\ \A b, c \in Blocks : First(b) < First(c) => b < c
  <2>1. \A b, c \in Blocks : b < c => End(b) <= First(c)
    BY BlocksAscend DEF Blocks, First, End
  <2>2. \A b, c \in Blocks : b < c => First(b) + Window * ByteBits <= First(c)
    BY FirstsAscend DEF Blocks, First
  <2>3. Window * ByteBits \in Nat \ {0}
    BY Widths
  <2> DEFINE w == Window * ByteBits
  <2> HIDE DEF w
  <2>4. ASSUME NEW b \in Blocks, NEW c \in Blocks, b < c PROVE First(b) < First(c)
    <3>1. First(b) + w <= First(c) /\ w \in Nat \ {0}
      BY <2>2, <2>3, <2>4 DEF w
    <3> QED BY <1>2, <3>1
  <2> QED BY <2>1, <2>4, FirstsOrder
<1> QED BY <1>2, <1>3

\* The blocks from h on that begin in front of bit E, are read as a whole and decode.
Reached(h, E, qB) ==
  {b \in Blocks : /\ h <= b /\ First(b) < E
                  /\ \A c \in Blocks : h <= c /\ c <= b => End(c) <= qB /\ c \notin input.damaged}

LEMMA SegmentOf ==
  ASSUME WellFormed(input), NEW a \in Nat, NEW q \in Nat, a <= q,
         NEW h \in Blocks, InStretch(a, q, First(h)), NEW start, start = First(h) - a * ByteBits,
         NEW end \in Nat
  PROVE  DecodeSegment(Bytes(a, q), start, end) = Sorted(Reached(h, end + a * ByteBits, q * ByteBits))
<1> DEFINE data == Bytes(a, q)
           i == start \div ByteBits + 1
           shift == (data[i] - (i - 1)) * ByteBits
           runEnd == (data[RunEnd(data, i)] + 1) * ByteBits
           hit == {b \in Blocks : First(b) = start + shift}
           reached == {b \in Blocks : /\ \A g \in hit : b >= g
                                      /\ hit # {}
                                      /\ First(b) < end + shift
                                      /\ \A c \in Blocks : c <= b /\ (\A g \in hit : c >= g)
                                                           => End(c) <= runEnd /\ c \notin input.damaged}
           aB == a * ByteBits
           qB == q * ByteBits
<1>1. DecodeSegment(data, start, end) = Sorted(reached)
  BY DEF DecodeSegment
<1>2. \A b \in Blocks : First(b) \in Nat
  BY BlocksOrder
<1>3. /\ \A b, c \in Blocks : b < c => First(b) < First(c)
      /\ \A b, c \in Blocks : First(b) < First(c) => b < c
      /\ Blocks \subseteq Nat
  BY BlocksOrder
<1>4. aB \in Nat /\ qB \in Nat /\ (q - a) * ByteBits = qB - aB
  BY StretchBits
<1>5. aB <= First(h) /\ First(h) + MagicBits <= qB /\ MagicBits \in Nat \ {0}
  BY Widths DEF InStretch
<1>6. start \in Nat /\ start < (q - a) * ByteBits
  <2> DEFINE f == First(h)
  <2>1. f \in Nat /\ start = f - aB /\ aB <= f /\ f + MagicBits <= qB
    BY <1>2, <1>5
  <2> HIDE DEF aB, qB, f
  <2>2. start \in Nat /\ start < qB - aB
    BY <1>4, <1>5, <2>1
  <2> QED BY <1>4, <2>2
<1>7. i \in 1 .. q - a
  <2>1. start \div ByteBits \in Nat /\ start \div ByteBits < q - a
    BY <1>6, BitsAndBytes
  <2> QED BY <2>1
<1>8. data[i] = a + i - 1 /\ RunEnd(data, i) = q - a /\ data[q - a] = q - 1
  <2>1. /\ \A j \in 1 .. q - a : data[j] = a + j - 1 /\ RunEnd(data, j) = q - a
    BY StretchOfBytes
  <2> HIDE DEF i, data
  <2>2. data[q - a] = a + (q - a) - 1 /\ q - a \in 1 .. q - a
    BY <1>7, <2>1
  <2> QED BY <1>7, <2>1, <2>2
<1>9. shift = aB /\ runEnd = qB
  <2> HIDE DEF i, data
  <2>1. data[i] - (i - 1) = a /\ data[RunEnd(data, i)] + 1 = q
    BY <1>7, <1>8
  <2> QED BY <2>1
<1>10. start + aB = First(h)
  <2> HIDE DEF aB
  <2> QED BY <1>2, <1>4 DEF aB
<1> HIDE DEF shift, runEnd, i, data, aB, qB
<1>11. hit = {h}
  <2>1. \A b \in Blocks : First(b) = First(h) => b = h
    BY <1>2, <1>3
  <2>2. hit = {b \in Blocks : First(b) = First(h)}
    BY <1>9, <1>10
  <2> QED BY <2>1, <2>2
<1>12. reached = Reached(h, end + aB, qB)
  BY <1>3, <1>9, <1>11 DEF Reached
<1> QED BY <1>1, <1>12 DEF data, aB, qB

\* Where nothing is damaged: the blocks that follow h, one by one, and all of them
\* if a block begins at the end of the segment.
LEMMA SegmentRun ==
  ASSUME WellFormed(input), Whole, NEW a \in Nat, NEW q \in Nat, a <= q,
         NEW h \in Blocks, InStretch(a, q, First(h)), NEW start, start = First(h) - a * ByteBits,
         NEW end \in Nat, end + a * ByteBits <= q * ByteBits
  PROVE  \E e \in h .. Len(input.blocks) + 1 :
           /\ DecodeSegment(Bytes(a, q), start, end) = Bytes(h, e)
           /\ \A c \in Blocks : h < c /\ end + a * ByteBits = First(c) => e = c
<1> DEFINE data == Bytes(a, q)
           N == Len(input.blocks)
           aB == a * ByteBits
           qB == q * ByteBits
           E == end + aB
           reached == Reached(h, E, qB)
<1>1. DecodeSegment(data, start, end) = Sorted(reached)
  BY SegmentOf
<1>2. /\ Blocks = 1 .. N /\ N \in Nat /\ \A b \in Blocks : First(b) \in Nat /\ End(b) \in Nat
  BY BlocksOrder
<1>3. /\ \A b, c \in Blocks : b < c => First(b) < First(c) /\ End(b) <= First(c)
      /\ \A b, c \in Blocks : First(b) < First(c) => b < c
  BY BlocksOrder
<1>4. aB \in Nat /\ qB \in Nat
  BY StretchBits
<1>12. reached = {b \in Blocks : /\ h <= b /\ First(b) < E
                                 /\ \A c \in Blocks : h <= c /\ c <= b => End(c) <= qB}
  BY DEF Whole, Reached
<1> HIDE DEF data, aB, qB, E, reached, N
<1> DEFINE Q == {j \in 1 .. N - h + 1 : h + j - 1 \in reached}
<1>13. h \in 1 .. N /\ N - h + 1 \in Nat
  BY <1>2
<1>14. E \in Nat /\ E <= qB
  BY <1>4 DEF E, aB, qB
<1>15. PICK k \in 0 .. N - h + 1 : Q = 1 .. k
  <2>1. \A x \in Q : \A y \in 1 .. N - h + 1 : y < x => y \in Q
    <3> SUFFICES ASSUME NEW x \in Q, NEW y \in 1 .. N - h + 1, y < x PROVE h + y - 1 \in reached
      OBVIOUS
    <3> DEFINE b == h + x - 1
               c == h + y - 1
    <3>1. b \in reached /\ c \in Blocks /\ h <= c /\ c < b
      BY <1>2, <1>13
    <3> HIDE DEF b, c
    <3>2. b \in Blocks /\ First(b) < E /\ First(c) < First(b)
      BY <1>3, <1>12, <3>1
    <3>3. First(c) < E
      BY <1>2, <1>14, <3>1, <3>2
    <3>4. \A d \in Blocks : h <= d /\ d <= c => h <= d /\ d <= b
      BY <1>2, <3>1, <3>2
    <3>5. c \in reached
      BY <1>12, <3>1, <3>3, <3>4
    <3> QED BY <3>5 DEF c
  <2>2. Q \in SUBSET (1 .. N - h + 1)
    OBVIOUS
  <2> HIDE DEF Q
  <2> QED BY <1>13, <2>1, <2>2, DownClosed
<1> DEFINE e == h + k
           f == Bytes(h, e)
<1>16. e \in h .. N + 1 /\ h \in Nat /\ e \in Nat
  BY <1>2, <1>13
<1>17. f \in [1 .. k -> Int] /\ \A x \in 1 .. k : f[x] = h + x - 1
  <2>1. e - h = k
    BY <1>13
  <2>2. f = [x \in 1 .. k |-> h + x - 1]
    BY <2>1 DEF Bytes
  <2> QED BY <1>13, <2>2
<1> HIDE DEF f
<1>18. reached = {f[x] : x \in 1 .. k}
  <2>1. ASSUME NEW b \in reached PROVE \E x \in 1 .. k : b = f[x]
    <3>1. b \in Blocks /\ h <= b
      BY <1>12
    <3> DEFINE x == b - h + 1
    <3>2. x \in 1 .. N - h + 1 /\ h + x - 1 = b
      BY <1>2, <1>13, <3>1
    <3>3. x \in 1 .. k
      BY <1>15, <3>2
    <3> QED BY <1>17, <3>2, <3>3
  <2>2. ASSUME NEW x \in 1 .. k PROVE f[x] \in reached
    <3>1. x \in Q
      BY <1>15
    <3> QED BY <1>17, <3>1
  <2> QED BY <2>1, <2>2
<1>19. Sorted(reached) = f
  <2>1. \A x, y \in 1 .. k : x < y => f[x] < f[y]
    BY <1>13, <1>17
  <2>2. k \in Nat
    BY <1>13
  <2> QED BY <1>17, <1>18, <2>1, <2>2, SortedIs
<1>20. ASSUME NEW c \in Blocks, h < c, E = First(c) PROVE e = c
  <2>1. \A b \in Blocks : b < c => First(b) < E /\ End(b) <= qB
    <3> SUFFICES ASSUME NEW b \in Blocks, b < c PROVE First(b) < E /\ End(b) <= qB
      OBVIOUS
    <3>1. First(b) < E /\ End(b) <= E
      BY <1>3, <1>20
    <3> QED BY <1>2, <1>4, <1>14, <3>1 DEF qB
  <2>2. c \in 1 .. N /\ c \in Nat
    BY <1>2
  <2>3. ASSUME k + 1 < c - h + 1 PROVE FALSE
    <3> DEFINE b == h + k
    <3>1. b \in Blocks /\ h <= b /\ b < c /\ k + 1 \in 1 .. N - h + 1 /\ h + (k + 1) - 1 = b
      BY <1>2, <1>13, <2>2, <2>3
    <3> HIDE DEF b
    <3>2. \A d \in Blocks : d <= b => d < c
      BY <1>2, <2>2, <3>1
    <3>3. b \in reached
      BY <1>12, <2>1, <3>1, <3>2
    <3>4. k + 1 \in Q
      BY <3>1, <3>3
    <3> QED BY <1>13, <1>15, <3>4
  <2>4. ASSUME c - h < k PROVE FALSE
    <3> DEFINE y == c - h + 1
    <3>1. y \in 1 .. k /\ h + y - 1 = c
      BY <1>13, <1>20, <2>2, <2>4
    <3>2. c \in reached
      BY <1>15, <3>1
    <3>3. First(c) < E /\ First(c) \in Nat
      BY <1>2, <1>12, <3>2
    <3> QED BY <1>20, <3>3
  <2> QED BY <1>13, <2>2, <2>3, <2>4
<1> QED BY <1>1, <1>16, <1>19, <1>20 DEF f, data, E, aB, N

\* Runs that follow one another, put together.
LEMMA FlatRuns ==
  ASSUME NEW k \in Nat \ {0}, NEW t, \A j \in 1 .. k + 1 : t[j] \in Nat,
         \A j \in 1 .. k : t[j] <= t[j + 1],
         NEW g \in [1 .. k -> Seq(Nat)], \A j \in 1 .. k : g[j] = Bytes(t[j], t[j + 1])
  PROVE  FlattenSeq(g) = Bytes(t[1], t[k + 1]) /\ t[1] <= t[k + 1]
<1>1. PICK v \in [1 .. k -> Seq(Nat)] : IsFlat(v, g, k) /\ FlattenSeq(g) = v[k]
  BY FlatIs
<1> DEFINE P(j) == v[j] = Bytes(t[1], t[j + 1]) /\ t[1] <= t[j + 1]
           E == {e \in Nat : e + 1 \in 1 .. k => P(e + 1)}
<1>2. 0 \in E
  <2>1. 1 \in 1 .. k
    OBVIOUS
  <2>2. v[1] = g[1]
    BY <1>1, <2>1 DEF IsFlat
  <2>3. P(1)
    BY <2>1, <2>2
  <2> QED BY <2>3
<1>3. ASSUME NEW e \in Nat, e \in E PROVE e + 1 \in E
  <2>1. CASE e + 1 + 1 \in 1 .. k
    <3> DEFINE j == e + 1
               i == j + 1
    <3>1. j \in 1 .. k /\ i \in 1 .. k /\ i # 1 /\ i - 1 = j /\ j \in Nat
      BY <2>1
    <3>2. P(j)
      BY <1>3, <3>1
    <3> HIDE DEF E
    <3>3. v[i] = v[j] \o g[i]
      <4> HIDE DEF P, i, j
      <4>1. v[i] = v[i - 1] \o g[i]
        BY <1>1, <3>1 DEF IsFlat
      <4> QED BY <3>1, <4>1
    <3>4. g[i] = Bytes(t[i], t[i + 1]) /\ t[i] <= t[i + 1] /\ t[i] \in Nat /\ t[i + 1] \in Nat /\ t[1] \in Nat
      <4>1. i \in 1 .. k + 1 /\ i + 1 \in 1 .. k + 1 /\ 1 \in 1 .. k + 1
        BY <3>1
      <4> HIDE DEF i
      <4> QED BY <3>1, <4>1
    <3>5. v[j] = Bytes(t[1], t[i]) /\ t[1] <= t[i]
      BY <3>2
    <3> HIDE DEF i, j, P
    <3>6. Bytes(t[1], t[i]) \o Bytes(t[i], t[i + 1]) = Bytes(t[1], t[i + 1])
      BY <3>4, <3>5, BytesConcat
    <3>7. v[i] = Bytes(t[1], t[i + 1]) /\ t[1] <= t[i + 1]
      BY <3>3, <3>4, <3>5, <3>6
    <3>8. P(i)
      BY <3>7 DEF P
    <3>9. i = e + 1 + 1
      BY DEF i, j
    <3> QED BY <3>8, <3>9 DEF E
  <2>2. CASE e + 1 + 1 \notin 1 .. k
    BY <2>2
  <2> QED BY <2>1, <2>2
<1> HIDE DEF E
<1>4. k - 1 \in Nat /\ k - 1 + 1 = k /\ k \in 1 .. k
  OBVIOUS
<1>5. k - 1 \in E
  BY <1>2, <1>3, <1>4, Inductive
<1>6. P(k)
  BY <1>4, <1>5 DEF E
<1> QED BY <1>1, <1>6

\* main's segments of a stretch: all blocks from the one the first boundary
\* belongs to, up to the one that is carried over.
LEMMA DecodesRuns ==
  ASSUME WellFormed(input), Whole, NEW a \in Nat, NEW q \in Nat, a <= q,
         NEW buf, IsStretch(a, q, buf), NEW last \in BOOLEAN,
         NEW split, SplitIs(buf, split, last), CutsAt(buf, split, n, last),
         NEW d \in Blocks, split.starts[1] = First(d) - a * ByteBits
  PROVE  \E e \in d .. Len(input.blocks) + 1 :
           /\ DecodeAll(Bytes(a, q), split) = Bytes(d, e)
           /\ split.count < Len(split.starts) =>
                e \in Blocks /\ split.starts[split.count + 1] = First(e) - a * ByteBits
<1> DEFINE starts == split.starts
           L == Len(starts)
           k == split.count
           data == Bytes(a, q)
           aB == a * ByteBits
           qB == q * ByteBits
           N == Len(input.blocks)
           end(i) == IF i < L THEN starts[i + 1] ELSE Len(data) * ByteBits
           g == [i \in 1 .. k |-> DecodeSegment(data, starts[i], end(i))]
<1>1. DecodeAll(data, split) = FlattenSeq(g)
  BY DEF DecodeAll
<1>2. /\ L \in Nat /\ k \in 1 .. L /\ k \in Nat \ {0}
      /\ \A i \in 1 .. L : starts[i] \in Nat /\ starts[i] \in buf.marks
      /\ \A i \in 1 .. L : i # 1 => starts[i] \in buf.sound
      /\ \A i, j \in 1 .. L : i < j => starts[i] < starts[j]
  <2>1. starts \in Seq(Nat) /\ k \in 1 .. L
    BY DEF SplitIs
  <2> HIDE DEF starts, k
  <2>2. L \in Nat /\ DOMAIN starts = 1 .. L /\ \A i \in 1 .. L : starts[i] \in Nat
    BY <2>1
  <2>3. /\ \A i \in DOMAIN starts : starts[i] \in buf.marks
        /\ \A i \in DOMAIN starts : i # 1 => starts[i] \in buf.sound
        /\ \A i, j \in DOMAIN starts : i < j => starts[i] < starts[j]
    BY DEF SplitIs, CutsAt, Ascends, starts
  <2> HIDE DEF L
  <2>4. k \in Nat \ {0}
    BY <2>1, <2>2
  <2>5. \A i \in 1 .. L : starts[i] \in Nat /\ starts[i] \in buf.marks /\ (i # 1 => starts[i] \in buf.sound)
    BY <2>2, <2>3
  <2>6. \A i, j \in 1 .. L : i < j => starts[i] < starts[j]
    BY <2>2, <2>3
  <2> QED BY <2>1, <2>2, <2>4, <2>5, <2>6
<1>3. /\ Blocks = 1 .. N /\ N \in Nat /\ \A b \in Blocks : First(b) \in Nat
      /\ \A b, c \in Blocks : First(b) < First(c) => b < c
  <2>1. Blocks = 1 .. N /\ N \in Nat
    BY BlocksType DEF Blocks
  <2> QED BY <2>1, FirstsOrder
<1>4. aB \in Nat /\ qB \in Nat /\ Len(data) * ByteBits = qB - aB /\ aB <= qB
  <2>1. Len(data) = q - a
    BY StretchOfBytes
  <2>2. (q - a) * ByteBits = qB - aB /\ (q - a) * ByteBits \in Nat /\ aB \in Nat /\ qB \in Nat
    BY StretchBits
  <2> HIDE DEF aB, qB, data
  <2> QED BY <2>1, <2>2
<1> DEFINE At(b, i) == InStretch(a, q, First(b)) /\ starts[i] = First(b) - aB
<1>5. \A i \in 1 .. L : \E b \in Blocks : At(b, i)
  <2> SUFFICES ASSUME NEW i \in 1 .. L PROVE \E b \in Blocks : At(b, i)
    OBVIOUS
  <2>1. CASE i = 1
    <3>1. PICK m \in Magics(input) : InStretch(a, q, m) /\ starts[1] = m - aB
      BY <1>2, <2>1 DEF IsStretch
    <3>2. m \in Nat /\ First(d) \in Nat /\ starts[1] = First(d) - aB
      BY <1>3, BlocksType
    <3>3. m = First(d)
      <4> DEFINE f == First(d)
                 s == starts[1]
      <4>1. f \in Nat /\ s = f - aB /\ s = m - aB
        BY <3>1, <3>2
      <4> HIDE DEF f, s, aB
      <4>2. m = f
        BY <1>4, <3>2, <4>1
      <4> QED BY <4>2 DEF f
    <3> QED BY <2>1, <3>1, <3>3
  <2>2. CASE i # 1
    <3>1. starts[i] \in buf.sound
      BY <1>2, <2>2
    <3> QED BY <3>1 DEF IsStretch
  <2> QED BY <2>1, <2>2
<1> DEFINE b == [i \in 1 .. L |-> CHOOSE c \in Blocks : At(c, i)]
<1>6. \A i \in 1 .. L : b[i] \in Blocks /\ At(b[i], i)
  BY <1>5
<1> HIDE DEF b, starts, L, k, data, aB, qB, N
<1>7. \A i, j \in 1 .. L : i < j => b[i] < b[j]
  <2> SUFFICES ASSUME NEW i \in 1 .. L, NEW j \in 1 .. L, i < j PROVE b[i] < b[j]
    OBVIOUS
  <2>1. starts[i] < starts[j] /\ starts[i] \in Nat /\ starts[j] \in Nat
    BY <1>2
  <2>2. b[i] \in Blocks /\ b[j] \in Blocks /\ starts[i] = First(b[i]) - aB /\ starts[j] = First(b[j]) - aB
    BY <1>6
  <2> DEFINE x == First(b[i])
             y == First(b[j])
  <2>3. x \in Nat /\ y \in Nat /\ starts[i] = x - aB /\ starts[j] = y - aB
    BY <1>3, <2>2
  <2> HIDE DEF x, y
  <2>4. x < y
    BY <1>4, <2>1, <2>3
  <2> QED BY <1>3, <2>2, <2>4 DEF x, y
<1>8. b[1] = d
  <2>1. 1 \in 1 .. L
    BY <1>2
  <2>2. b[1] \in Blocks /\ First(b[1]) - aB = First(d) - aB
    BY <1>6, <2>1 DEF starts, aB
  <2> DEFINE x == First(b[1])
             y == First(d)
  <2>3. x \in Nat /\ y \in Nat /\ x - aB = y - aB
    BY <1>3, <2>2
  <2> HIDE DEF x, y
  <2>4. x = y
    BY <1>4, <2>3
  <2>5. ~(b[1] < d) /\ ~(d < b[1])
    <3>1. ASSUME NEW u \in Blocks, NEW w \in Blocks, u < w PROVE First(u) # First(w)
      <4>1. First(u) + Window * ByteBits <= First(w)
        <5>1. \A j, l \in DOMAIN input.blocks : j < l => input.blocks[j].first + Window * ByteBits <= input.blocks[l].first
          BY FirstsAscend
        <5> QED BY <3>1, <5>1 DEF Blocks, First
      <4> DEFINE fu == First(u)
                 fw == First(w)
                 ww == Window * ByteBits
      <4>2. fu \in Nat /\ fw \in Nat /\ ww \in Nat \ {0} /\ fu + ww <= fw
        BY <1>3, <3>1, <4>1, Widths
      <4> HIDE DEF fu, fw, ww
      <4>3. fu # fw
        BY <4>2
      <4> QED BY <4>3 DEF fu, fw
    <3> QED BY <2>2, <2>4, <3>1 DEF x, y
  <2> QED BY <1>3, <2>2, <2>5
\* Every segment is a run, that ends where the next one begins.
<1>9. ASSUME NEW i \in 1 .. k
      PROVE  \E e \in b[i] .. N + 1 : /\ g[i] = Bytes(b[i], e)
                                      /\ i < L => e = b[i + 1]
  <2>1. i \in 1 .. L
    BY <1>2
  <2>2. b[i] \in Blocks /\ InStretch(a, q, First(b[i])) /\ starts[i] = First(b[i]) - aB
    BY <1>6, <2>1
  <2>3. /\ end(i) \in Nat /\ end(i) + aB <= qB
        /\ i < L => b[i + 1] \in Blocks /\ b[i] < b[i + 1] /\ end(i) + aB = First(b[i + 1])
    <3>1. CASE i < L
      <4>1. i + 1 \in 1 .. L /\ i < i + 1
        BY <1>2, <2>1, <3>1
      <4>2. b[i + 1] \in Blocks /\ InStretch(a, q, First(b[i + 1])) /\ starts[i + 1] = First(b[i + 1]) - aB
            /\ b[i] < b[i + 1] /\ starts[i + 1] \in Nat
        BY <1>2, <1>6, <1>7, <2>1, <4>1
      <4> DEFINE x == First(b[i + 1])
                 s == starts[i + 1]
      <4>3. x \in Nat /\ s = x - aB /\ s \in Nat /\ x + MagicBits <= qB /\ MagicBits \in Nat /\ end(i) = s
        BY <1>3, <3>1, <4>2, Widths DEF InStretch, qB
      <4> HIDE DEF x, s, end
      <4>4. end(i) \in Nat /\ end(i) + aB <= qB /\ end(i) + aB = x
        BY <1>4, <4>3
      <4> QED BY <4>2, <4>4 DEF x
    <3>2. CASE ~(i < L)
      <4>1. end(i) = qB - aB
        BY <1>4, <3>2
      <4> HIDE DEF end
      <4> QED BY <1>4, <3>2, <4>1
    <3> QED BY <3>1, <3>2
  <2>4. g[i] = DecodeSegment(data, starts[i], end(i))
    OBVIOUS
  <2> DEFINE h == b[i]
             s == starts[i]
             z == end(i)
  <2>5. h \in Blocks /\ InStretch(a, q, First(h)) /\ s = First(h) - a * ByteBits /\ z \in Nat
        /\ z + a * ByteBits <= q * ByteBits
    BY <2>2, <2>3 DEF aB, qB
  <2> HIDE DEF h, s, z
  <2>6. PICK e \in h .. Len(input.blocks) + 1 :
          /\ DecodeSegment(Bytes(a, q), s, z) = Bytes(h, e)
          /\ \A c \in Blocks : h < c /\ z + a * ByteBits = First(c) => e = c
    BY <2>5, SegmentRun
  <2>7. g[i] = Bytes(h, e)
    BY <2>4, <2>6 DEF s, z, data
  <2>8. i < L => e = b[i + 1]
    BY <2>3, <2>6 DEF h, z, aB
  <2> QED BY <2>6, <2>7, <2>8 DEF h, N
<1>10. k \in 1 .. k
  BY <1>2
<1>11. PICK e \in b[k] .. N + 1 : g[k] = Bytes(b[k], e) /\ (k < L => e = b[k + 1])
  BY <1>9, <1>10
<1>12. e \in Nat /\ e <= N + 1 /\ b[k] \in Nat /\ b[k] <= e
  <2>1. b[k] \in Blocks
    BY <1>2, <1>6
  <2> QED BY <1>3, <1>11, <2>1
<1> DEFINE t == [i \in 1 .. k + 1 |-> IF i <= k THEN b[i] ELSE e]
<1>13. ASSUME NEW i \in 1 .. k + 1 PROVE t[i] \in Nat
  <2>1. CASE i <= k
    <3>1. i \in 1 .. L
      BY <1>2, <2>1
    <3>2. b[i] \in Nat
      BY <1>3, <1>6, <3>1
    <3> QED BY <2>1, <3>2
  <2> QED BY <1>12, <2>1
<1>14. ASSUME NEW i \in 1 .. k PROVE g[i] = Bytes(t[i], t[i + 1]) /\ t[i] <= t[i + 1]
  <2>1. i \in 1 .. k + 1 /\ i + 1 \in 1 .. k + 1 /\ i <= k
    BY <1>2
  <2>2. t[i] = b[i]
    BY <2>1
  <2>3. CASE i = k
    <3>1. t[i + 1] = e
      BY <1>2, <2>1, <2>3
    <3> HIDE DEF t, g
    <3> QED BY <1>11, <1>12, <2>2, <2>3, <3>1
  <2>4. CASE i # k
    <3>1. i + 1 <= k /\ i < L /\ i \in 1 .. L /\ i + 1 \in 1 .. L /\ i < i + 1
      BY <1>2, <2>1, <2>4
    <3>2. t[i + 1] = b[i + 1]
      BY <2>1, <3>1
    <3> HIDE DEF t, g
    <3>3. g[i] = Bytes(b[i], b[i + 1])
      BY <1>9, <3>1
    <3>4. b[i] < b[i + 1] /\ b[i] \in Nat /\ b[i + 1] \in Nat
      BY <1>3, <1>6, <1>7, <3>1
    <3>5. b[i] <= b[i + 1]
      BY <3>4
    <3> QED BY <2>2, <3>2, <3>3, <3>5
  <2> QED BY <2>3, <2>4
<1>15. t[1] = d /\ t[k + 1] = e
  <2>1. 1 \in 1 .. k + 1 /\ 1 <= k /\ k + 1 \in 1 .. k + 1 /\ ~(k + 1 <= k)
    BY <1>2
  <2> QED BY <1>8, <2>1
<1>16. g \in [1 .. k -> Seq(Nat)]
  <2>1. ASSUME NEW i \in 1 .. k PROVE g[i] \in Seq(Nat)
    <3>1. t[i] \in Nat /\ t[i + 1] \in Nat /\ t[i] <= t[i + 1] /\ g[i] = Bytes(t[i], t[i + 1])
      <4>1. i \in 1 .. k + 1 /\ i + 1 \in 1 .. k + 1
        BY <1>2
      <4> HIDE DEF t, g
      <4> QED BY <1>13, <1>14, <4>1
    <3> DEFINE x == t[i]
               y == t[i + 1]
    <3> HIDE DEF x, y
    <3>2. x \in Nat /\ y \in Nat /\ x <= y /\ g[i] = Bytes(x, y)
      BY <3>1 DEF x, y
    <3> HIDE DEF g, t
    <3>3. g[i] \in Seq(x .. y - 1) /\ x .. y - 1 \subseteq Nat
      BY <3>2, StretchOfBytes
    <3> DEFINE R == x .. y - 1
    <3> HIDE DEF R
    <3>4. g[i] \in Seq(R) /\ R \subseteq Nat
      BY <3>3 DEF R
    <3> QED BY <3>4, SeqWidens
  <2>2. g = [i \in 1 .. k |-> g[i]]
    OBVIOUS
  <2> HIDE DEF g
  <2> QED BY <2>1, <2>2
<1> HIDE DEF g, t
<1>17. FlattenSeq(g) = Bytes(d, e) /\ d <= e
  <2>1. FlattenSeq(g) = Bytes(t[1], t[k + 1]) /\ t[1] <= t[k + 1]
    BY <1>2, <1>13, <1>14, <1>16, FlatRuns
  <2> QED BY <1>15, <2>1
<1>18. e \in d .. N + 1
  BY <1>3, <1>12, <1>17
<1>19. ASSUME k < L PROVE e \in Blocks /\ starts[k + 1] = First(e) - aB
  <2>1. k + 1 \in 1 .. L
    BY <1>2, <1>19
  <2> QED BY <1>6, <1>11, <1>19, <2>1
<1> QED BY <1>1, <1>17, <1>18, <1>19 DEF starts, k, L, data, aB, N

-----------------------------------------------------------------------------
(* What main carries over                                                  *)

\* A full slot is cut, and behind the last nominal cut, too.
LEMMA FullCut ==
  ASSUME TypeOK, Roomy, NEW a \in Nat, NEW q \in Nat, a + ChunkSize <= q, q <= input.size,
         NEW buf, IsStretch(a, q, buf), NEW m, Leads(m, a)
  PROVE  LET P == (TotalBits(buf) * (n - 1)) \div n IN
         /\ FindNextBlock(buf, 0) # None /\ P \in Nat
         /\ \E c \in SplitBoundariesParallel(buf, n) : c \in Nat /\ P <= c /\ c # FindNextBlock(buf, 0)
<1> DEFINE P == (TotalBits(buf) * (n - 1)) \div n
           c == FindQuickBoundary(buf, P)
           h == HeaderSize * ByteBits
           w == Window * ByteBits
           aB == a * ByteBits
           qB == q * ByteBits
           T == TotalBits(buf)
           first == FindNextBlock(buf, 0)
<1>1. c # None /\ c \in buf.marks /\ P \in Nat /\ P <= c /\ h < c /\ h + w <= T
  BY LastFound
<1>2. WellFormed(input) /\ n \in Nat \ {0} /\ a <= q /\ HeaderSize \in Nat /\ n # 1
  <2>1. ChunkSize \in Nat /\ WellFormed(input) /\ n \in Nat \ {0} /\ HeaderSize \in Nat
    BY InputType
  <2> QED BY <2>1, RoomyMeans
<1>3. (a + HeaderSize) * ByteBits = aB + h /\ aB \in Nat /\ qB \in Nat /\ h \in Nat /\ w \in Nat
  <2>1. (a + HeaderSize + 0) * ByteBits = aB + h + 0 * ByteBits /\ 0 * ByteBits = 0
        /\ aB \in Nat /\ qB \in Nat /\ h \in Nat /\ w \in Nat
    BY <1>2, Widths, Distributes, Products
  <2>2. a + HeaderSize + 0 = a + HeaderSize
    BY <1>2
  <2> HIDE DEF aB, h, qB, w
  <2> QED BY <2>1, <2>2
<1>4. m \in Nat /\ aB <= m /\ m <= aB + h
  BY <1>2, <1>3, BlocksType DEF Leads
<1>5. T = qB - aB /\ c \in Nat
  BY <1>1 DEF IsStretch, BufferType
<1> HIDE DEF aB, qB, h, w, T, c, P
<1>6. m + w <= qB
  BY <1>1, <1>3, <1>4, <1>5
<1>7. first = m - aB
  BY <1>2, <1>6, FirstFound DEF w, qB, aB
<1> HIDE DEF first
<1>8. first # None /\ c # first
  BY <1>1, <1>3, <1>4, <1>5, <1>7 DEF None
<1>9. c \in SplitBoundariesParallel(buf, n)
  <2>1. n - 1 \in 1 .. n - 1
    BY <1>2
  <2> QED BY <1>1, <2>1 DEF SplitBoundariesParallel, c, P
<1> QED BY <1>1, <1>5, <1>8, <1>9 DEF first, P

\* The carry is the file from byte a on, begins with magic m, and m is that of
\* the next block if nothing is damaged.
CarriedFrom(a, m) ==
  /\ a \in Nat /\ a < pos /\ carry = Bytes(a, pos) /\ Leads(m, a)
  /\ decoded # <<>> => a = m \div ByteBits
  /\ Whole => Len(decoded) + 1 \in Blocks /\ m = First(Len(decoded) + 1)

RestKept ==
  /\ pc # "panicked" /\ Len(carry) <= Headroom
  /\ Whole => decoded = Bytes(1, Len(decoded) + 1)
  /\ pc = "loop" => \E a, m : CarriedFrom(a, m)
RestInv == OrderInv /\ (Roomy => RestKept)

LEMMA RestInit == Init => RestInv
<1> SUFFICES ASSUME Init PROVE RestInv
  OBVIOUS
<1>1. OrderInv
  BY OrderInit
<1> SUFFICES ASSUME Roomy PROVE RestKept
  BY <1>1 DEF RestInv
<1>2. carry = Bytes(0, HeaderSize) /\ pos = HeaderSize /\ decoded = <<>> /\ pc = "loop"
  BY DEF Init
<1>3. HeaderSize \in Nat \ {0} /\ HeaderSize <= Headroom /\ WellFormed(input)
  BY <1>1, InputType, CarryAssumption DEF OrderInv
<1>4. Len(carry) <= Headroom
  <2>1. 0 \in Nat /\ 0 <= HeaderSize /\ HeaderSize - 0 = HeaderSize
    BY <1>3
  <2> QED BY <1>2, <1>3, <2>1, StretchOfBytes
<1>5. Len(decoded) = 0 /\ decoded = Bytes(1, Len(decoded) + 1)
  <2>1. Len(decoded) = 0
    BY <1>2
  <2>2. 1 \in Nat /\ 0 + 1 = 1
    OBVIOUS
  <2> QED BY <1>2, <2>1, <2>2, NoBytes
<1>6. /\ First(1) = HeaderSize * ByteBits /\ 1 \in Blocks
      /\ \A k \in Magics(input) : k >= First(1)
  BY <1>1, RoomyMeans DEF Roomy, OrderInv
<1>7. CarriedFrom(0, First(1))
  <2>1. First(1) \in Magics(input)
    BY <1>6 DEF Magics, Blocks, First
  <2>2. 0 * ByteBits = 0 /\ 0 + HeaderSize = HeaderSize /\ HeaderSize * ByteBits \in Nat
    BY <1>3, Widths, Products
  <2>3. Leads(First(1), 0)
    <3>1. 0 * ByteBits <= First(1) /\ First(1) <= (0 + HeaderSize) * ByteBits
      BY <1>6, <2>2
    <3>2. \A k \in Magics(input) : First(1) <= k
      <4>1. Magics(input) \subseteq Nat /\ First(1) \in Nat
        BY <1>3, <1>6, <2>2, BlocksType
      <4> QED BY <1>6, <4>1
    <3> QED BY <2>1, <3>1, <3>2 DEF Leads
  <2>4. Len(decoded) + 1 = 1
    BY <1>5
  <2> QED BY <1>2, <1>3, <1>6, <2>3, <2>4 DEF CarriedFrom
<1> QED BY <1>2, <1>4, <1>5, <1>7 DEF RestKept

\* The slot is what was carried over and read.
LEMMA SlotRead ==
  ASSUME RestInv, Roomy, pc = "loop", NEW data \in Slots, NEW a, NEW m, CarriedFrom(a, m)
  PROVE  LET q == pos + ReadLen IN
         /\ data = Bytes(a, q) /\ a \in Nat /\ q \in Nat /\ a < q /\ q <= input.size
         /\ Leads(m, a) /\ WellFormed(input) /\ IsStretch(a, q, Marked(data))
         /\ q - a <= Headroom * n /\ q - a <= ChunkSize + Headroom
         /\ IF IsLast THEN q = input.size ELSE a + ChunkSize <= q
<1> DEFINE q == pos + ReadLen
<1>1. /\ WellFormed(input) /\ pos \in Nat /\ ReadLen \in Nat /\ q <= input.size /\ input.size \in Nat
      /\ ChunkSize \in Nat /\ n \in Nat /\ Headroom \in Nat
  BY InputType, ReadLenType, CarryAssumption DEF RestInv, OrderInv
<1>2. a \in Nat /\ a < pos /\ carry = Bytes(a, pos) /\ Leads(m, a)
  BY DEF CarriedFrom
<1>3. q \in Nat /\ a < q /\ pos <= q
  BY <1>1, <1>2
<1>4. data = Bytes(a, q)
  <2>1. data = carry \o Bytes(pos, q)
    BY DEF Slots
  <2> HIDE DEF q
  <2>2. a <= pos
    BY <1>1, <1>2
  <2> QED BY <1>1, <1>2, <1>3, <2>1, <2>2, BytesConcat
<1>5. IsStretch(a, q, Marked(data))
  <2> HIDE DEF q
  <2>1. a <= q
    BY <1>2, <1>3
  <2> QED BY <1>1, <1>2, <1>3, <1>4, <2>1, StretchMarked
<1>6. ReadLen <= ChunkSize /\ (~ IsLast => ReadLen = ChunkSize) /\ (IsLast => q = input.size)
  <2> DEFINE r == input.size - pos
  <2>1. ReadLen = Min({ChunkSize, r}) /\ r \in Int /\ ChunkSize \in Int
    BY <1>1 DEF ReadLen
  <2> HIDE DEF r
  <2>2. ReadLen = IF ChunkSize <= r THEN ChunkSize ELSE r
    BY <2>1, MinOfTwo
  <2>3. ReadLen <= ChunkSize
    BY <1>1, <2>1, <2>2
  <2>4. ASSUME ReadLen < ChunkSize PROVE ReadLen = r
    BY <1>1, <2>1, <2>2, <2>4
  <2>5. r = ReadLen => q = input.size
    BY <1>1 DEF r
  <2> QED BY <1>1, <2>3, <2>4, <2>5 DEF IsLast
<1>7. pos - a <= Headroom
  <2>1. Len(carry) = pos - a
    <3>1. a <= pos
      BY <1>1, <1>2
    <3> QED BY <1>1, <1>2, <3>1, StretchOfBytes
  <2>2. Len(carry) <= Headroom
    BY DEF RestInv, RestKept
  <2> QED BY <2>1, <2>2
<1>8. q - a <= Headroom * n /\ q - a <= ChunkSize + Headroom
  <2>1. Headroom * n >= ChunkSize + Headroom /\ Headroom * n \in Nat
    BY <1>1, Products DEF Roomy
  <2> DEFINE z == Headroom * n
  <2> HIDE DEF z
  <2>2. z >= ChunkSize + Headroom /\ z \in Nat
    BY <2>1 DEF z
  <2>3. q - a <= z /\ q - a <= ChunkSize + Headroom
    BY <1>1, <1>2, <1>6, <1>7, <2>2
  <2> QED BY <2>3 DEF z
<1>9. IF IsLast THEN q = input.size ELSE a + ChunkSize <= q
  BY <1>1, <1>2, <1>6
<1> QED BY <1>1, <1>2, <1>3, <1>4, <1>5, <1>8, <1>9

\* What is carried over begins with the magic that begins the last segment, and
\* is no longer than the headroom.
LEMMA NextCarry ==
  ASSUME RestInv, Roomy, pc = "loop", ~ IsLast, NEW data \in Slots, NEW a, NEW m, CarriedFrom(a, m),
         NEW split, SplitIs(Marked(data), split, FALSE), CutsAt(Marked(data), split, n, FALSE)
  PROVE  LET q == pos + ReadLen
             y == split.consumed IN
         /\ y \in Nat /\ a + y < q /\ q - (a + y) <= Headroom
         /\ \E k : /\ Leads(k, a + y) /\ k \div ByteBits = a + y
                  /\ split.starts[split.count + 1] = k - a * ByteBits
<1> DEFINE q == pos + ReadLen
           buf == Marked(data)
           y == split.consumed
           L == Len(split.starts)
           x == split.starts[L]
           aB == a * ByteBits
           qB == q * ByteBits
<1>1. /\ data = Bytes(a, q) /\ a \in Nat /\ q \in Nat /\ a < q /\ q <= input.size
      /\ Leads(m, a) /\ WellFormed(input) /\ IsStretch(a, q, buf)
      /\ q - a <= Headroom * n /\ a + ChunkSize <= q
  BY SlotRead
<1>2. /\ split.count = L - 1 /\ y = x \div ByteBits /\ L \in Nat /\ L # 0
      /\ x \in buf.marks /\ split.starts[split.count + 1] = x
      /\ \A c \in SplitBoundariesParallel(buf, n) : c <= x
  <2>1. split.starts \in Seq(Nat) /\ split.count \in 1 .. L /\ split.count = L - 1
    BY DEF SplitIs, CutsAt
  <2>2. L \in Nat /\ DOMAIN split.starts = 1 .. L
    BY <2>1
  <2>3. L \in 1 .. L /\ split.count < L /\ split.count + 1 = L
    BY <2>1, <2>2
  <2>4. ASSUME NEW c \in SplitBoundariesParallel(buf, n) PROVE c <= x
    <3>1. PICK i \in 1 .. L : split.starts[i] = c
      BY <2>2 DEF CutsAt
    <3>2. split.starts[i] \in Nat /\ x \in Nat /\ (i < L => split.starts[i] < x)
      <4> HIDE DEF L
      <4>1. \A k, j \in 1 .. L : k < j => split.starts[k] < split.starts[j]
        BY <2>2 DEF SplitIs, Ascends
      <4> QED BY <2>1, <2>2, <2>3, <4>1
    <3>3. i = L \/ i < L
      BY <2>2
    <3> QED BY <3>1, <3>2, <3>3
  <2> QED BY <2>1, <2>2, <2>3, <2>4 DEF SplitIs, CutsAt
<1>3. x \in Nat /\ TotalBits(buf) = qB - aB /\ aB \in Nat /\ qB \in Nat /\ (q - a) * ByteBits = qB - aB
  <2>1. a <= q
    BY <1>1
  <2> QED BY <1>1, <1>2, <2>1, StretchBits DEF IsStretch, BufferType
<1> HIDE DEF q, buf, x, y, L
<1>4. PICK k \in Magics(input) : InStretch(a, q, k) /\ x = k - aB
  BY <1>1, <1>2 DEF IsStretch
<1>5. k \in Nat /\ aB <= k /\ k + MagicBits <= qB /\ k = x + aB /\ Magics(input) \subseteq Nat
  <2>1. Magics(input) \subseteq Nat
    BY <1>1, BlocksType
  <2>2. k \in Nat /\ aB <= k /\ k + MagicBits <= qB
    BY <1>4, <2>1 DEF InStretch
  <2> HIDE DEF aB
  <2> QED BY <1>3, <1>4, <2>1, <2>2
<1>6. y \in Nat /\ k \div ByteBits = a + y /\ a + y < q /\ (a + y) * ByteBits <= k
      /\ k < (a + y) * ByteBits + ByteBits
  <2> DEFINE r == x % ByteBits
             yB == y * ByteBits
  <2>1. y \in Nat /\ r \in 0 .. ByteBits - 1 /\ x = ByteBits * y + r
    BY <1>2, <1>3, Widths, Division
  <2>2. ByteBits * y = yB /\ yB \in Nat
    BY <2>1, Widths, Products
  <2>3. (a + y + 0) * ByteBits = aB + yB + 0 * ByteBits /\ 0 * ByteBits = 0
    BY <1>1, <2>1, Widths, Distributes
  <2>4. (a + y) * ByteBits = aB + yB /\ ByteBits * (a + y) = (a + y) * ByteBits
    <3>1. a + y + 0 = a + y /\ a + y \in Nat /\ aB + yB + 0 = aB + yB
      BY <1>1, <1>3, <2>1, <2>2
    <3> QED BY <2>3, <3>1, Widths, Products
  <2> DEFINE z == a + y
             zB == z * ByteBits
  <2> HIDE DEF aB, yB, r
  <2>5. z \in Nat /\ zB = aB + yB /\ ByteBits * z = zB
    BY <1>1, <2>1, <2>4
  <2> HIDE DEF z
  <2>6. zB \in Nat /\ k = zB + r
    <3> HIDE DEF zB
    <3> QED BY <1>3, <1>5, <2>1, <2>2, <2>5
  <2>7. k \div ByteBits = z
    <3>1. (ByteBits * z + r) \div ByteBits = z
      BY <2>1, <2>5, Widths, DivUnique
    <3> QED BY <2>5, <2>6, <3>1
  <2>8. zB <= k /\ k < zB + ByteBits
    <3> HIDE DEF zB
    <3> QED BY <2>1, <2>6, Widths
  <2>9. z < q
    <3>1. k < qB
      <4> HIDE DEF qB
      <4> QED BY <1>3, <1>5, Widths
    <3>2. k \div ByteBits < q
      BY <1>1, <1>5, <3>1, BitsAndBytes
    <3> QED BY <2>7, <3>2
  <2> QED BY <2>1, <2>7, <2>8, <2>9 DEF z, zB
<1>7. Leads(k, a + y)
  <2> DEFINE z == a + y
             zB == z * ByteBits
             u == (z + HeaderSize) * ByteBits
  <2>1. z \in Nat /\ zB \in Nat /\ zB <= k /\ k < zB + ByteBits
    <3>1. z \in Nat
      BY <1>1, <1>6
    <3> QED BY <1>6, <3>1, Widths, Products
  <2> HIDE DEF z
  <2>2. zB + ByteBits <= u
    <3>1. HeaderSize \in Nat \ {0}
      BY CarryAssumption
    <3> DEFINE v == z + HeaderSize
    <3>2. z + 1 <= v /\ z + 1 \in Nat /\ v \in Nat
      BY <2>1, <3>1
    <3> HIDE DEF v
    <3>3. ByteBits * (z + 1) <= ByteBits * v
      BY <3>2, Widths, MulMono
    <3>4. ByteBits * (z + 1) = (z + 1) * ByteBits /\ ByteBits * v = v * ByteBits
      BY <3>2, Widths, Products
    <3>5. (z + 1 + 0) * ByteBits = z * ByteBits + 1 * ByteBits + 0 * ByteBits
          /\ 1 * ByteBits = ByteBits /\ 0 * ByteBits = 0
      BY <2>1, Widths, Distributes
    <3>6. (z + 1) * ByteBits = zB + ByteBits
      <4>1. z + 1 + 0 = z + 1 /\ zB + ByteBits + 0 = zB + ByteBits
        BY <2>1, Widths
      <4> QED BY <3>5, <4>1
    <3> QED BY <3>3, <3>4, <3>6 DEF v
  <2>3. k <= u
    <3>1. u \in Nat
      <4>1. z + HeaderSize \in Nat
        BY <2>1, CarryAssumption
      <4> QED BY <4>1, Widths, Products
    <3> HIDE DEF u, zB
    <3> QED BY <1>5, <2>1, <2>2, <3>1, Widths
  <2>4. ASSUME NEW g \in Magics(input), zB <= g PROVE k <= g
    <3>1. g \in Nat
      BY <1>5
    <3>2. g < k => g + ByteBits <= k
      BY <1>4, InputType DEF RestInv, OrderInv, MagicsApart
    <3> HIDE DEF zB
    <3> QED BY <1>5, <2>1, <2>4, <3>1, <3>2, Widths
  <2>5. Leads(k, z)
    BY <2>1, <2>3, <2>4 DEF Leads
  <2> QED BY <2>5 DEF z
<1>8. q - (a + y) <= Headroom
  <2> DEFINE T == TotalBits(buf)
             P == (T * (n - 1)) \div n
  <2>1. /\ FindNextBlock(buf, 0) # None /\ P \in Nat
        /\ \E c \in SplitBoundariesParallel(buf, n) : c \in Nat /\ P <= c /\ c # FindNextBlock(buf, 0)
    BY <1>1, FullCut DEF RestInv, OrderInv
  <2>2. PICK c \in SplitBoundariesParallel(buf, n) : c \in Nat /\ P <= c
    BY <2>1
  <2>3. P <= x
    <3>1. c <= x
      BY <1>2
    <3> HIDE DEF P
    <3> QED BY <1>3, <2>1, <2>2, <3>1
  <2> DEFINE S == q - a
  <2>4. S \in Nat /\ S <= Headroom * n /\ y <= S /\ S - y = q - (a + y)
    BY <1>1, <1>6
  <2>5. T = S * ByteBits
    BY <1>3
  <2> HIDE DEF S, T
  <2>6. ((S * ByteBits) * (n - 1)) \div n <= x
    BY <2>3, <2>5
  <2>7. n \in Nat \ {0} /\ Headroom \in Nat
    BY InputType, CarryAssumption DEF RestInv, OrderInv
  <2>8. S - y <= Headroom
    BY <1>2, <1>3, <2>4, <2>6, <2>7, CutLeaves
  <2> QED BY <2>4, <2>8
<1> QED BY <1>2, <1>4, <1>6, <1>7, <1>8 DEF q, y

\* The first segment begins with magic m of a slot from byte a on.
BeginsWith(split, m, a) == split.starts[1] = m - a * ByteBits

LEMMA SplitFirst ==
  ASSUME WellFormed(input), NEW a \in Nat, NEW q \in Nat, a <= q, NEW buf, IsStretch(a, q, buf),
         NEW m, Leads(m, a), NEW last \in BOOLEAN,
         NEW split, SplitIs(buf, split, last), CutsAt(buf, split, n, last)
  PROVE  BeginsWith(split, m, a)
<1>1. split.starts[1] = FindNextBlock(buf, 0) /\ split.starts[1] \in buf.marks /\ buf.marks \subseteq Nat
  <2>1. split.starts \in Seq(Nat) /\ split.count \in 1 .. Len(split.starts)
    BY DEF SplitIs
  <2>2. 1 \in DOMAIN split.starts
    BY <2>1
  <2> QED BY <2>2 DEF SplitIs, CutsAt, IsStretch, BufferType
<1>2. FindNextBlock(buf, 0) # None
  BY <1>1 DEF None
<1>3. FindNextBlock(buf, 0) \in {None, m - a * ByteBits}
  BY FirstFound
<1> QED BY <1>1, <1>2, <1>3 DEF BeginsWith

\* One round of the loop: what it decodes and what it carries over.
Kept(d, c, q) ==
  /\ Len(c) <= Headroom
  /\ Whole => d = Bytes(1, Len(d) + 1)
  /\ ~ IsLast => \E a, m :
       /\ a \in Nat /\ a < q /\ c = Bytes(a, q) /\ Leads(m, a) /\ a = m \div ByteBits
       /\ Whole => Len(d) + 1 \in Blocks /\ m = First(Len(d) + 1)

LEMMA AcceptKeeps ==
  ASSUME RestInv, Roomy, pc = "loop", NEW data \in Slots, NEW split \in Splits(data) \ {NoSplit}
  PROVE  Kept(decoded \o DecodeAll(data, split), SubSeq(data, split.consumed + 1, Len(data)), pos + ReadLen)
<1> DEFINE q == pos + ReadLen
           buf == Marked(data)
           d == decoded \o DecodeAll(data, split)
           c == SubSeq(data, split.consumed + 1, Len(data))
           last == IsLast
<1>1. PICK a : \E m : CarriedFrom(a, m)
  BY DEF RestInv, RestKept
<1>2. PICK m : CarriedFrom(a, m)
  BY <1>1
<1>3. /\ data = Bytes(a, q) /\ a \in Nat /\ q \in Nat /\ a < q
      /\ Leads(m, a) /\ WellFormed(input) /\ IsStretch(a, q, buf)
  BY <1>2, SlotRead
<1>4. SplitIs(buf, split, last) /\ CutsAt(buf, split, n, last) /\ last \in BOOLEAN /\ BufferType(buf)
  <2>1. split = SplitChunk(buf, n, last) /\ split # NoSplit
    BY DEF Splits
  <2>2. n \in Nat \ {0} /\ last \in BOOLEAN
    BY InputType, ReadLenType DEF RestInv, OrderInv
  <2>3. BufferType(buf)
    BY <1>3 DEF IsStretch
  <2> HIDE DEF last, buf
  <2> QED BY <2>1, <2>2, <2>3, SplitsInOrder
<1>5. BeginsWith(split, m, a)
  <2>1. a <= q
    BY <1>3
  <2> HIDE DEF buf, q, last
  <2>2. /\ WellFormed(input) /\ a \in Nat /\ q \in Nat /\ a <= q /\ IsStretch(a, q, buf)
        /\ Leads(m, a) /\ last \in BOOLEAN /\ SplitIs(buf, split, last) /\ CutsAt(buf, split, n, last)
    BY <1>3, <1>4, <2>1
  <2> QED BY <2>2, SplitFirst
<1>6. Len(c) <= Headroom
  <2>1. CASE ~ IsLast
    <3> DEFINE y == split.consumed
    <3>1. y \in Nat /\ a + y < q /\ q - (a + y) <= Headroom
      BY <1>2, <1>4, <2>1, NextCarry
    <3> HIDE DEF q, y
    <3>2. y \in 0 .. q - a /\ a <= q /\ a + y \in Nat /\ a + y <= q
      BY <1>3, <3>1
    <3>3. SubSeq(Bytes(a, q), y + 1, Len(Bytes(a, q))) = Bytes(a + y, q)
      BY <1>3, <3>2, BytesCut
    <3>4. Len(Bytes(a + y, q)) = q - (a + y)
      BY <1>3, <3>2, StretchOfBytes
    <3>5. c = Bytes(a + y, q)
      BY <1>3, <3>3 DEF y
    <3> QED BY <3>1, <3>4, <3>5
  <2>2. CASE IsLast
    <3>1. split.consumed = buf.bytes
      <4>1. split.starts \in Seq(Nat) /\ split.count = Len(split.starts)
        BY <1>4, <2>2 DEF SplitIs, CutsAt
      <4>2. ~ (split.count < Len(split.starts))
        BY <4>1
      <4> QED BY <1>4, <4>2 DEF SplitIs
    <3>2. buf.bytes = q - a
      BY <1>3 DEF IsStretch
    <3> HIDE DEF q, buf
    <3>3. q - a \in 0 .. q - a /\ a <= q /\ a + (q - a) = q
      BY <1>3
    <3>4. SubSeq(Bytes(a, q), (q - a) + 1, Len(Bytes(a, q))) = Bytes(q, q)
      BY <1>3, <3>3, BytesCut
    <3>5. c = Bytes(q, q)
      BY <1>3, <3>1, <3>2, <3>4
    <3> HIDE DEF c
    <3>6. c = <<>>
      BY <1>3, <3>5, NoBytes
    <3>7. Len(c) = 0
      BY <3>6
    <3>8. Headroom \in Nat
      BY CarryAssumption
    <3> QED BY <3>7, <3>8
  <2> QED BY <2>1, <2>2
<1>7. ASSUME Whole
      PROVE  /\ d = Bytes(1, Len(d) + 1)
             /\ ~ IsLast => /\ Len(d) + 1 \in Blocks
                          /\ split.starts[split.count + 1] = First(Len(d) + 1) - a * ByteBits
  <2> DEFINE k == Len(decoded) + 1
             g == DecodeAll(data, split)
             N == Len(input.blocks)
  <2>1. k \in Blocks /\ m = First(k) /\ decoded = Bytes(1, k)
    BY <1>2, <1>7 DEF CarriedFrom, RestInv, RestKept
  <2>2. split.starts[1] = First(k) - a * ByteBits
    BY <1>5, <2>1 DEF BeginsWith
  <2> HIDE DEF k, q, buf, last
  <2>3. a <= q
    BY <1>3
  <2>4. PICK e \in k .. N + 1 :
          /\ DecodeAll(Bytes(a, q), split) = Bytes(k, e)
          /\ split.count < Len(split.starts) =>
               e \in Blocks /\ split.starts[split.count + 1] = First(e) - a * ByteBits
    BY <1>3, <1>4, <1>7, <2>1, <2>2, <2>3, DecodesRuns
  <2>5. g = Bytes(k, e)
    BY <1>3, <2>4
  <2>6. k \in Nat /\ 1 <= k /\ e \in Nat /\ k <= e /\ 1 <= e
    <3>1. k \in 1 .. N /\ N \in Nat
      BY <1>3, <2>1, BlocksType DEF Blocks
    <3> HIDE DEF N
    <3> QED BY <2>4, <3>1
  <2>7. d = Bytes(1, e)
    <3>1. Bytes(1, k) \o Bytes(k, e) = Bytes(1, e)
      BY <2>6, BytesConcat
    <3> QED BY <2>1, <2>5, <3>1
  <2>8. Len(d) + 1 = e
    <3>1. Len(d) = e - 1
      BY <2>6, <2>7, StretchOfBytes
    <3> HIDE DEF d
    <3> QED BY <2>6, <3>1
  <2>9. ~ IsLast => split.count < Len(split.starts)
    BY <1>4 DEF SplitIs, last
  <2> QED BY <2>4, <2>7, <2>8, <2>9
<1>8. ASSUME ~ IsLast
      PROVE  \E b, k :
               /\ b \in Nat /\ b < q /\ c = Bytes(b, q) /\ Leads(k, b) /\ b = k \div ByteBits
               /\ Whole => Len(d) + 1 \in Blocks /\ k = First(Len(d) + 1)
  <2> DEFINE y == split.consumed
  <2>1. /\ y \in Nat /\ a + y < q
        /\ \E k : /\ Leads(k, a + y) /\ k \div ByteBits = a + y
                 /\ split.starts[split.count + 1] = k - a * ByteBits
    BY <1>2, <1>4, <1>8, NextCarry
  <2>2. PICK k : /\ Leads(k, a + y) /\ k \div ByteBits = a + y
                 /\ split.starts[split.count + 1] = k - a * ByteBits
    BY <2>1
  <2> HIDE DEF q, y
  <2>3. y \in 0 .. q - a /\ a <= q /\ a + y \in Nat
    BY <1>3, <2>1
  <2>4. SubSeq(Bytes(a, q), y + 1, Len(Bytes(a, q))) = Bytes(a + y, q)
    BY <1>3, <2>3, BytesCut
  <2>5. c = Bytes(a + y, q)
    BY <1>3, <2>4 DEF y
  <2>6. ASSUME Whole PROVE Len(d) + 1 \in Blocks /\ k = First(Len(d) + 1)
    <3> DEFINE x == split.starts[split.count + 1]
               f == First(Len(d) + 1)
               aB == a * ByteBits
    <3>1. Len(d) + 1 \in Blocks /\ x = f - aB
      BY <1>7, <1>8, <2>6
    <3>2. x = k - aB
      BY <2>2
    <3>3. k \in Nat /\ f \in Nat /\ aB \in Nat
      <4>1. k \in Nat
        BY <1>3, <2>2, BlocksType DEF Leads
      <4>2. f \in Nat
        BY <1>3, <3>1, BlocksType DEF Blocks, First
      <4> QED BY <1>3, <4>1, <4>2, Widths, Products
    <3> HIDE DEF x, f, aB
    <3>4. k = f
      BY <3>1, <3>2, <3>3
    <3> QED BY <3>1, <3>4 DEF f
  <2> QED BY <2>1, <2>2, <2>3, <2>5, <2>6
<1> QED BY <1>6, <1>7, <1>8 DEF Kept

LEMMA RoomyStays ==
  ASSUME input' = input, n' = n
  PROVE  (Roomy' <=> Roomy) /\ (Whole' <=> Whole)
<1>1. Blocks' = Blocks /\ (\A b : First(b)' = First(b)) /\ (\A b : Span(b)' = Span(b))
  BY DEF Blocks, First, Span
<1>2. Magics(input)' = Magics(input)
  BY DEF Magics
<1> QED BY <1>1, <1>2 DEF Roomy, Whole, Blocks, First, Span

LEMMA RestAccept ==
  ASSUME RestInv, Accept
  PROVE  RestInv'
<1>1. PICK data \in Slots : \E split \in Splits(data) \ {NoSplit} :
        /\ decoded' = decoded \o DecodeAll(data, split)
        /\ carry' = SubSeq(data, split.consumed + 1, Len(data))
  BY DEF Accept
<1>2. PICK split \in Splits(data) \ {NoSplit} :
        /\ decoded' = decoded \o DecodeAll(data, split)
        /\ carry' = SubSeq(data, split.consumed + 1, Len(data))
  BY <1>1
<1>3. /\ pc = "loop" /\ input' = input /\ n' = n
      /\ pos' = pos + ReadLen /\ pc' = IF IsLast THEN "done" ELSE "loop"
  BY DEF Accept
<1>4. OrderInv'
  BY OrderAccept DEF RestInv
<1>5. (Roomy' <=> Roomy) /\ (Whole' <=> Whole)
  BY <1>3, RoomyStays
<1>6. ASSUME Roomy PROVE RestKept'
  <2>1. Kept(decoded', carry', pos')
    BY <1>2, <1>3, <1>6, AcceptKeeps
  <2>2. Len(carry') <= Headroom /\ (Whole' => decoded' = Bytes(1, Len(decoded') + 1))
    BY <1>5, <2>1 DEF Kept
  <2>3. ASSUME pc' = "loop" PROVE (\E a, m : CarriedFrom(a, m))'
    <3>1. ~ IsLast
      BY <1>3, <2>3
    <3>2. PICK a, m : /\ a \in Nat /\ a < pos' /\ carry' = Bytes(a, pos') /\ Leads(m, a) /\ a = m \div ByteBits
                      /\ Whole => Len(decoded') + 1 \in Blocks /\ m = First(Len(decoded') + 1)
      BY <2>1, <3>1 DEF Kept
    <3>3. Leads(m, a)' <=> Leads(m, a)
      BY <1>3 DEF Leads, Magics
    <3>4. Blocks' = Blocks /\ First(Len(decoded) + 1)' = First(Len(decoded') + 1)
      BY <1>3 DEF Blocks, First
    <3>5. CarriedFrom(a, m)'
      BY <1>5, <3>2, <3>3, <3>4 DEF CarriedFrom
    <3> QED BY <3>5
  <2>4. pc' # "panicked"
    BY <1>3
  <2> QED BY <2>2, <2>3, <2>4 DEF RestKept
<1> QED BY <1>4, <1>5, <1>6 DEF RestInv

\* No chunk is dropped but the last, and that only if no block is left to it.
LEMMA RestReject ==
  ASSUME RestInv, Roomy, Reject
  PROVE  pc' = "done"
<1>1. SUFFICES ASSUME ~ IsLast PROVE FALSE
  BY DEF Reject
<1>2. pc = "loop" /\ \E data \in Slots : NoSplit \in Splits(data)
  BY DEF Reject
<1>3. PICK data \in Slots : NoSplit \in Splits(data)
  BY <1>2
<1> DEFINE buf == Marked(data)
           q == pos + ReadLen
           last == IsLast
<1>4. SplitChunk(buf, n, last) = NoSplit
  BY <1>3 DEF Splits
<1>5. PICK a : \E m : CarriedFrom(a, m)
  BY <1>2 DEF RestInv, RestKept
<1>6. PICK m : CarriedFrom(a, m)
  BY <1>5
<1>7. /\ a \in Nat /\ q \in Nat /\ a + ChunkSize <= q /\ q <= input.size
      /\ Leads(m, a) /\ IsStretch(a, q, buf)
  BY <1>1, <1>2, <1>6, SlotRead
<1>8. TypeOK /\ n \in Nat \ {0} /\ last \in BOOLEAN
  BY InputType, ReadLenType DEF RestInv, OrderInv
<1>9. BufferType(buf)
  BY <1>7 DEF IsStretch
<1> HIDE DEF buf, q, last
<1>10. /\ FindNextBlock(buf, 0) # None
       /\ \E c \in SplitBoundariesParallel(buf, n) : c # FindNextBlock(buf, 0)
  BY <1>7, <1>8, FullCut
<1> QED BY <1>4, <1>8, <1>9, <1>10, IsCut

LEMMA RestStep ==
  ASSUME RestInv, [Next]_vars
  PROVE  RestInv'
<1>1. CASE Accept
  BY <1>1, RestAccept
<1>2. OrderInv'
  BY OrderStep DEF RestInv
<1>3. ASSUME ~ Accept, Roomy PROVE RestKept'
  <2>1. RestKept
    BY <1>3 DEF RestInv
  <2>2. CASE UNCHANGED vars
    <3>1. UNCHANGED <<input, n, carry, pos, decoded, pc>>
      BY <2>2 DEF vars
    <3> QED BY <2>1, <3>1, RoomyStays
            DEF RestKept, CarriedFrom, Leads, Whole, Magics, Blocks, First
  <2>3. CASE NothingLeft \/ Reject
    <3>1. UNCHANGED <<input, n, carry, decoded>> /\ pc' = "done"
      BY <1>3, <2>3, RestReject DEF NothingLeft, Reject
    <3> QED BY <2>1, <3>1, RoomyStays DEF RestKept
  <2>4. CASE CarryOverflow
    <3>1. Len(carry) \in Nat /\ Headroom \in Nat /\ Len(carry) > Headroom /\ Len(carry) <= Headroom
      BY <2>1, <2>4, CarryAssumption, InputType DEF CarryOverflow, RestKept, RestInv, OrderInv
    <3> QED BY <3>1
  <2> QED BY <1>3, <2>2, <2>3, <2>4 DEF Next, Stopped
<1>4. input' = input /\ n' = n
  BY DEF Next, NothingLeft, CarryOverflow, Reject, Accept, Stopped, vars
<1>5. Roomy' <=> Roomy
  BY <1>4, RoomyStays
<1> QED BY <1>1, <1>2, <1>3, <1>5 DEF RestInv

LEMMA RestMeans == ASSUME RestInv PROVE CarryIsTheRest /\ CarryFits
<1>1. CarryFits
  BY DEF RestInv, RestKept, CarryFits
<1> SUFFICES ASSUME Roomy PROVE CarryIsTheRest
  BY <1>1 DEF CarryIsTheRest
<1>2. RestKept /\ pos \in Nat /\ pc \in {"loop", "done", "panicked"} /\ decoded \in Seq(Blocks)
  BY InputType DEF RestInv, OrderInv, TypeOK
<1>3. ASSUME Whole PROVE decoded = [i \in 1 .. Len(decoded) |-> i]
  <2> DEFINE k == Len(decoded)
  <2>1. decoded = Bytes(1, k + 1) /\ k \in Nat
    BY <1>2, <1>3 DEF RestKept
  <2> HIDE DEF k
  <2>2. (k + 1) - 1 = k /\ \A i \in 1 .. k : 1 + i - 1 = i
    BY <2>1
  <2>3. Bytes(1, k + 1) = [i \in 1 .. k |-> i]
    BY <2>2 DEF Bytes
  <2> QED BY <2>1, <2>3 DEF k
<1>4. ASSUME pc = "loop"
      PROVE  /\ carry = Bytes(pos - Len(carry), pos)
             /\ Whole /\ decoded # <<>> => First(Len(decoded) + 1) \div ByteBits = carry[1]
  <2>1. PICK a : \E m : CarriedFrom(a, m)
    BY <1>2, <1>4 DEF RestKept
  <2>2. PICK m : CarriedFrom(a, m)
    BY <2>1
  <2>3. a \in Nat /\ a < pos /\ carry = Bytes(a, pos)
    BY <2>2 DEF CarriedFrom
  <2>4. Len(carry) = pos - a /\ carry[1] = a
    <3>1. a <= pos /\ 1 \in 1 .. pos - a /\ a + 1 - 1 = a
      BY <1>2, <2>3
    <3>2. Len(Bytes(a, pos)) = pos - a /\ Bytes(a, pos)[1] = a + 1 - 1
      BY <1>2, <2>3, <3>1, StretchOfBytes
    <3> QED BY <2>3, <3>1, <3>2
  <2>5. pos - Len(carry) = a
    <3> DEFINE l == Len(carry)
    <3> HIDE DEF l
    <3>1. l = pos - a
      BY <2>4 DEF l
    <3>2. pos - l = a
      BY <1>2, <2>3, <3>1
    <3> QED BY <3>2 DEF l
  <2>6. Whole /\ decoded # <<>> => First(Len(decoded) + 1) \div ByteBits = a
    BY <2>2 DEF CarriedFrom
  <2> QED BY <2>3, <2>4, <2>5, <2>6
<1>5. pc # "panicked"
  BY <1>2 DEF RestKept
<1>6. pc # "done" => pc = "loop"
  BY <1>2, <1>5
<1> QED BY <1>3, <1>4, <1>6 DEF CarryIsTheRest

\* Between two chunks nothing is lost: what was read and not decoded is the
\* carry, as read; unless a block fails or a false magic passes for one, the
\* blocks decoded are the first ones of the file and the carry begins with the
\* byte of the next.  For every file, number of workers, chunk and headroom.
THEOREM NothingLostBetweenChunks == Spec => []CarryIsTheRest
<1>1. RestInv => CarryIsTheRest
  BY RestMeans
<1> QED BY <1>1, RestInit, RestStep, PTL DEF Spec

\* assert!(carry_len <= CARRY_HEADROOM) holds if a chunk is long enough for its
\* blocks and the headroom for its share of a worker (Roomy).
THEOREM AssertionHolds == Spec => []CarryFits
<1>1. RestInv => CarryFits
  BY RestMeans
<1> QED BY <1>1, RestInit, RestStep, PTL DEF Spec

-----------------------------------------------------------------------------
(* How far a segment reaches                                               *)

\* Of n parts of T bits none is longer than the largest can be, and every bit is in one.
LEMMA PartOfSlot ==
  ASSUME NEW T \in Nat, NEW C \in Nat, T <= C, NEW k \in Nat \ {0}, NEW i \in Nat,
         NEW s \in Nat, NEW x \in Nat, (T * i) \div k <= s, x < (T * (i + 1)) \div k
  PROVE  x <= s + (C \div k)
<1> DEFINE X == T * i
           Y == T * (i + 1)
           u == X \div k
           w == Y \div k
           c == C \div k
<1>1. X \in Nat /\ Y \in Nat /\ Y = X + T
  <2>1. (i + 1 + 0) * T = i * T + 1 * T + 0 * T /\ i + 1 + 0 = i + 1 /\ 1 * T = T /\ 0 * T = 0
    BY Distributes
  <2>2. i + 1 \in Nat
    OBVIOUS
  <2>3. X = i * T /\ Y = (i + 1) * T /\ X \in Nat /\ Y \in Nat
    BY <2>2, Products
  <2> QED BY <2>1, <2>3
<1> HIDE DEF X, Y
<1>2. /\ u \in Nat /\ X % k \in 0 .. k - 1 /\ k * u \in Nat /\ X = k * u + (X % k)
      /\ w \in Nat /\ Y % k \in 0 .. k - 1 /\ k * w \in Nat /\ Y = k * w + (Y % k)
      /\ c \in Nat /\ C % k \in 0 .. k - 1 /\ k * c \in Nat /\ C = k * c + (C % k)
  BY <1>1, Division
<1> HIDE DEF u, w, c
<1> DEFINE ku == k * u
           kw == k * w
           kc == k * c
           z == u + c + 2
<1>3. k * z = ku + kc + 2 * k
  <2>1. (u + c + 2) * k = u * k + c * k + 2 * k
    BY <1>2, Distributes
  <2>2. u * k = ku /\ c * k = kc /\ z \in Nat /\ z * k = k * z
    BY <1>2, Products
  <2> QED BY <2>1, <2>2
<1>4. 2 * k = k + k /\ z \in Nat
  BY <1>2
<1> DEFINE kz == k * z
<1>5. kw < kz
  <2> HIDE DEF ku, kw, kc
  <2>1. ku \in Nat /\ kw \in Nat /\ kc \in Nat
    BY <1>2 DEF ku, kw, kc
  <2>2. kz = ku + kc + k + k
    BY <1>3, <1>4, <2>1
  <2> HIDE DEF kz
  <2>3. X < ku + k /\ kw <= Y /\ C < kc + k
    <3> DEFINE a == X % k
               b == Y % k
               d == C % k
    <3>1. a \in 0 .. k - 1 /\ b \in 0 .. k - 1 /\ d \in 0 .. k - 1
          /\ X = ku + a /\ Y = kw + b /\ C = kc + d
      BY <1>2 DEF ku, kw, kc
    <3> HIDE DEF a, b, d
    <3> QED BY <1>1, <2>1, <3>1
  <2> QED BY <1>1, <2>1, <2>2, <2>3
<1>6. w < z
  <2> SUFFICES ASSUME z <= w PROVE FALSE
    BY <1>2, <1>4
  <2>1. kz <= kw
    BY <1>2, <1>4, MulMono
  <2>2. kz \in Nat /\ kw \in Nat
    BY <1>2, <1>4, Products
  <2> HIDE DEF kz, kw
  <2> QED BY <1>5, <2>1, <2>2
<1>7. u <= s /\ x < w
  BY DEF u, w, X, Y
<1>8. x <= s + c
  BY <1>2, <1>6, <1>7
<1> QED BY <1>8 DEF c

LEMMA PartExists ==
  ASSUME NEW T \in Nat, NEW k \in Nat \ {0}, NEW x \in Nat, x < T
  PROVE  \E i \in 0 .. k - 1 : (T * i) \div k <= x /\ x < (T * (i + 1)) \div k
<1> DEFINE P(i) == (T * i) \div k
           J == {i \in 1 .. k : x < P(i)}
<1>1. P(0) = 0 /\ P(k) = T
  <2>1. (k * T + 0) \div k = T
    <3>1. 0 \in 0 .. k - 1
      OBVIOUS
    <3> QED BY <3>1, DivUnique
  <2>2. (k * 0 + 0) \div k = 0
    <3>1. 0 \in 0 .. k - 1 /\ 0 \in Nat
      OBVIOUS
    <3> QED BY <3>1, DivUnique
  <2>3. T * k = k * T /\ k * T \in Nat
    BY Products
  <2>4. T * 0 = 0 /\ k * 0 = 0
    OBVIOUS
  <2>5. T * k = k * T + 0 /\ T * 0 = k * 0 + 0
    BY <2>3, <2>4
  <2> QED BY <2>1, <2>2, <2>5
<1>2. \A i \in Nat : P(i) \in Nat
  <2> SUFFICES ASSUME NEW i \in Nat PROVE P(i) \in Nat
    OBVIOUS
  <2>1. T * i \in Nat
    BY Products
  <2> QED BY <2>1, Division
<1> HIDE DEF P
<1>3. k \in J /\ J \in SUBSET Nat
  BY <1>1
<1>4. PICK j \in J : \A y \in J : j <= y
  <2>1. J # {} /\ J \in SUBSET Nat
    BY <1>3
  <2> HIDE DEF J
  <2> QED BY <2>1, Least
<1>5. j \in 1 .. k /\ x < P(j) /\ j - 1 \in 0 .. k - 1 /\ j - 1 + 1 = j /\ j - 1 \notin J
  BY <1>4
<1>6. P(j - 1) <= x
  <2>1. CASE j - 1 = 0
    BY <1>1, <2>1
  <2>2. CASE j - 1 # 0
    <3>1. j - 1 \in 1 .. k
      BY <1>5, <2>2
    <3>2. P(j - 1) \in Nat /\ ~(x < P(j - 1))
      BY <1>2, <1>5, <3>1
    <3> QED BY <3>2
  <2> QED BY <2>1, <2>2
<1>7. P(j - 1) <= x /\ x < P(j - 1 + 1)
  BY <1>5, <1>6
<1> QED BY <1>5, <1>7 DEF P

\* The last of an ascending sequence that is not beyond x.
LEMMA LastUpTo ==
  ASSUME NEW s \in Seq(Nat), Ascends(s), Len(s) # 0, NEW x \in Nat, s[1] <= x
  PROVE  \E i \in 1 .. Len(s) :
           /\ s[i] <= x
           /\ i < Len(s) => x < s[i + 1]
           /\ \A j \in 1 .. Len(s) : s[j] <= x => s[j] <= s[i]
<1> DEFINE L == Len(s)
           J == {j \in 1 .. L : x < s[j]}
<1>1. L \in Nat \ {0} /\ (\A j \in 1 .. L : s[j] \in Nat) /\ \A i, j \in 1 .. L : i < j => s[i] < s[j]
  BY DEF Ascends
<1>2. CASE J = {}
  <2>1. \A j \in 1 .. L : s[j] <= x
    BY <1>1, <1>2
  <2>2. L \in 1 .. L /\ ~(L < L)
    BY <1>1
  <2> HIDE DEF L, J
  <2>3. \A j \in 1 .. L : s[j] <= s[L]
    <3> SUFFICES ASSUME NEW j \in 1 .. L PROVE s[j] <= s[L]
      OBVIOUS
    <3>1. j = L \/ j < L
      BY <1>1
    <3>2. s[j] \in Nat /\ s[L] \in Nat
      BY <1>1, <2>2
    <3> QED BY <1>1, <2>2, <3>1, <3>2
  <2> QED BY <2>1, <2>2, <2>3 DEF L
<1>3. CASE J # {}
  <2>1. J \in SUBSET Nat
    BY <1>1
  <2>2. PICK j \in J : \A y \in J : j <= y
    <3> HIDE DEF J
    <3> QED BY <1>3, <2>1, Least
  <2>3. j \in 1 .. L /\ x < s[j] /\ j - 1 \notin J
    BY <1>1, <2>2
  <2>4. j # 1
    <3>1. 1 \in 1 .. L
      BY <1>1
    <3> QED BY <1>1, <2>3, <3>1
  <2> DEFINE i == j - 1
  <2>5. i \in 1 .. L /\ i + 1 = j /\ i < j
    BY <1>1, <2>3, <2>4
  <2>6. i \notin J
    BY <2>3
  <2> HIDE DEF i, L
  <2>7. s[i] <= x
    BY <1>1, <2>5, <2>6
  <2>8. ASSUME NEW y \in 1 .. L, s[y] <= x PROVE s[y] <= s[i]
    <3>1. y < j
      <4>1. y # j /\ ~(j < y)
        BY <1>1, <2>3, <2>8
      <4> QED BY <1>1, <2>3, <4>1
    <3>2. y = i \/ y < i
      BY <1>1, <2>5, <3>1
    <3>3. s[y] \in Nat /\ s[i] \in Nat
      BY <1>1, <2>5
    <3> QED BY <1>1, <2>5, <3>2, <3>3
  <2> QED BY <2>3, <2>5, <2>7, <2>8 DEF L
<1> QED BY <1>2, <1>3

HoldsAll(u, s) == \A x \in DOMAIN s : \E p \in DOMAIN u : u[p] = s[x]

LEMMA ConcatHolds ==
  ASSUME NEW S, NEW s \in Seq(S), NEW t \in Seq(S)
  PROVE  HoldsAll(s \o t, s) /\ HoldsAll(s \o t, t)
<1> DEFINE u == s \o t
           k == Len(s)
           m == Len(t)
<1>1. /\ u \in Seq(S) /\ Len(u) = k + m
      /\ \A p \in 1 .. k + m : u[p] = IF p <= k THEN s[p] ELSE t[p - k]
  BY ConcatProperties
<1>2. k \in Nat /\ m \in Nat /\ DOMAIN s = 1 .. k /\ DOMAIN t = 1 .. m /\ DOMAIN u = 1 .. k + m
  BY <1>1
<1> HIDE DEF u, k, m
<1>3. ASSUME NEW x \in 1 .. k PROVE \E p \in 1 .. k + m : u[p] = s[x]
  <2>1. x \in 1 .. k + m /\ x <= k
    BY <1>2
  <2> QED BY <1>1, <2>1
<1>4. ASSUME NEW x \in 1 .. m PROVE \E p \in 1 .. k + m : u[p] = t[x]
  <2> DEFINE p == k + x
  <2>1. p \in 1 .. k + m /\ ~(p <= k) /\ p - k = x
    BY <1>2
  <2> HIDE DEF p
  <2> QED BY <1>1, <2>1
<1>5. /\ \A x \in DOMAIN s : \E p \in DOMAIN u : u[p] = s[x]
      /\ \A x \in DOMAIN t : \E p \in DOMAIN u : u[p] = t[x]
  BY <1>2, <1>3, <1>4
<1> QED BY <1>5 DEF u, HoldsAll

\* What a part holds is in the sequences put together.
LEMMA FlatHolds ==
  ASSUME NEW S, NEW k \in Nat \ {0}, NEW g \in [1 .. k -> Seq(S)], NEW j \in 1 .. k,
         NEW x \in DOMAIN g[j]
  PROVE  g[j][x] \in ToSet(FlattenSeq(g))
<1>1. PICK v \in [1 .. k -> Seq(S)] : IsFlat(v, g, k) /\ FlattenSeq(g) = v[k]
  BY FlatIs
<1> DEFINE y == g[j][x]
           P(h) == \E p \in DOMAIN v[h] : v[h][p] = y
           E == {e \in Nat : j + e \in 1 .. k => P(j + e)}
<1>2. \A h \in 1 .. k : /\ v[h] \in Seq(S) /\ g[h] \in Seq(S)
                        /\ h = 1 => v[h] = g[h]
                        /\ h # 1 => h - 1 \in 1 .. k /\ v[h] = v[h - 1] \o g[h]
  <2> SUFFICES ASSUME NEW h \in 1 .. k
               PROVE  /\ v[h] \in Seq(S) /\ g[h] \in Seq(S)
                      /\ h = 1 => v[h] = g[h]
                      /\ h # 1 => h - 1 \in 1 .. k /\ v[h] = v[h - 1] \o g[h]
    OBVIOUS
  <2>1. h # 1 => h - 1 \in 1 .. k
    OBVIOUS
  <2> QED BY <1>1, <2>1 DEF IsFlat
<1>3. 0 \in E
  <2>1. CASE j = 1
    BY <1>2, <2>1
  <2>2. CASE j # 1
    <3>1. j - 1 \in 1 .. k /\ v[j] = v[j - 1] \o g[j]
      BY <1>2, <2>2
    <3>2. v[j - 1] \in Seq(S) /\ g[j] \in Seq(S)
      BY <1>2, <3>1
    <3> DEFINE s == v[j - 1]
               t == g[j]
    <3>3. HoldsAll(s \o t, t)
      <4>1. s \in Seq(S) /\ t \in Seq(S)
        BY <3>2
      <4> HIDE DEF s, t
      <4> QED BY <4>1, ConcatHolds
    <3>4. P(j)
      BY <3>1, <3>3 DEF HoldsAll
    <3> QED BY <3>4
  <2> QED BY <2>1, <2>2
<1>4. ASSUME NEW e \in Nat, e \in E PROVE e + 1 \in E
  <2>1. CASE j + (e + 1) \in 1 .. k
    <3> DEFINE h == j + (e + 1)
    <3>1. h \in 1 .. k /\ h # 1 /\ h - 1 = j + e /\ h - 1 \in 1 .. k
      BY <2>1
    <3>2. P(h - 1)
      BY <1>4, <3>1
    <3> HIDE DEF h
    <3>3. v[h] = v[h - 1] \o g[h] /\ v[h - 1] \in Seq(S) /\ g[h] \in Seq(S)
      BY <1>2, <3>1
    <3> DEFINE s == v[h - 1]
               t == g[h]
    <3>4. PICK p \in DOMAIN s : s[p] = y
      BY <3>2
    <3>5. HoldsAll(s \o t, s)
      <4>1. s \in Seq(S) /\ t \in Seq(S)
        BY <3>3
      <4> HIDE DEF s, t
      <4> QED BY <4>1, ConcatHolds
    <3> HIDE DEF y
    <3>6. \E r \in DOMAIN (s \o t) : (s \o t)[r] = y
      <4> HIDE DEF s, t
      <4> QED BY <3>4, <3>5 DEF HoldsAll
    <3>7. P(h)
      BY <3>3, <3>6
    <3> QED BY <3>7 DEF h
  <2>2. CASE j + (e + 1) \notin 1 .. k
    BY <2>2
  <2> QED BY <2>1, <2>2
<1> HIDE DEF E
<1>5. k - j \in E
  <2>1. k - j \in Nat
    OBVIOUS
  <2> QED BY <1>3, <1>4, <2>1, Inductive
<1>6. P(k)
  <2>1. j + (k - j) = k /\ k \in 1 .. k
    OBVIOUS
  <2> QED BY <1>5, <2>1 DEF E
<1> QED BY <1>1, <1>6 DEF ToSet

-----------------------------------------------------------------------------
(* Damage                                                                  *)

\* What a segment may begin with: a block, or a false magic that passes for one.
Starts(m) == m \in input.forged \/ \E b \in Blocks : m = First(b)

LEMMA ForgedAre ==
  ASSUME TypeOK
  PROVE  /\ input.forged \subseteq Nat
         /\ \A b \in Blocks : First(b) + MagicBits + VerifyBits <= End(b)
<1>1. input.forged \subseteq input.fakes /\ WellFormed(input)
  BY FilesAssumption DEF TypeOK
<1>2. input.fakes \subseteq Nat
  BY <1>1 DEF WellFormed
<1>3. \A b \in Blocks : First(b) + MagicBits + VerifyBits <= End(b)
  BY FilesAssumption DEF TypeOK, Blocks, First, End
<1> QED BY <1>1, <1>2, <1>3

LEMMA SoundIs ==
  ASSUME TypeOK, NEW a \in Nat, NEW q \in Nat, a <= q, NEW x \in Marked(Bytes(a, q)).sound
  PROVE  \E m : Starts(m) /\ InStretch(a, q, m) /\ x = m - a * ByteBits
<1> DEFINE data == Bytes(a, q)
<1>1. Marked(data).sound = Buffer(input, data).sound \cup UNION {Occurrences(data, m) : m \in input.forged}
  BY DEF Marked, Buffer
<1>2. Buffer(input, data).sound = UNION {Occurrences(data, First(b)) : b \in Blocks}
  BY DEF Buffer, Blocks, First
<1>3. /\ \A b \in Blocks : First(b) \in Nat
      /\ input.forged \subseteq Nat
  BY InputType, ForgedAre, BlocksType DEF Blocks, First
<1>4. PICK m \in Nat : Starts(m) /\ x \in Occurrences(data, m)
  <2> HIDE DEF data
  <2>1. CASE \E b \in Blocks : x \in Occurrences(data, First(b))
    BY <1>3, <2>1 DEF Starts
  <2>2. CASE \E m \in input.forged : x \in Occurrences(data, m)
    BY <1>3, <2>2 DEF Starts
  <2>3. x \in UNION {Occurrences(data, First(b)) : b \in Blocks}
        \/ x \in UNION {Occurrences(data, m) : m \in input.forged}
    BY <1>1, <1>2 DEF data
  <2> QED BY <2>1, <2>2, <2>3
<1>5. /\ InStretch(a, q, m) => Occurrences(data, m) = {m - a * ByteBits}
      /\ ~ InStretch(a, q, m) => Occurrences(data, m) = {}
  BY OccurrencesInStretch
<1> QED BY <1>4, <1>5

LEMMA SortedHolds ==
  ASSUME WellFormed(input), NEW S \in SUBSET Blocks
  PROVE  /\ Sorted(S) \in Seq(Blocks)
         /\ \A b \in S : \E p \in DOMAIN Sorted(S) : Sorted(S)[p] = b
<1>1. S \in SUBSET Int /\ IsFiniteSet(S)
  <2> DEFINE N == Len(input.blocks)
  <2>1. Blocks = 1 .. N /\ N \in Nat
    BY BlocksOrder
  <2>2. S \in SUBSET Int
    BY <2>1
  <2> HIDE DEF N
  <2> DEFINE one == 1
  <2>3. one \in Int /\ N \in Int
    BY <2>1
  <2> HIDE DEF one
  <2>4. IsFiniteSet(one .. N)
    BY <2>3, FS_Interval
  <2>5. S \subseteq one .. N
    BY <2>1 DEF one
  <2> HIDE DEF N
  <2> QED BY <2>2, <2>4, <2>5, FS_Subset
<1> DEFINE k == Cardinality(S)
<1>2. /\ k \in Nat /\ Sorted(S) \in [1 .. k -> S]
      /\ \A x \in S : \E i \in 1 .. k : Sorted(S)[i] = x
  BY <1>1, SortedAscends
<1> HIDE DEF k
<1>3. Sorted(S) \in [1 .. k -> Blocks]
  BY <1>2
<1> QED BY <1>2, <1>3

LEMMA SegmentType ==
  ASSUME WellFormed(input), NEW data, NEW start, NEW end
  PROVE  DecodeSegment(data, start, end) \in Seq(Blocks)
<1> DEFINE i == start \div ByteBits + 1
           shift == (data[i] - (i - 1)) * ByteBits
           runEnd == (data[RunEnd(data, i)] + 1) * ByteBits
           hit == {b \in Blocks : First(b) = start + shift}
           reached == {b \in Blocks : /\ \A h \in hit : b >= h
                                      /\ hit # {}
                                      /\ First(b) < end + shift
                                      /\ \A c \in Blocks : c <= b /\ (\A h \in hit : c >= h)
                                                           => End(c) <= runEnd /\ c \notin input.damaged}
<1>1. DecodeSegment(data, start, end) = Sorted(reached)
  BY DEF DecodeSegment
<1>2. reached \in SUBSET Blocks
  OBVIOUS
<1> HIDE DEF reached
<1> QED BY <1>1, <1>2, SortedHolds

\* A block of a segment is decoded, or one in front of it in the segment fails.
Gives(segment, h, b) ==
  \/ \E p \in DOMAIN segment : segment[p] = b
  \/ \E c \in Blocks : h <= c /\ c <= b /\ c \in input.damaged

LEMMA SegmentHolds ==
  ASSUME WellFormed(input), NEW a \in Nat, NEW q \in Nat, a <= q,
         NEW h \in Blocks, InStretch(a, q, First(h)), NEW start, start = First(h) - a * ByteBits,
         NEW end \in Nat,
         NEW b \in Blocks, h <= b, First(b) < end + a * ByteBits, End(b) <= q * ByteBits
  PROVE  Gives(DecodeSegment(Bytes(a, q), start, end), h, b)
<1> DEFINE E == end + a * ByteBits
           qB == q * ByteBits
<1>1. DecodeSegment(Bytes(a, q), start, end) = Sorted(Reached(h, E, qB))
  BY SegmentOf
<1> SUFFICES ASSUME \A c \in Blocks : h <= c /\ c <= b => c \notin input.damaged
             PROVE  b \in Reached(h, E, qB)
  <2>0. Gives(DecodeSegment(Bytes(a, q), start, end), h, b) <=>
          \/ \E p \in DOMAIN DecodeSegment(Bytes(a, q), start, end) :
               DecodeSegment(Bytes(a, q), start, end)[p] = b
          \/ \E c \in Blocks : h <= c /\ c <= b /\ c \in input.damaged
    BY DEF Gives
  <2>1. Reached(h, E, qB) \in SUBSET Blocks
    BY DEF Reached
  <2> HIDE DEF E, qB
  <2>2. \A x \in Reached(h, E, qB) :
          \E p \in DOMAIN Sorted(Reached(h, E, qB)) : Sorted(Reached(h, E, qB))[p] = x
    BY <2>1, SortedHolds
  <2> QED BY <1>1, <2>0, <2>2
<1>2. ASSUME NEW c \in Blocks, c <= b PROVE End(c) <= qB
  <2>1. /\ End(c) \in Nat /\ End(b) \in Nat /\ First(b) \in Nat /\ c \in Nat /\ b \in Nat
        /\ c < b => End(c) <= First(b)
    BY BlocksOrder
  <2>2. First(b) <= End(b)
    <3>1. First(b) + Window * ByteBits <= End(b)
      BY DEF WellFormed, Blocks, First, End
    <3> DEFINE w == Window * ByteBits
    <3>2. w \in Nat
      BY Widths
    <3> HIDE DEF w
    <3>3. First(b) + w <= End(b)
      BY <3>1 DEF w
    <3> QED BY <2>1, <3>2, <3>3
  <2>3. c = b \/ c < b
    BY <1>2, <2>1
  <2>4. qB \in Nat
    BY Widths, Products
  <2> DEFINE x == End(c)
             y == End(b)
             z == First(b)
  <2>5. x \in Nat /\ y \in Nat /\ z \in Nat /\ y <= qB /\ (x = y \/ x <= z)
    BY <2>1, <2>3
  <2>6. z <= y
    BY <2>2
  <2> HIDE DEF x, y, z, qB
  <2>7. x <= qB
    BY <2>4, <2>5, <2>6
  <2> QED BY <2>7 DEF x
<1>3. First(b) < E
  OBVIOUS
<1> QED BY <1>2, <1>3 DEF Reached

\* From a block to the last boundary in front of it is no more than a part of
\* the slot: the search that begins in this part would have found the block.
LEMMA CutReach ==
  ASSUME TypeOK, NEW a \in Nat, NEW q \in Nat, a <= q, q - a <= ChunkSize + Headroom,
         NEW buf, IsStretch(a, q, buf), NEW last \in BOOLEAN,
         NEW split, SplitIs(buf, split, last), CutsAt(buf, split, n, last),
         NEW b \in Blocks, a * ByteBits <= First(b), End(b) <= q * ByteBits,
         NEW x, x = First(b) - a * ByteBits,
         NEW s \in Nat, \A j \in DOMAIN split.starts : split.starts[j] <= x => split.starts[j] <= s
  PROVE  x <= s + (((ChunkSize + Headroom) * ByteBits) \div n)
<1> DEFINE T == TotalBits(buf)
           C == (ChunkSize + Headroom) * ByteBits
           aB == a * ByteBits
           qB == q * ByteBits
           w == Window * ByteBits
<1>1. /\ WellFormed(input) /\ n \in Nat \ {0} /\ ChunkSize \in Nat /\ Headroom \in Nat
  BY InputType, CarryAssumption
<1>2. aB \in Nat /\ qB \in Nat /\ (q - a) * ByteBits = qB - aB /\ w \in Nat \ {0}
      /\ MagicBits \in Nat \ {0} /\ VerifyBits \in Nat \ {0} /\ ByteBits \in Nat \ {0}
  BY StretchBits, Widths
<1>3. T = qB - aB /\ T \in Nat
  BY DEF IsStretch, BufferType
<1>4. C \in Nat /\ T <= C
  <2> DEFINE r == q - a
             z == ChunkSize + Headroom
  <2>1. r \in Nat /\ z \in Nat /\ r <= z
    BY <1>1
  <2> HIDE DEF r, z
  <2>2. ByteBits * r <= ByteBits * z
    BY <1>2, <2>1, MulMono
  <2>3. ByteBits * r = r * ByteBits /\ ByteBits * z = z * ByteBits /\ z * ByteBits \in Nat
    BY <1>2, <2>1, Products
  <2>4. r * ByteBits = T /\ z * ByteBits = C
    BY <1>2, <1>3 DEF r, z
  <2> QED BY <2>2, <2>3, <2>4
<1>5. /\ First(b) \in Nat /\ End(b) \in Nat
      /\ First(b) + MagicBits + VerifyBits <= End(b) /\ First(b) + w <= End(b)
  <2>1. First(b) + w <= End(b)
    BY <1>1 DEF WellFormed, Blocks, First, End
  <2> QED BY <1>1, <2>1, BlocksOrder, ForgedAre
<1> HIDE DEF T, C, aB, qB, w
<1>6. /\ x \in Nat /\ x < T /\ x + MagicBits + VerifyBits <= T /\ x + w <= T
      /\ First(b) + MagicBits <= qB
  <2> DEFINE f == First(b)
             e == End(b)
  <2>1. f \in Nat /\ e \in Nat /\ f + MagicBits + VerifyBits <= e /\ f + w <= e /\ aB <= f /\ e <= qB /\ x = f - aB
    BY <1>5 DEF aB, qB
  <2> HIDE DEF f, e
  <2>2. x \in Nat /\ x < T /\ x + MagicBits + VerifyBits <= T /\ x + w <= T /\ f + MagicBits <= qB
    BY <1>2, <1>3, <2>1
  <2> QED BY <2>2 DEF f
<1>7. x \in buf.marks \cap buf.sound
  <2>1. InStretch(a, q, First(b))
    BY <1>6 DEF InStretch, qB
  <2> QED BY <2>1 DEF IsStretch
<1>8. PICK k \in 0 .. n - 1 : (T * k) \div n <= x /\ x < (T * (k + 1)) \div n
  BY <1>1, <1>3, <1>6, PartExists
<1> DEFINE P == (T * k) \div n
<1>9. k \in Nat /\ P \in Nat /\ P <= x
  <2>1. k \in Nat
    BY <1>1
  <2>2. T * k \in Nat
    BY <1>3, <2>1, Products
  <2>3. P \in Nat
    <3> DEFINE X == T * k
    <3> HIDE DEF X
    <3> QED BY <1>1, <2>2, Division DEF X
  <2> QED BY <1>8, <2>1, <2>3
<1>10. P <= s
  <2>1. CASE k = 0
    <3>1. (n * 0 + 0) \div n = 0
      <4>1. 0 \in 0 .. n - 1 /\ 0 \in Nat
        BY <1>1
      <4> QED BY <1>1, <4>1, DivUnique
    <3>2. T * 0 = n * 0 + 0
      BY <1>1, <1>3
    <3> QED BY <2>1, <3>1, <3>2
  <2>2. CASE k # 0
    <3> DEFINE c == FindQuickBoundary(buf, P)
    <3>1. BufferType(buf)
      BY DEF IsStretch
    <3> HIDE DEF P
    <3>2. \/ /\ c = None
             /\ \A m \in buf.marks \cap buf.sound :
                  P <= m => TooClose(buf, m) \/ m + w > T
          \/ /\ c \in buf.marks \cap buf.sound /\ P <= c
             /\ \A m \in buf.marks \cap buf.sound : P <= m => c <= m
      BY <1>9, <3>1, FindQuick DEF w, T
    <3>3. ~ TooClose(buf, x) /\ ~(x + w > T)
      <4>1. x + MagicBits + VerifyBits \in Nat /\ x + w \in Nat
        BY <1>2, <1>6
      <4>2. ~(x + MagicBits + VerifyBits > T) /\ ~(x + w > T)
        <5> DEFINE y == x + MagicBits + VerifyBits
                   z == x + w
        <5>1. y \in Nat /\ z \in Nat /\ y <= T /\ z <= T
          BY <1>6, <4>1
        <5> HIDE DEF y, z
        <5>2. ~(y > T) /\ ~(z > T)
          BY <1>3, <5>1
        <5> QED BY <5>2 DEF y, z
      <4> QED BY <4>2 DEF TooClose, T
    <3>4. c # None /\ c \in buf.marks /\ P <= c /\ c <= x
      BY <1>7, <1>9, <3>2, <3>3, <3>1 DEF BufferType, None
    <3>5. c \in SplitBoundariesParallel(buf, n)
      <4>1. k \in 1 .. n - 1
        BY <1>1, <2>2
      <4> QED BY <3>4, <4>1 DEF SplitBoundariesParallel, P, T
    <3>6. c <= s
      BY <3>4, <3>5 DEF CutsAt
    <3>7. c \in Nat
      BY <3>1, <3>4 DEF BufferType
    <3> HIDE DEF c
    <3> QED BY <1>9, <3>4, <3>6, <3>7
  <2> QED BY <2>1, <2>2
<1>11. x <= s + (C \div n)
  BY <1>1, <1>3, <1>4, <1>6, <1>8, <1>9, <1>10, PartOfSlot
<1> QED BY <1>11 DEF C

\* What begins in the segments decoded and lies in the slot as a whole is decoded
\* or in the hole behind a harm.
LEMMA SlotSettles ==
  ASSUME TypeOK, NEW a \in Nat, NEW q \in Nat, a <= q, q - a <= ChunkSize + Headroom,
         IsStretch(a, q, Marked(Bytes(a, q))), NEW last \in BOOLEAN,
         NEW split, SplitIs(Marked(Bytes(a, q)), split, last), CutsAt(Marked(Bytes(a, q)), split, n, last),
         NEW m \in Nat, Starts(m), a * ByteBits <= m, split.starts[1] = m - a * ByteBits,
         NEW b \in Blocks, m <= First(b), End(b) <= q * ByteBits,
         split.count < Len(split.starts) => First(b) - a * ByteBits < split.starts[split.count + 1]
  PROVE  b \in ToSet(DecodeAll(Bytes(a, q), split)) \/ \E h \in Harm : b \in Hole(h)
<1> DEFINE data == Bytes(a, q)
           buf == Marked(data)
           starts == split.starts
           L == Len(starts)
           k == split.count
           aB == a * ByteBits
           qB == q * ByteBits
           part == ((ChunkSize + Headroom) * ByteBits) \div n
           f == First(b)
           x == f - aB
           end(i) == IF i < L THEN starts[i + 1] ELSE Len(data) * ByteBits
           g == [i \in 1 .. k |-> DecodeSegment(data, starts[i], end(i))]
<1>1. /\ starts \in Seq(Nat) /\ Ascends(starts) /\ L \in Nat /\ L # 0 /\ DOMAIN starts = 1 .. L
      /\ k \in 1 .. L /\ \A i \in 1 .. L : starts[i] \in Nat /\ starts[i] \in buf.marks
  <2>1. starts \in Seq(Nat) /\ Ascends(starts) /\ k \in 1 .. L
    BY DEF SplitIs
  <2>2. L \in Nat /\ DOMAIN starts = 1 .. L
    BY <2>1
  <2>3. \A i \in DOMAIN starts : starts[i] \in buf.marks
    BY DEF SplitIs
  <2> HIDE DEF starts, k, buf
  <2>3a. \A i \in 1 .. L : starts[i] \in Nat
    BY <2>1
  <2> HIDE DEF L
  <2>4. \A i \in 1 .. L : starts[i] \in Nat /\ starts[i] \in buf.marks
    BY <2>2, <2>3, <2>3a
  <2>5. L # 0
    BY <2>1, <2>2
  <2> QED BY <2>1, <2>2, <2>4, <2>5
<1>2. /\ WellFormed(input) /\ n \in Nat \ {0}
      /\ aB \in Nat /\ qB \in Nat /\ Len(data) * ByteBits = qB - aB /\ aB <= qB
  <2>1. Len(data) = q - a
    BY StretchOfBytes
  <2>2. (q - a) * ByteBits = qB - aB /\ (q - a) * ByteBits \in Nat /\ aB \in Nat /\ qB \in Nat
    BY StretchBits
  <2>3. aB <= qB
    <3> HIDE DEF aB, qB
    <3> QED BY <2>2
  <2> QED BY <2>1, <2>2, <2>3, InputType
<1>3. part \in Nat
  <2> DEFINE C == (ChunkSize + Headroom) * ByteBits
  <2>1. C \in Nat
    <3>1. ChunkSize + Headroom \in Nat
      BY CarryAssumption
    <3> QED BY <3>1, Widths, Products
  <2> HIDE DEF C
  <2> QED BY <1>2, <2>1, Division DEF C
<1>4. f \in Nat /\ End(b) \in Nat /\ f < End(b) /\ End(b) <= qB
  <2>1. First(b) \in Nat /\ End(b) \in Nat /\ First(b) + Window * ByteBits <= End(b)
    BY <1>2, BlocksOrder DEF WellFormed, Blocks, First, End
  <2> DEFINE w == Window * ByteBits
             e == End(b)
  <2>2. w \in Nat \ {0}
    BY Widths
  <2>3. f \in Nat /\ e \in Nat /\ f + w <= e
    BY <2>1
  <2> HIDE DEF w, e, f
  <2>4. f < e
    BY <2>2, <2>3
  <2> QED BY <2>3, <2>4 DEF e
<1>5. x \in Nat /\ starts[1] <= x
  <2>1. m <= f /\ aB <= m /\ starts[1] = m - aB
    OBVIOUS
  <2> DEFINE s == starts[1]
  <2>2. s = m - aB
    BY <2>1
  <2> HIDE DEF f, aB, s
  <2>3. x \in Nat /\ s <= x
    BY <1>2, <1>4, <2>1, <2>2
  <2> QED BY <2>3 DEF s
<1>6. PICK i \in 1 .. L :
        /\ starts[i] <= x
        /\ i < L => x < starts[i + 1]
        /\ \A j \in 1 .. L : starts[j] <= x => starts[j] <= starts[i]
  <2>1. starts \in Seq(Nat) /\ Ascends(starts) /\ Len(starts) # 0 /\ x \in Nat /\ starts[1] <= x
    BY <1>1, <1>5
  <2> HIDE DEF starts, x
  <2> QED BY <2>1, LastUpTo
<1> DEFINE s == starts[i]
<1>7. x <= s + part
  <2>1. s \in Nat
    BY <1>1, <1>6
  <2>2. \A j \in DOMAIN starts : starts[j] <= x => starts[j] <= s
    BY <1>1, <1>6
  <2>3. aB <= f
    <3>1. m <= f /\ aB <= m
      OBVIOUS
    <3> HIDE DEF f, aB
    <3> QED BY <1>2, <1>4, <3>1
  <2>4. SplitIs(buf, split, last) /\ CutsAt(buf, split, n, last) /\ IsStretch(a, q, buf)
        /\ a * ByteBits <= First(b) /\ End(b) <= q * ByteBits /\ x = First(b) - a * ByteBits
        /\ \A j \in DOMAIN split.starts : split.starts[j] <= x => split.starts[j] <= s
    BY <2>2, <2>3
  <2> HIDE DEF s, buf, x, data, starts, f, aB
  <2>5. x <= s + (((ChunkSize + Headroom) * ByteBits) \div n)
    BY <2>1, <2>4, CutReach
  <2> QED BY <2>5
<1>8. i \in 1 .. k
  <2>1. CASE k = L
    BY <1>1, <2>1
  <2>2. CASE k # L
    <3>1. k < L /\ k + 1 \in 1 .. L
      <4> HIDE DEF k, L
      <4> QED BY <1>1, <2>2
    <3>2. x < starts[k + 1]
      BY <3>1
    <3>3. starts[i] < starts[k + 1]
      <4> DEFINE y == starts[k + 1]
      <4>1. y \in Nat /\ s \in Nat /\ s <= x /\ x < y
        BY <1>1, <1>6, <3>1, <3>2
      <4> HIDE DEF y, s, x
      <4>2. s < y
        BY <1>5, <4>1
      <4> QED BY <4>2 DEF y, s
    <3> HIDE DEF starts, k, L
    <3>4. ~(k + 1 < i)
      <4> SUFFICES ASSUME k + 1 < i PROVE FALSE
        OBVIOUS
      <4>1. starts[k + 1] < starts[i]
        BY <1>1, <1>6, <3>1 DEF Ascends
      <4>2. starts[k + 1] \in Nat /\ starts[i] \in Nat
        BY <1>1, <1>6, <3>1
      <4> QED BY <3>3, <4>1, <4>2
    <3>5. i # k + 1
      <4> SUFFICES ASSUME i = k + 1 PROVE FALSE
        OBVIOUS
      <4>1. starts[i] < starts[i] /\ starts[i] \in Nat
        BY <1>1, <1>6, <3>3
      <4> QED BY <4>1
    <3> QED BY <1>1, <1>6, <3>1, <3>4, <3>5
  <2> QED BY <2>1, <2>2
<1>9. PICK t \in Nat : Starts(t) /\ InStretch(a, q, t) /\ s = t - aB
  <2>1. CASE i = 1
    <3>1. PICK r \in Magics(input) : InStretch(a, q, r) /\ s = r - aB
      BY <1>1, <1>6 DEF IsStretch
    <3>2. r \in Nat
      BY <1>2, BlocksType
    <3>3. s = m - aB
      BY <2>1
    <3> HIDE DEF s, aB
    <3>4. r = m
      BY <1>2, <3>1, <3>2, <3>3
    <3> QED BY <3>1, <3>2, <3>4 DEF aB
  <2>2. CASE i # 1
    <3>1. s \in buf.sound
      BY <1>1, <1>6, <2>2 DEF CutsAt
    <3>2. PICK r : Starts(r) /\ InStretch(a, q, r) /\ s = r - aB
      BY <3>1, SoundIs
    <3>3. r \in Nat
      BY <1>2, <3>2, ForgedAre, BlocksOrder DEF Starts
    <3> QED BY <3>2, <3>3
  <2> QED BY <2>1, <2>2
<1>10. t <= f /\ f <= t + part
  <2>1. s <= x /\ s \in Nat /\ s = t - aB
    BY <1>1, <1>6, <1>9
  <2> HIDE DEF s, f, aB, part
  <2> QED BY <1>2, <1>3, <1>4, <1>7, <1>9, <2>1
<1>11. CASE t \in input.forged
  <2>1. End(b) > t
    <3> DEFINE e == End(b)
    <3>1. e \in Nat /\ f < e
      BY <1>4
    <3> HIDE DEF e, f
    <3>2. e > t
      BY <1>4, <1>9, <1>10, <3>1
    <3> QED BY <3>2 DEF e
  <2>2. b \in Hole(t)
    BY <1>10, <2>1 DEF Hole
  <2> QED BY <1>11, <2>2 DEF Harm
<1>12. CASE t \notin input.forged
  <2>1. PICK h \in Blocks : t = First(h)
    BY <1>9, <1>12 DEF Starts
  <2>2. h <= b
    <3>1. /\ Blocks = 1 .. Len(input.blocks) /\ First(h) \in Nat
          /\ b < h => First(b) < First(h)
      BY <1>2, BlocksOrder
    <3>2. ~(First(b) < First(h))
      <4> DEFINE z == First(h)
      <4>1. z \in Nat /\ z <= f
        BY <1>10, <2>1, <3>1
      <4> HIDE DEF z, f
      <4>2. ~(f < z)
        BY <1>4, <4>1
      <4> QED BY <4>2 DEF z, f
    <3>3. b \in Nat /\ h \in Nat /\ ~(b < h)
      BY <3>1, <3>2
    <3> QED BY <3>3
  <2>3. end(i) \in Nat /\ f < end(i) + aB
    <3>1. CASE i < L
      <4> DEFINE y == starts[i + 1]
      <4>1. i + 1 \in 1 .. L
        BY <1>1, <1>6, <3>1
      <4>2. y \in Nat /\ x < y /\ end(i) = y
        BY <1>1, <1>6, <3>1, <4>1
      <4> HIDE DEF y, f, aB
      <4>3. f < y + aB
        BY <1>2, <1>4, <4>2
      <4> QED BY <4>2, <4>3
    <3>2. CASE ~(i < L)
      <4> DEFINE y == Len(data) * ByteBits
                 e == End(b)
      <4>1. y = qB - aB /\ end(i) = y /\ f < e /\ e <= qB /\ e \in Nat
        BY <1>2, <1>4, <3>2
      <4> HIDE DEF y, f, aB, qB, e
      <4>2. y \in Nat /\ f < y + aB
        BY <1>2, <1>4, <4>1
      <4> QED BY <4>1, <4>2
    <3> QED BY <3>1, <3>2
  <2>4. \/ \E p \in DOMAIN DecodeSegment(data, s, end(i)) : DecodeSegment(data, s, end(i))[p] = b
        \/ \E c \in Blocks : h <= c /\ c <= b /\ c \in input.damaged
    <3>1. InStretch(a, q, First(h)) /\ s = First(h) - aB
      BY <1>9, <2>1
    <3> DEFINE z == end(i)
    <3>2. z \in Nat /\ f < z + aB
      BY <2>3
    <3> HIDE DEF z, s
    <3>3. Gives(DecodeSegment(Bytes(a, q), s, z), h, b)
      BY <1>2, <1>4, <2>2, <3>1, <3>2, SegmentHolds
    <3> HIDE DEF data
    <3>4. Gives(DecodeSegment(data, s, z), h, b)
      BY <3>3 DEF data
    <3> QED BY <3>4 DEF z, Gives
  <2>5. CASE \E p \in DOMAIN DecodeSegment(data, s, end(i)) : DecodeSegment(data, s, end(i))[p] = b
    <3>1. PICK p \in DOMAIN DecodeSegment(data, s, end(i)) : DecodeSegment(data, s, end(i))[p] = b
      BY <2>5
    <3>2. \A j \in 1 .. k : DecodeSegment(data, starts[j], end(j)) \in Seq(Blocks)
      BY <1>2, SegmentType
    <3> DEFINE seg(j) == DecodeSegment(data, starts[j], end(j))
    <3>3. g \in [1 .. k -> Seq(Blocks)] /\ g[i] = DecodeSegment(data, s, end(i)) /\ k \in Nat \ {0}
      <4>1. g = [j \in 1 .. k |-> seg(j)] /\ (\A j \in 1 .. k : seg(j) \in Seq(Blocks))
            /\ seg(i) = DecodeSegment(data, s, end(i))
        BY <3>2
      <4> HIDE DEF g, seg, k, L
      <4> QED BY <1>1, <1>8, <4>1
    <3>4. DecodeAll(data, split) = FlattenSeq(g)
      BY DEF DecodeAll
    <3>5. p \in DOMAIN g[i] /\ g[i][p] = b
      BY <3>1, <3>3
    <3> HIDE DEF g, k
    <3>6. g[i][p] \in ToSet(FlattenSeq(g))
      BY <1>8, <3>3, <3>5, FlatHolds
    <3> QED BY <3>4, <3>5, <3>6
  <2>6. CASE \E c \in Blocks : h <= c /\ c <= b /\ c \in input.damaged
    <3>1. PICK c \in Blocks : h <= c /\ c <= b /\ c \in input.damaged
      BY <2>6
    <3> DEFINE u == First(c)
               v == First(h)
               e == End(b)
    <3>2. u \in Nat /\ v \in Nat /\ v <= u /\ u <= f
      <4>1. /\ Blocks = 1 .. Len(input.blocks) /\ First(h) \in Nat /\ First(c) \in Nat
            /\ (h < c => First(h) < First(c)) /\ (c < b => First(c) < First(b))
        BY <1>2, BlocksOrder
      <4>2. (h = c \/ h < c) /\ (c = b \/ c < b)
        BY <3>1, <4>1
      <4>3. (v = u \/ v < u) /\ (u = f \/ u < f) /\ u \in Nat /\ v \in Nat
        BY <4>1, <4>2
      <4> HIDE DEF u, v, f
      <4> QED BY <1>4, <4>3
    <3>3. v = t /\ e \in Nat /\ f < e
      BY <1>4, <2>1
    <3> HIDE DEF u, v, e, f, part
    <3>4. e > u /\ f <= u + part
      BY <1>3, <1>4, <1>9, <1>10, <3>2, <3>3
    <3>5. b \in Hole(u)
      BY <3>4 DEF Hole, e, f, part
    <3>6. u \in Harm
      BY <3>1 DEF Harm, u
    <3> QED BY <3>5, <3>6
  <2> QED BY <2>4, <2>5, <2>6
<1> QED BY <1>11, <1>12

-----------------------------------------------------------------------------
(* All is decoded but for the harm                                         *)

Settled(d, b) == b \in ToSet(d) \/ \E h \in Harm : b \in Hole(h)
AllSettled(d, m) == \A b \in Blocks : First(b) < m => Settled(d, b)

\* What the carry begins with, and that nothing in front of it is missing.
AllInv ==
  /\ RestInv /\ AllDecoded
  /\ Roomy /\ pc = "loop" =>
       \A a, m : CarriedFrom(a, m) => Starts(m) /\ AllSettled(decoded, m)

\* The carry tells where it begins, and with which magic.
LEMMA LeadsOnce ==
  ASSUME WellFormed(input), NEW p \in Nat, NEW a \in Nat, a < p, NEW c \in Nat, c < p,
         Bytes(a, p) = Bytes(c, p), NEW m, Leads(m, a), NEW k, Leads(k, c)
  PROVE  a = c /\ m = k
<1>1. a = c
  <2>1. a <= p /\ c <= p
    OBVIOUS
  <2>2. Len(Bytes(a, p)) = p - a /\ Len(Bytes(c, p)) = p - c
    BY <2>1, StretchOfBytes
  <2>3. p - a = p - c
    BY <2>2
  <2> QED BY <2>3
<1>2. m <= k /\ k <= m /\ m \in Nat /\ k \in Nat
  BY <1>1, BlocksType DEF Leads
<1> QED BY <1>1, <1>2

LEMMA ConcatSettled ==
  ASSUME WellFormed(input), NEW d \in Seq(Blocks), NEW e \in Seq(Blocks), NEW b \in Blocks,
         Settled(d, b) \/ b \in ToSet(e)
  PROVE  Settled(d \o e, b)
<1>1. HoldsAll(d \o e, d) /\ HoldsAll(d \o e, e)
  BY ConcatHolds
<1>2. ToSet(d) \subseteq ToSet(d \o e) /\ ToSet(e) \subseteq ToSet(d \o e)
  <2> DEFINE u == d \o e
  <2>1. HoldsAll(u, d) /\ HoldsAll(u, e)
    BY <1>1
  <2> HIDE DEF u
  <2>2. ToSet(d) \subseteq ToSet(u) /\ ToSet(e) \subseteq ToSet(u)
    BY <2>1 DEF HoldsAll, ToSet
  <2> QED BY <2>2 DEF u
<1> QED BY <1>2 DEF Settled

LEMMA DecodeAllType ==
  ASSUME WellFormed(input), NEW data, NEW split, split.count \in Nat
  PROVE  DecodeAll(data, split) \in Seq(Blocks)
<1> DEFINE end(i) == IF i < Len(split.starts) THEN split.starts[i + 1] ELSE Len(data) * ByteBits
           seg(i) == DecodeSegment(data, split.starts[i], end(i))
           k == split.count
           g == [i \in 1 .. k |-> seg(i)]
<1>1. DecodeAll(data, split) = FlattenSeq(g)
  BY DEF DecodeAll
<1>2. \A i \in 1 .. k : seg(i) \in Seq(Blocks)
  BY SegmentType
<1>3. k \in Nat
  OBVIOUS
<1> HIDE DEF seg, k
<1>4. g \in [1 .. k -> Seq(Blocks)]
  BY <1>2
<1> HIDE DEF g
<1> QED BY <1>1, <1>3, <1>4, FlatType

LEMMA AllInit == Init => AllInv
<1> SUFFICES ASSUME Init PROVE AllInv
  OBVIOUS
<1>1. RestInv
  BY RestInit
<1>2. AllDecoded
  BY DEF Init, AllDecoded
<1>3. ASSUME Roomy, NEW a, NEW m, CarriedFrom(a, m) PROVE Starts(m) /\ AllSettled(decoded, m)
  <2>1. /\ HeaderSize \in Nat \ {0} /\ pos = HeaderSize /\ WellFormed(input)
        /\ carry = Bytes(0, HeaderSize) /\ pc = "loop"
    BY <1>1, InputType DEF RestInv, OrderInv, Init
  <2>2. First(1) = HeaderSize * ByteBits /\ 1 \in Blocks /\ \A k \in Magics(input) : k >= First(1)
    BY <1>1, <1>3, RoomyMeans DEF RestInv, OrderInv, Roomy
  <2>3. m = First(1)
    <3>1. a \in Nat /\ a < HeaderSize /\ Bytes(a, HeaderSize) = Bytes(0, HeaderSize) /\ Leads(m, a)
      BY <1>3, <2>1 DEF CarriedFrom
    <3>2. 0 * ByteBits = 0 /\ 0 + HeaderSize = HeaderSize /\ HeaderSize * ByteBits \in Nat
      BY <2>1, Widths, Products
    <3>3. Leads(First(1), 0)
      <4>1. First(1) \in Magics(input)
        BY <2>2 DEF Magics, Blocks, First
      <4>2. \A k \in Magics(input) : First(1) <= k
        <5>1. Magics(input) \subseteq Nat /\ First(1) \in Nat
          BY <2>1, <2>2, <3>2, BlocksType
        <5> QED BY <2>2, <5>1
      <4>3. 0 * ByteBits <= First(1) /\ First(1) <= (0 + HeaderSize) * ByteBits
        BY <2>2, <3>2
      <4> QED BY <4>1, <4>2, <4>3 DEF Leads
    <3>4. 0 < HeaderSize /\ HeaderSize \in Nat /\ 0 \in Nat
      BY <2>1
    <3> QED BY <2>1, <3>1, <3>3, <3>4, LeadsOnce
  <2>4. \A b \in Blocks : ~(First(b) < First(1))
    <3> SUFFICES ASSUME NEW b \in Blocks PROVE ~(First(b) < First(1))
      OBVIOUS
    <3>1. First(b) \in Magics(input)
      BY DEF Magics, Blocks, First
    <3>2. First(b) \in Nat /\ First(1) \in Nat /\ First(b) >= First(1)
      BY <2>1, <2>2, <3>1, BlocksOrder
    <3> QED BY <3>2
  <2> QED BY <2>2, <2>3, <2>4 DEF Starts, AllSettled
<1> QED BY <1>1, <1>2, <1>3 DEF AllInv

\* How a slot that is not dropped is cut.
LEMMA CutOf ==
  ASSUME TypeOK, NEW data, BufferType(Marked(data)), NEW split \in Splits(data) \ {NoSplit}
  PROVE  /\ SplitIs(Marked(data), split, IsLast) /\ CutsAt(Marked(data), split, n, IsLast)
         /\ IsLast \in BOOLEAN
<1> DEFINE buf == Marked(data)
           last == IsLast
<1>1. split = SplitChunk(buf, n, last) /\ split # NoSplit
  BY DEF Splits
<1>2. n \in Nat \ {0} /\ last \in BOOLEAN
  BY InputType, ReadLenType
<1> HIDE DEF last, buf
<1>3. SplitIs(buf, split, last) /\ CutsAt(buf, split, n, last)
  BY <1>1, <1>2, SplitsInOrder DEF buf
<1> QED BY <1>2, <1>3 DEF last, buf

\* What begins in front of the next carry and was read as a whole is settled.
LEMMA SlotAll ==
  ASSUME AllInv, Roomy, pc = "loop", NEW data \in Slots, NEW split \in Splits(data) \ {NoSplit},
         NEW a, NEW m, CarriedFrom(a, m),
         NEW b \in Blocks, End(b) <= (pos + ReadLen) * ByteBits,
         split.count < Len(split.starts) => First(b) - a * ByteBits < split.starts[split.count + 1]
  PROVE  Settled(decoded \o DecodeAll(data, split), b)
<1> DEFINE q == pos + ReadLen
           last == IsLast
           g == DecodeAll(data, split)
<1>1. /\ data = Bytes(a, q) /\ a \in Nat /\ q \in Nat /\ a < q
      /\ Leads(m, a) /\ WellFormed(input) /\ IsStretch(a, q, Marked(data))
      /\ q - a <= ChunkSize + Headroom
  BY SlotRead DEF AllInv
<1>2. TypeOK /\ decoded \in Seq(Blocks) /\ BufferType(Marked(data))
  BY <1>1 DEF AllInv, RestInv, OrderInv, TypeOK, IsStretch
<1>3. SplitIs(Marked(data), split, last) /\ CutsAt(Marked(data), split, n, last) /\ last \in BOOLEAN
  BY <1>2, CutOf
<1>4. g \in Seq(Blocks)
  <2>1. split.count \in Nat
    <3>1. split.starts \in Seq(Nat) /\ split.count \in 1 .. Len(split.starts)
      BY <1>3 DEF SplitIs
    <3> QED BY <3>1
  <2> QED BY <1>1, <2>1, DecodeAllType
<1>5. Starts(m) /\ AllSettled(decoded, m)
  BY DEF AllInv
<1>6. m \in Nat /\ First(b) \in Nat /\ a * ByteBits <= m
  BY <1>1, BlocksType, BlocksOrder DEF Leads
<1>7. CASE First(b) < m
  <2>1. Settled(decoded, b)
    BY <1>5, <1>7 DEF AllSettled
  <2> HIDE DEF g
  <2>2. Settled(decoded \o g, b)
    BY <1>1, <1>2, <1>4, <2>1, ConcatSettled
  <2> QED BY <2>2 DEF g
<1>8. CASE m <= First(b)
  <2>1. BeginsWith(split, m, a)
    <3>1. a <= q
      BY <1>1
    <3> HIDE DEF q, last
    <3>2. /\ WellFormed(input) /\ a \in Nat /\ q \in Nat /\ a <= q /\ IsStretch(a, q, Marked(data))
          /\ Leads(m, a) /\ last \in BOOLEAN /\ SplitIs(Marked(data), split, last)
          /\ CutsAt(Marked(data), split, n, last)
      BY <1>1, <1>3, <3>1
    <3> QED BY <3>2, SplitFirst
  <2>2. split.starts[1] = m - a * ByteBits /\ a <= q
    BY <1>1, <2>1 DEF BeginsWith
  <2>3. End(b) <= q * ByteBits
    OBVIOUS
  <2> HIDE DEF q, last
  <2>4. /\ IsStretch(a, q, Marked(Bytes(a, q))) /\ SplitIs(Marked(Bytes(a, q)), split, last)
        /\ CutsAt(Marked(Bytes(a, q)), split, n, last)
    BY <1>1, <1>3
  <2>5. b \in ToSet(DecodeAll(Bytes(a, q), split)) \/ \E h \in Harm : b \in Hole(h)
    BY <1>1, <1>2, <1>3, <1>5, <1>6, <1>8, <2>2, <2>3, <2>4, SlotSettles
  <2>6. b \in ToSet(g) \/ Settled(decoded, b)
    BY <1>1, <2>5 DEF Settled
  <2> HIDE DEF g
  <2>7. Settled(decoded \o g, b)
    BY <1>1, <1>2, <1>4, <2>6, ConcatSettled
  <2> QED BY <2>7 DEF g
<1> QED BY <1>6, <1>7, <1>8

\* What a round of the loop leaves unsettled is in the next carry or not in the file.
Settles(d, c, q) ==
  /\ IsLast => \A b \in Blocks : Settled(d, b) \/ End(b) > input.size * ByteBits
  /\ ~ IsLast => \A a, m : a \in Nat /\ a < q /\ c = Bytes(a, q) /\ Leads(m, a)
                             => Starts(m) /\ AllSettled(d, m)

LEMMA AcceptSettles ==
  ASSUME AllInv, Roomy, pc = "loop", NEW data \in Slots, NEW split \in Splits(data) \ {NoSplit}
  PROVE  Settles(decoded \o DecodeAll(data, split), SubSeq(data, split.consumed + 1, Len(data)), pos + ReadLen)
<1> DEFINE q == pos + ReadLen
           qB == q * ByteBits
           d == decoded \o DecodeAll(data, split)
           c == SubSeq(data, split.consumed + 1, Len(data))
           last == IsLast
<1>1. PICK a : \E m : CarriedFrom(a, m)
  BY DEF AllInv, RestInv, RestKept
<1>2. PICK m : CarriedFrom(a, m)
  BY <1>1
<1>3. /\ data = Bytes(a, q) /\ a \in Nat /\ q \in Nat /\ a < q
      /\ Leads(m, a) /\ WellFormed(input) /\ IsStretch(a, q, Marked(data))
      /\ (IsLast => q = input.size)
  BY <1>2, SlotRead DEF AllInv
<1>4. TypeOK /\ BufferType(Marked(data)) /\ qB \in Nat /\ \A b \in Blocks : First(b) \in Nat /\ End(b) \in Nat
  <2>1. TypeOK /\ BufferType(Marked(data))
    BY <1>3 DEF AllInv, RestInv, OrderInv, IsStretch
  <2> QED BY <1>3, <2>1, BlocksOrder, Widths, Products
<1>5. SplitIs(Marked(data), split, last) /\ CutsAt(Marked(data), split, n, last) /\ last \in BOOLEAN
  BY <1>4, CutOf
<1>6. ASSUME IsLast, NEW b \in Blocks PROVE Settled(d, b) \/ End(b) > input.size * ByteBits
  <2>1. ~(split.count < Len(split.starts))
    <3>1. split.starts \in Seq(Nat) /\ split.count = Len(split.starts)
      BY <1>5, <1>6 DEF SplitIs, CutsAt
    <3> QED BY <3>1
  <2>2. input.size * ByteBits = qB
    BY <1>3, <1>6
  <2>3. CASE End(b) <= qB
    <3>1. Settled(d, b)
      BY <1>2, <2>1, <2>3, SlotAll
    <3> QED BY <3>1
  <2>4. CASE ~(End(b) <= qB)
    <3> DEFINE e == End(b)
    <3>1. e \in Nat /\ ~(e <= qB)
      BY <1>4, <2>4
    <3> HIDE DEF e, qB
    <3>2. e > qB
      BY <1>4, <3>1
    <3> QED BY <2>2, <3>2 DEF e
  <2> QED BY <2>3, <2>4
<1>7. ASSUME ~ IsLast, NEW f, NEW t, f \in Nat, f < q, c = Bytes(f, q), Leads(t, f)
      PROVE  Starts(t) /\ AllSettled(d, t)
  <2> DEFINE y == split.consumed
             x == split.starts[split.count + 1]
             aB == a * ByteBits
  <2>1. /\ y \in Nat /\ a + y < q
        /\ \E k : /\ Leads(k, a + y) /\ k \div ByteBits = a + y
                 /\ split.starts[split.count + 1] = k - a * ByteBits
    BY <1>2, <1>5, <1>7, NextCarry DEF AllInv
  <2>2. PICK k : Leads(k, a + y) /\ x = k - aB
    BY <2>1
  <2>3. t = k
    <3> HIDE DEF q, y
    <3>1. y \in 0 .. q - a /\ a <= q /\ a + y \in Nat /\ a + y < q
      BY <1>3, <2>1
    <3>2. SubSeq(Bytes(a, q), y + 1, Len(Bytes(a, q))) = Bytes(a + y, q)
      BY <1>3, <3>1, BytesCut
    <3>3. c = Bytes(a + y, q)
      BY <1>3, <3>2 DEF y
    <3>4. Bytes(f, q) = Bytes(a + y, q)
      BY <1>7, <3>3
    <3> QED BY <1>3, <1>7, <2>2, <3>1, <3>4, LeadsOnce
  <2>4. k \in Nat /\ aB \in Nat /\ x + aB = k
    <3>1. k \in Nat /\ aB \in Nat
      BY <1>3, <2>2, BlocksType, Widths, Products DEF Leads
    <3> HIDE DEF x, aB
    <3> QED BY <2>2, <3>1
  <2>5. split.count < Len(split.starts) /\ split.count + 1 \in DOMAIN split.starts /\ split.count + 1 # 1
    <3>1. split.starts \in Seq(Nat) /\ split.count \in 1 .. Len(split.starts)
          /\ split.count = Len(split.starts) - 1
      BY <1>5, <1>7 DEF SplitIs, CutsAt
    <3> DEFINE L == Len(split.starts)
               j == split.count
    <3>2. L \in Nat /\ DOMAIN split.starts = 1 .. L /\ j \in 1 .. L /\ j = L - 1
      BY <3>1
    <3> HIDE DEF L, j
    <3>3. j < L /\ j + 1 \in 1 .. L /\ j + 1 # 1
      BY <3>2
    <3> QED BY <3>2, <3>3 DEF L, j
  <2>6. Starts(k) /\ k + MagicBits <= qB
    <3>1. x \in Marked(data).sound
      BY <1>5, <2>5 DEF CutsAt
    <3> HIDE DEF q
    <3>2. a <= q
      BY <1>3
    <3>3. PICK r : Starts(r) /\ InStretch(a, q, r) /\ x = r - aB
      BY <1>3, <1>4, <3>1, <3>2, SoundIs
    <3>4. r \in Nat
      BY <1>3, <1>4, <3>3, ForgedAre, BlocksOrder DEF Starts
    <3>5. r = k
      <4> HIDE DEF x, aB
      <4> QED BY <2>2, <2>4, <3>3, <3>4
    <3> QED BY <3>3, <3>5 DEF InStretch
  <2>7. ASSUME NEW b \in Blocks, First(b) < k PROVE Settled(d, b)
    <3> DEFINE z == First(b)
               e == End(b)
    <3>1. z \in Nat /\ e \in Nat /\ z < k
      BY <1>4, <2>7
    <3>2. z - aB < x
      <4> HIDE DEF z, x, aB
      <4> QED BY <2>2, <2>4, <3>1
    <3>3. CASE e <= qB
      BY <1>2, <3>2, <3>3, SlotAll
    <3>4. CASE ~(e <= qB)
      <4>1. k < qB /\ k < e
        <5> HIDE DEF qB, e
        <5> QED BY <1>4, <2>4, <2>6, <3>1, <3>4, Widths
      <4>2. k \in input.forged
        <5> SUFFICES ASSUME NEW h \in Blocks, k = First(h) PROVE FALSE
          BY <2>6 DEF Starts
        <5>1. e <= k
          BY <1>3, <2>7, BlocksOrder
        <5> HIDE DEF e
        <5> QED BY <2>4, <3>1, <4>1, <5>1
      <4> DEFINE part == ((ChunkSize + Headroom) * ByteBits) \div n
      <4>3. part \in Nat
        <5> DEFINE C == (ChunkSize + Headroom) * ByteBits
        <5>1. C \in Nat /\ n \in Nat \ {0}
          <6>1. ChunkSize + Headroom \in Nat
            BY CarryAssumption
          <6> QED BY <1>4, <6>1, InputType, Widths, Products
        <5> HIDE DEF C
        <5> QED BY <5>1, Division DEF C
      <4> HIDE DEF z, e, part
      <4>4. e > k /\ z <= k + part
        BY <2>4, <3>1, <4>1, <4>3
      <4>5. b \in Hole(k)
        BY <4>4 DEF Hole, z, e, part
      <4> QED BY <4>2, <4>5 DEF Settled, Harm
    <3> QED BY <3>3, <3>4
  <2> QED BY <2>3, <2>6, <2>7 DEF AllSettled
<1> QED BY <1>6, <1>7 DEF Settles

\* All that is in the file as a whole is settled.
FileSettled(d) == \A b \in Blocks : Settled(d, b) \/ End(b) > input.size * ByteBits

LEMMA NoneBehind ==
  ASSUME AllInv, Roomy, pc = "loop", NEW a, NEW m, CarriedFrom(a, m),
         m + Window * ByteBits > input.size * ByteBits
  PROVE  FileSettled(decoded)
<1> SUFFICES ASSUME NEW b \in Blocks, ~ Settled(decoded, b)
             PROVE  End(b) > input.size * ByteBits
  BY DEF FileSettled
<1> DEFINE w == Window * ByteBits
           top == input.size * ByteBits
           f == First(b)
           e == End(b)
<1>1. AllSettled(decoded, m) /\ ~(f < m)
  BY DEF AllInv, AllSettled
<1>2. WellFormed(input) /\ input.size \in Nat /\ m \in Nat
  <2>1. WellFormed(input) /\ input.size \in Nat
    BY InputType DEF AllInv, RestInv, OrderInv
  <2> QED BY <2>1, BlocksType DEF CarriedFrom, Leads
<1>3. f \in Nat /\ e \in Nat /\ f + w <= e
  BY <1>2, BlocksOrder DEF WellFormed, Blocks, First, End
<1>4. w \in Nat /\ top \in Nat /\ m + w > top
  BY <1>2, Widths, Products
<1> HIDE DEF w, top, f, e
<1>5. e > top
  BY <1>1, <1>2, <1>3, <1>4
<1> QED BY <1>5 DEF e, top

LEMMA RejectSettles ==
  ASSUME AllInv, Roomy, Reject
  PROVE  FileSettled(decoded)
<1>1. pc = "loop" /\ \E data \in Slots : NoSplit \in Splits(data)
  BY DEF Reject
<1>2. IsLast
  BY RestReject DEF AllInv, Reject
<1>3. PICK data \in Slots : NoSplit \in Splits(data)
  BY <1>1
<1> DEFINE buf == Marked(data)
           q == pos + ReadLen
           last == IsLast
<1>4. SplitChunk(buf, n, last) = NoSplit /\ last
  BY <1>2, <1>3 DEF Splits
<1>5. PICK a : \E m : CarriedFrom(a, m)
  BY <1>1 DEF AllInv, RestInv, RestKept
<1>6. PICK m : CarriedFrom(a, m)
  BY <1>5
<1>7. /\ a \in Nat /\ q \in Nat /\ a < q /\ q = input.size
      /\ Leads(m, a) /\ WellFormed(input) /\ IsStretch(a, q, buf)
  BY <1>1, <1>2, <1>6, SlotRead DEF AllInv
<1>8. TypeOK /\ n \in Nat \ {0} /\ last \in BOOLEAN
  BY InputType, ReadLenType DEF AllInv, RestInv, OrderInv
<1>9. BufferType(buf)
  BY <1>7 DEF IsStretch
<1> HIDE DEF buf, q, last
<1>10. FindNextBlock(buf, 0) = None
  BY <1>4, <1>8, <1>9, IsCut
<1>11. ~(m + Window * ByteBits <= q * ByteBits)
  <2>1. a <= q
    BY <1>7
  <2>2. m \in Nat /\ a * ByteBits \in Nat /\ a * ByteBits <= m
    BY <1>7, BlocksType, Widths, Products DEF Leads
  <2>3. m - a * ByteBits # None
    <3> DEFINE aB == a * ByteBits
    <3>1. aB \in Nat /\ aB <= m
      BY <2>2
    <3> HIDE DEF aB
    <3>2. m - aB # None
      BY <2>2, <3>1 DEF None
    <3> QED BY <3>2 DEF aB
  <2> QED BY <1>7, <1>10, <2>1, <2>3, FirstFound
<1>12. m + Window * ByteBits > input.size * ByteBits
  <2> DEFINE w == Window * ByteBits
             qB == q * ByteBits
  <2>1. w \in Nat /\ qB \in Nat /\ m \in Nat /\ ~(m + w <= qB)
    BY <1>7, <1>11, BlocksType, Widths, Products DEF Leads
  <2> HIDE DEF w, qB
  <2>2. m + w > qB
    BY <2>1
  <2> QED BY <1>7, <2>2 DEF w, qB
<1> QED BY <1>1, <1>6, <1>12, NoneBehind

LEMMA EndSettles ==
  ASSUME AllInv, Roomy, NothingLeft
  PROVE  FileSettled(decoded)
<1>1. pc = "loop" /\ ReadLen = 0 /\ Len(carry) <= HeaderSize
  BY DEF NothingLeft, Empty
<1>2. PICK a : \E m : CarriedFrom(a, m)
  BY <1>1 DEF AllInv, RestInv, RestKept
<1>3. PICK m : CarriedFrom(a, m)
  BY <1>2
<1> DEFINE data == carry \o Bytes(pos, pos + ReadLen)
           p == input.size
<1>4. /\ TypeOK /\ WellFormed(input) /\ pos \in Nat /\ ChunkSize \in Nat \ {0}
      /\ HeaderSize \in Nat /\ HeaderSize < Window /\ Window \in Nat
  BY InputType, CarryAssumption, Widths DEF AllInv, RestInv, OrderInv
<1>5. IsLast
  BY <1>1, <1>4 DEF IsLast
<1>6. pos + ReadLen = p /\ p = pos
  <2>1. data \in Slots
    BY DEF Slots
  <2> HIDE DEF data
  <2>2. pos + ReadLen = p
    BY <1>1, <1>3, <1>5, <2>1, SlotRead DEF AllInv
  <2> QED BY <1>1, <1>4, <2>2
<1>7. a \in Nat /\ a < p /\ Len(carry) = p - a /\ Leads(m, a)
  <2>1. a \in Nat /\ a < pos /\ carry = Bytes(a, pos) /\ Leads(m, a)
    BY <1>3 DEF CarriedFrom
  <2>2. a <= pos
    BY <1>4, <2>1
  <2>3. Len(Bytes(a, pos)) = pos - a
    BY <1>4, <2>1, <2>2, StretchOfBytes
  <2> QED BY <1>6, <2>1, <2>3
<1>8. m \in Nat /\ a * ByteBits <= m
  BY <1>4, <1>7, BlocksType DEF Leads
<1>9. m + Window * ByteBits > p * ByteBits
  <2> DEFINE v == p - a
             vB == v * ByteBits
             w == Window * ByteBits
             aB == a * ByteBits
             pB == p * ByteBits
  <2>1. v \in Nat /\ v + 1 <= Window
    <3> DEFINE l == Len(carry)
    <3>1. l = v /\ l <= HeaderSize /\ v \in Nat
      BY <1>1, <1>4, <1>6, <1>7
    <3> HIDE DEF l, v
    <3> QED BY <1>4, <3>1
  <2>2. aB \in Nat /\ pB \in Nat /\ vB = pB - aB /\ vB \in Nat
    <3>1. a <= p /\ p \in Nat
      BY <1>4, <1>6, <1>7
    <3> QED BY <1>7, <3>1, StretchBits
  <2> HIDE DEF v
  <2>3. vB + ByteBits <= w
    <3> DEFINE y == v + 1
    <3>1. ByteBits * y <= ByteBits * Window
      BY <1>4, <2>1, Widths, MulMono
    <3>2. ByteBits * y = y * ByteBits /\ ByteBits * Window = w
      BY <1>4, <2>1, Widths, Products
    <3>3. (v + 1 + 0) * ByteBits = vB + 1 * ByteBits + 0 * ByteBits
          /\ 1 * ByteBits = ByteBits /\ 0 * ByteBits = 0
      BY <2>1, Widths, Distributes
    <3>4. v + 1 + 0 = y /\ vB + ByteBits + 0 = vB + ByteBits
      BY <2>1, <2>2, Widths
    <3> QED BY <3>1, <3>2, <3>3, <3>4
  <2>4. w \in Nat
    BY Widths
  <2> HIDE DEF vB, w, aB, pB
  <2>5. aB <= m
    BY <1>8 DEF aB
  <2>6. m + w > pB
    BY <1>8, <2>2, <2>3, <2>4, <2>5, Widths
  <2> QED BY <2>6 DEF w, pB
<1> QED BY <1>1, <1>3, <1>9, NoneBehind

LEMMA SettledStays ==
  ASSUME input' = input, n' = n
  PROVE  /\ Blocks' = Blocks /\ Harm' = Harm /\ Magics(input)' = Magics(input)
         /\ \A b : First(b)' = First(b) /\ End(b)' = End(b)
         /\ \A m : Hole(m)' = Hole(m) /\ (Starts(m)' <=> Starts(m))
<1>1. Blocks' = Blocks /\ \A b : First(b)' = First(b) /\ End(b)' = End(b)
  BY DEF Blocks, First, End
<1>2. Harm' = Harm
  BY DEF Harm, First
<1>3. \A m : Hole(m)' = Hole(m)
  BY DEF Hole, Blocks, First, End
<1>4. \A m : Starts(m)' <=> Starts(m)
  BY DEF Starts, Blocks, First
<1>5. Magics(input)' = Magics(input)
  BY DEF Magics
<1> QED BY <1>1, <1>2, <1>3, <1>4, <1>5

LEMMA AllAccept ==
  ASSUME AllInv, Accept
  PROVE  AllInv'
<1>1. PICK data \in Slots : \E split \in Splits(data) \ {NoSplit} :
        /\ decoded' = decoded \o DecodeAll(data, split)
        /\ carry' = SubSeq(data, split.consumed + 1, Len(data))
  BY DEF Accept
<1>2. PICK split \in Splits(data) \ {NoSplit} :
        /\ decoded' = decoded \o DecodeAll(data, split)
        /\ carry' = SubSeq(data, split.consumed + 1, Len(data))
  BY <1>1
<1>3. /\ pc = "loop" /\ input' = input /\ n' = n
      /\ pos' = pos + ReadLen /\ pc' = IF IsLast THEN "done" ELSE "loop"
  BY DEF Accept
<1>4. RestInv'
  BY RestAccept DEF AllInv
<1>5. (Roomy' <=> Roomy) /\ Blocks' = Blocks /\ Harm' = Harm /\ Magics(input)' = Magics(input)
      /\ (\A b : First(b)' = First(b) /\ End(b)' = End(b))
      /\ \A m : Hole(m)' = Hole(m) /\ (Starts(m)' <=> Starts(m))
  BY <1>3, RoomyStays, SettledStays
<1>6. ASSUME Roomy PROVE Settles(decoded', carry', pos')
  BY <1>2, <1>3, <1>6, AcceptSettles
<1>7. AllDecoded'
  <2> SUFFICES ASSUME Roomy', pc' = "done", NEW b \in Blocks', b \notin ToSet(decoded'),
                      ~(End(b)' > input'.size * ByteBits)
               PROVE  \E m \in Harm' : b \in Hole(m)'
    BY DEF AllDecoded
  <2>1. Settled(decoded', b) \/ End(b) > input.size * ByteBits
    BY <1>3, <1>5, <1>6 DEF Settles
  <2> QED BY <1>3, <1>5, <2>1 DEF Settled
<1>8. ASSUME Roomy', pc' = "loop", NEW a, NEW m, CarriedFrom(a, m)'
      PROVE  Starts(m)' /\ AllSettled(decoded, m)'
  <2>1. a \in Nat /\ a < pos' /\ carry' = Bytes(a, pos') /\ Leads(m, a)
    BY <1>5, <1>8 DEF CarriedFrom, Leads
  <2>2. ~ IsLast
    BY <1>3, <1>8
  <2>3. Starts(m) /\ AllSettled(decoded', m)
    BY <1>5, <1>6, <1>8, <2>1, <2>2 DEF Settles
  <2> QED BY <1>5, <2>3 DEF AllSettled, Settled
<1> QED BY <1>4, <1>7, <1>8 DEF AllInv

LEMMA AllStep ==
  ASSUME AllInv, [Next]_vars
  PROVE  AllInv'
<1>1. CASE Accept
  BY <1>1, AllAccept
<1>2. RestInv'
  BY RestStep DEF AllInv
<1>3. input' = input /\ n' = n
  BY DEF Next, NothingLeft, CarryOverflow, Reject, Accept, Stopped, vars
<1>4. (Roomy' <=> Roomy) /\ Blocks' = Blocks /\ Harm' = Harm /\ Magics(input)' = Magics(input)
      /\ (\A b : First(b)' = First(b) /\ End(b)' = End(b))
      /\ \A m : Hole(m)' = Hole(m) /\ (Starts(m)' <=> Starts(m))
  BY <1>3, RoomyStays, SettledStays
<1>5. CASE NothingLeft \/ Reject
  <2>1. ASSUME Roomy PROVE pc' = "done" /\ decoded' = decoded /\ FileSettled(decoded)
    BY <1>5, <2>1, RestReject, RejectSettles, EndSettles DEF AllInv, NothingLeft, Reject
  <2>2. AllDecoded'
    <3> SUFFICES ASSUME Roomy', NEW b \in Blocks', b \notin ToSet(decoded'),
                        ~(End(b)' > input'.size * ByteBits)
                 PROVE  \E m \in Harm' : b \in Hole(m)'
      BY DEF AllDecoded
    <3>1. Settled(decoded', b) \/ End(b) > input.size * ByteBits
      BY <1>4, <2>1 DEF FileSettled
    <3> QED BY <1>3, <1>4, <3>1 DEF Settled
  <2>3. Roomy' => pc' # "loop"
    BY <1>4, <2>1
  <2> QED BY <1>2, <2>2, <2>3 DEF AllInv
<1>6. CASE CarryOverflow
  <2>1. pc' = "panicked"
    BY <1>6 DEF CarryOverflow
  <2> QED BY <1>2, <2>1 DEF AllInv, AllDecoded
<1>7. CASE UNCHANGED vars
  <2>1. UNCHANGED <<input, n, carry, pos, decoded, pc>>
    BY <1>7 DEF vars
  <2>2. AllDecoded'
    BY <1>4, <2>1 DEF AllInv, AllDecoded
  <2>3. ASSUME Roomy', pc' = "loop", NEW a, NEW m, CarriedFrom(a, m)'
        PROVE  Starts(m)' /\ AllSettled(decoded, m)'
    <3>1. CarriedFrom(a, m)
      BY <1>4, <2>1, <2>3, RoomyStays DEF CarriedFrom, Leads
    <3>2. Starts(m) /\ AllSettled(decoded, m)
      BY <1>4, <2>1, <2>3, <3>1 DEF AllInv
    <3> QED BY <1>4, <2>1, <3>2 DEF AllSettled, Settled
  <2> QED BY <1>2, <2>2, <2>3 DEF AllInv
<1> QED BY <1>1, <1>5, <1>6, <1>7 DEF Next, Stopped

\* When the program ends, every block the file holds as a whole is decoded, but
\* those at most a part of a slot behind the start of a block that fails or
\* behind a false magic that passes for one.  For every file, number of workers,
\* chunk and headroom with room enough (Roomy).
THEOREM NothingElseIsMissing == Spec => []AllDecoded
<1>1. AllInv => AllDecoded
  BY DEF AllInv
<1> QED BY <1>1, AllInit, AllStep, PTL DEF Spec

=============================================================================
