----------------------------- MODULE ScanLemmas -----------------------------
(***************************************************************************)
(* What scanning and decoding find, for every width of the format and      *)
(* every file: the strides of the window, the scan for all magics, its     *)
(* parallel parts, and buffers that hold a stretch of a file.              *)
(***************************************************************************)
EXTENDS FileBuffer, DataLemmas

BufferType(buf) ==
  /\ buf.bytes \in Nat /\ TotalBits(buf) \in Nat
  /\ buf.marks \in SUBSET Nat

\* The widths as numbers.
LEMMA Widths ==
  /\ ByteBits \in Nat \ {0} /\ MagicBits \in Nat \ {0} /\ VerifyBits \in Nat \ {0}
  /\ Window \in Nat \ {0} /\ Stride \in Nat \ {0}
  /\ Stride * ByteBits \in Nat \ {0} /\ Window * ByteBits \in Nat \ {0}
  /\ Window * ByteBits = MagicBits + Stride * ByteBits
<1>1. /\ ByteBits \in Nat \ {0} /\ MagicBits \in Nat \ {0} /\ VerifyBits \in Nat \ {0}
      /\ Window \in Nat \ {0} /\ Stride \in Nat \ {0}
      /\ Window * ByteBits = MagicBits + Stride * ByteBits
  BY ScanAssumption
<1>2. Stride * ByteBits \in Nat \ {0} /\ Window * ByteBits \in Nat \ {0}
  BY <1>1
<1> QED BY <1>1, <1>2

\* A magic is a number of whole bytes.
LEMMA MagicIsBytes == ByteBits <= MagicBits
<1>1. ByteBits * (Window - Stride) = MagicBits
  BY Widths
<1>2. Window - Stride >= 1
  <2>1. CASE Window - Stride <= 0
    <3>1. ByteBits * (Stride - Window) \in Nat
      BY <2>1, Widths
    <3>2. ByteBits * (Window - Stride) = - (ByteBits * (Stride - Window))
      BY Widths
    <3> QED BY <1>1, <3>1, <3>2, Widths
  <2> QED BY <2>1, Widths
<1>3. ByteBits * 1 <= ByteBits * (Window - Stride)
  BY <1>2, Widths, MulMono
<1> QED BY <1>1, <1>3, Widths

\* The magics a search from start can see.
Sees(buf, start, m) ==
  LET base == (start \div ByteBits) * ByteBits IN
  base \div ByteBits + Stride * ((m - base) \div (Stride * ByteBits)) + Window <= buf.bytes

\* The window at the last stride that is not behind a magic: where it ends.
LEMMA LastStride ==
  ASSUME NEW base \in Nat, NEW m \in Nat, base <= m
  PROVE  LET k == (m - base) \div (Stride * ByteBits) IN
         /\ k \in Nat
         /\ base + Stride * ByteBits * k <= m
         /\ m < base + Stride * ByteBits * k + Stride * ByteBits
<1> DEFINE d == Stride * ByteBits
           x == m - base
<1>1. d \in Nat \ {0} /\ x \in Nat /\ m = base + x
  BY Widths
<1> HIDE DEF d, x
<1>2. x \div d \in Nat /\ d * (x \div d) \in Nat /\ d * (x \div d) <= x /\ x < d * (x \div d) + d
  BY <1>1, Division
<1>3. /\ x \div d \in Nat
      /\ base + d * (x \div d) <= m
      /\ m < base + d * (x \div d) + d
  BY <1>1, <1>2
<1> QED BY <1>3 DEF d, x

\* A window that ends with the buffer or before it sees; so does every search
\* that begins as far before it.
LEMMA SeesBetween ==
  ASSUME NEW buf, BufferType(buf), NEW s \in Nat, NEW m \in Nat, s <= m
  PROVE  /\ Sees(buf, s, m) => m + MagicBits < TotalBits(buf)
         /\ m + Window * ByteBits <= TotalBits(buf) => Sees(buf, s, m)
<1> DEFINE base == (s \div ByteBits) * ByteBits
           k == (m - base) \div (Stride * ByteBits)
           q == s \div ByteBits
<1>0. q \in Nat /\ base = ByteBits * q /\ base \in Nat /\ base <= s
  BY Division, Widths
<1>1. base <= m
  BY <1>0
<1>2. /\ k \in Nat
      /\ base + Stride * ByteBits * k <= m
      /\ m < base + Stride * ByteBits * k + Stride * ByteBits
  BY <1>0, <1>1, LastStride
<1>3. base \div ByteBits = q
  BY <1>0, DivUnique, Widths
<1>4. Sees(buf, s, m) <=> q + Stride * k + Window <= buf.bytes
  BY <1>3 DEF Sees
<1>5. /\ (q + Stride * k + Window) * ByteBits = base + Stride * ByteBits * k + Window * ByteBits
      /\ q + Stride * k + Window \in Nat
  <2> DEFINE v == Stride * k
  <2>1. Stride \in Nat /\ ByteBits \in Nat /\ Window \in Nat /\ k \in Nat /\ q \in Nat
    BY <1>0, <1>2, Widths
  <2> HIDE DEF k, q
  <2>2. v \in Nat /\ v * ByteBits = Stride * ByteBits * k
    BY <2>1, Products
  <2> HIDE DEF v
  <2>3. (q + v + Window) * ByteBits = q * ByteBits + v * ByteBits + Window * ByteBits
    BY <2>1, <2>2, Distributes
  <2>4. q * ByteBits = base
    BY DEF base, q
  <2>5. q + v + Window \in Nat
    BY <2>1, <2>2
  <2> QED BY <2>2, <2>3, <2>4, <2>5 DEF v
<1> DEFINE w == q + Stride * k + Window
           sb == Stride * ByteBits
           sbk == Stride * ByteBits * k
           wb == Window * ByteBits
<1>6. w \in Nat /\ w * ByteBits = base + sbk + wb /\ sbk \in Nat
  <2>1. Stride * ByteBits * k \in Nat
    BY <1>2, Widths
  <2> QED BY <1>5, <2>1
<1>7. base + sbk <= m /\ m < base + sbk + sb /\ sb \in Nat /\ wb = MagicBits + sb /\ MagicBits \in Nat
  BY <1>2, Widths
<1>8. buf.bytes \in Nat /\ TotalBits(buf) = buf.bytes * ByteBits /\ ByteBits \in Nat \ {0}
  BY Widths DEF BufferType, TotalBits
<1>9. Sees(buf, s, m) <=> w <= buf.bytes
  BY <1>4
<1> HIDE DEF base, k, q, w, sb, sbk, wb
<1>10. w <= buf.bytes <=> w * ByteBits <= TotalBits(buf)
  <2>1. w <= buf.bytes => ByteBits * w <= ByteBits * buf.bytes
    BY <1>6, <1>8, MulMono
  <2>2. buf.bytes + 1 <= w => ByteBits * (buf.bytes + 1) <= ByteBits * w
    BY <1>6, <1>8, MulMono
  <2>3. ByteBits * (buf.bytes + 1) = TotalBits(buf) + ByteBits
    BY <1>8
  <2>4. TotalBits(buf) \in Nat /\ w * ByteBits = ByteBits * w /\ buf.bytes * ByteBits = ByteBits * buf.bytes
        /\ w * ByteBits \in Nat
    BY <1>6, <1>8
  <2> QED BY <1>6, <1>8, <2>1, <2>2, <2>3, <2>4
<1>11. Sees(buf, s, m) => m + MagicBits < TotalBits(buf)
  <2>1. base \in Nat /\ TotalBits(buf) \in Nat
    BY <1>0, <1>8
  <2> QED BY <1>6, <1>7, <1>8, <1>9, <1>10, <2>1
<1>12. m + wb <= TotalBits(buf) => Sees(buf, s, m)
  <2>1. base \in Nat /\ TotalBits(buf) \in Nat
    BY <1>0, <1>8
  <2> QED BY <1>6, <1>7, <1>8, <1>9, <1>10, <2>1
<1> QED BY <1>11, <1>12 DEF wb

\* What is seen beyond a magic is seen with it.
LEMMA SeesEarlier ==
  ASSUME NEW buf, BufferType(buf), NEW s \in Nat, NEW m \in Nat, s <= m, NEW c \in Nat, m <= c,
         Sees(buf, s, c)
  PROVE  Sees(buf, s, m)
<1> DEFINE q == s \div ByteBits
           base == q * ByteBits
           sb == Stride * ByteBits
<1>0. q \in Nat /\ base \in Nat /\ base <= m /\ sb \in Nat \ {0}
  <2>1. q \in Nat /\ ByteBits * q \in Nat /\ ByteBits * q <= s
    BY Division, Widths
  <2>2. ByteBits * q = base
    BY <2>1, Widths
  <2> QED BY <2>1, <2>2, Widths
<1>1. m - base \in Nat /\ c - base \in Nat /\ m - base <= c - base
  BY <1>0
<1>2. (m - base) \div sb <= (c - base) \div sb
  BY <1>0, <1>1, DivMono
<1>3. (m - base) \div sb \in Nat /\ (c - base) \div sb \in Nat
  BY <1>0, <1>1, Division
<1>4. Stride * ((m - base) \div sb) <= Stride * ((c - base) \div sb)
  BY <1>2, <1>3, Widths, MulMono
<1>5. base \div ByteBits + Stride * ((c - base) \div sb) + Window <= buf.bytes
  BY DEF Sees
<1>6. base \div ByteBits \in Nat
  BY <1>0, Widths, Division
<1>7. Stride * ((m - base) \div sb) \in Nat /\ Stride * ((c - base) \div sb) \in Nat
  BY <1>3, Widths
<1>8. base \div ByteBits + Stride * ((m - base) \div sb) + Window <= buf.bytes
  <2> DEFINE u == Stride * ((m - base) \div sb)
             v == Stride * ((c - base) \div sb)
             t == base \div ByteBits
  <2>1. u \in Nat /\ v \in Nat /\ t \in Nat /\ u <= v /\ t + v + Window <= buf.bytes
    BY <1>4, <1>5, <1>6, <1>7
  <2>2. buf.bytes \in Nat /\ Window \in Nat
    BY Widths DEF BufferType
  <2> HIDE DEF u, v, t
  <2>3. t + u + Window <= buf.bytes
    BY <2>1, <2>2
  <2> QED BY <2>3 DEF u, t
<1> QED BY <1>8 DEF Sees

\* A search finds the next magic, or none; none only if what is left is too
\* close to the end.
LEMMA NextBlock ==
  ASSUME NEW buf, BufferType(buf), NEW s \in Nat
  PROVE  LET c == FindNextBlock(buf, s) IN
         \/ /\ c = None
            /\ \A m \in buf.marks : s <= m => m + Window * ByteBits > TotalBits(buf)
         \/ /\ c \in buf.marks /\ s <= c /\ c + MagicBits < TotalBits(buf)
            /\ \A m \in buf.marks : s <= m => c <= m
<1> DEFINE seen == {m \in buf.marks : m >= s /\ Sees(buf, s, m)}
<1>1. FindNextBlock(buf, s) = IF seen = {} THEN None ELSE Min(seen)
  BY DEF FindNextBlock, Sees
<1>2. seen \subseteq Nat /\ \A m \in seen : m \in buf.marks /\ s <= m /\ Sees(buf, s, m)
  BY DEF BufferType
<1>3. \A m \in buf.marks : s <= m /\ Sees(buf, s, m) => m \in seen
  BY DEF BufferType
<1> HIDE DEF seen
<1>4. CASE seen = {}
  <2>1. FindNextBlock(buf, s) = None
    BY <1>1, <1>4
  <2>2. ASSUME NEW m \in buf.marks, s <= m PROVE m + Window * ByteBits > TotalBits(buf)
    <3>1. ~ Sees(buf, s, m)
      BY <1>3, <1>4, <2>2
    <3>2. m \in Nat /\ TotalBits(buf) \in Nat /\ Window * ByteBits \in Nat
      BY Widths DEF BufferType
    <3>3. ~(m + Window * ByteBits <= TotalBits(buf))
      BY <2>2, <3>1, <3>2, SeesBetween
    <3> QED BY <3>2, <3>3
  <2> QED BY <2>1, <2>2
<1>5. CASE seen # {}
  <2> DEFINE c == Min(seen)
  <2>1. c \in seen /\ \A y \in seen : c <= y
    BY <1>2, <1>5, MinOfNats
  <2>2. FindNextBlock(buf, s) = c
    BY <1>1, <1>5
  <2> HIDE DEF c
  <2>3. c \in buf.marks /\ s <= c /\ Sees(buf, s, c) /\ c \in Nat
    BY <1>2, <2>1
  <2>4. c + MagicBits < TotalBits(buf)
    BY <2>3, SeesBetween
  <2>5. ASSUME NEW m \in buf.marks, s <= m, ~(c <= m) PROVE FALSE
    <3>1. m \in Nat /\ m <= c
      BY <2>3, <2>5 DEF BufferType
    <3>2. m \in seen
      BY <1>3, <2>3, <2>5, <3>1, SeesEarlier
    <3> QED BY <2>1, <2>5, <3>2
  <2> QED BY <2>2, <2>3, <2>4, <2>5
<1> QED BY <1>4, <1>5

-----------------------------------------------------------------------------
(* Scans                                                                   *)

\* A scan: next[s] is what a search from s finds, width what the search after
\* it skips; f[s] is everything found from s on.
IsScan(f, next, width) ==
  \A s \in Nat : f[s] = IF next[s] = None THEN {} ELSE {next[s]} \cup f[next[s] + width]
Searches(next, T) ==
  \A s \in Nat : \/ next[s] = None
                 \/ next[s] \in T /\ s <= next[s] /\ \A t \in T : s <= t => next[s] <= t

\* There is a function that scans.
LEMMA ScanExists ==
  ASSUME NEW T \in SUBSET Nat, NEW next, Searches(next, T), NEW width \in Nat
  PROVE  \E f \in [Nat -> SUBSET Nat] : IsScan(f, next, width)
<1> DEFINE V == [Nat -> SUBSET Nat]
           c == [s \in Nat |-> {}]
           E(g, s) == IF next[s] = None THEN {} ELSE {next[s]} \cup g[next[s] + width]
           d == [p \in Nat \X V |-> [s \in Nat |-> E(p[2], s)]]
<1>0. \A s \in Nat : next[s] # None => next[s] \in Nat /\ next[s] + width \in Nat
  <2> SUFFICES ASSUME NEW s \in Nat, next[s] # None PROVE next[s] \in Nat /\ next[s] + width \in Nat
    OBVIOUS
  <2>1. next[s] \in T
    BY DEF Searches
  <2>2. next[s] \in Nat
    BY <2>1
  <2> QED BY <2>2
<1>1. c \in V
  OBVIOUS
<1>2. d \in [Nat \X V -> V]
  <2>1. ASSUME NEW p \in Nat \X V PROVE [s \in Nat |-> E(p[2], s)] \in V
    <3>1. p[2] \in V
      BY <2>1
    <3> DEFINE g == p[2]
    <3> HIDE DEF g
    <3>2. ASSUME NEW s \in Nat PROVE E(g, s) \in SUBSET Nat
      <4>1. g \in V
        BY <3>1 DEF g
      <4> QED BY <1>0, <4>1
    <3> HIDE DEF E
    <3>3. [s \in Nat |-> E(g, s)] \in V
      BY <3>2
    <3> QED BY <3>3 DEF g
  <2> HIDE DEF V, E
  <2> QED BY <2>1
<1>3. PICK h \in [Nat -> V] : Follows(h, c, d)
  <2> HIDE DEF V, c, d
  <2> QED BY <1>1, <1>2, Recursion
<1>4. h[0] = c /\ \A k \in Nat : h[k + 1] = [s \in Nat |-> E(h[k], s)]
  <2>1. h[0] = c /\ \A k \in Nat : h[k + 1] = d[<<k, h[k]>>]
    BY <1>3 DEF Follows
  <2>2. \A k \in Nat : h[k] \in V
    BY <1>3
  <2> HIDE DEF V, c, E
  <2>3. ASSUME NEW k \in Nat PROVE d[<<k, h[k]>>] = [s \in Nat |-> E(h[k], s)]
    <3>1. <<k, h[k]>> \in Nat \X V
      BY <2>2
    <3> QED BY <3>1
  <2> QED BY <2>1, <2>3
<1>5. \A k \in Nat : \A s \in Nat : h[k + 1][s] = E(h[k], s) /\ h[k][s] \in SUBSET Nat
  <2> HIDE DEF E, V
  <2>1. ASSUME NEW k \in Nat, NEW s \in Nat PROVE h[k + 1][s] = E(h[k], s) /\ h[k][s] \in SUBSET Nat
    <3>1. h[k + 1] = [r \in Nat |-> E(h[k], r)]
      BY <1>4
    <3>2. h[k] \in V
      BY <1>3
    <3> QED BY <3>1, <3>2 DEF V
  <2> QED BY <2>1
<1>6. \A s \in Nat : h[0][s] = {}
  BY <1>4
<1> DEFINE f == [s \in Nat |-> {x \in Nat : \E k \in Nat : x \in h[k][s]}]
<1>7. \A s \in Nat : \A x : x \in f[s] <=> \E k \in Nat : x \in h[k][s]
  BY <1>5
<1>8. f \in V
  OBVIOUS
<1> HIDE DEF f, c, d, V
<1>9. ASSUME NEW s \in Nat PROVE f[s] = E(f, s)
  <2>1. ASSUME NEW x, x \in f[s] PROVE x \in E(f, s)
    <3>1. PICK k \in Nat : x \in h[k][s]
      BY <1>7, <2>1
    <3>2. k # 0 /\ k - 1 \in Nat /\ (k - 1) + 1 = k
      BY <1>6, <3>1
    <3>3. h[k][s] = E(h[k - 1], s)
      BY <1>5, <3>2
    <3>4. next[s] # None /\ (x = next[s] \/ x \in h[k - 1][next[s] + width])
      BY <3>1, <3>3
    <3> QED BY <1>0, <1>7, <3>2, <3>4
  <2>2. ASSUME NEW x, x \in E(f, s) PROVE x \in f[s]
    <3>1. next[s] # None /\ (x = next[s] \/ x \in f[next[s] + width])
      BY <2>2
    <3>2. \E k \in Nat : x \in E(h[k], s)
      <4>1. CASE x = next[s]
        BY <3>1, <4>1
      <4>2. CASE x \in f[next[s] + width]
        <5>1. PICK k \in Nat : x \in h[k][next[s] + width]
          BY <1>0, <1>7, <3>1, <4>2
        <5> QED BY <3>1, <5>1
      <4> QED BY <3>1, <4>1, <4>2
    <3>3. PICK k \in Nat : x \in E(h[k], s)
      BY <3>2
    <3> HIDE DEF E
    <3>4. k + 1 \in Nat /\ x \in h[k + 1][s]
      BY <1>5, <3>3
    <3> QED BY <1>7, <3>4
  <2> HIDE DEF E
  <2> QED BY <2>1, <2>2
<1> QED BY <1>8, <1>9 DEF V, IsScan

\* It finds nothing that is not there.
LEMMA ScanFinds ==
  ASSUME NEW T \in SUBSET Nat, NEW N \in Nat, \A t \in T : t < N,
         NEW next, Searches(next, T), NEW width \in Nat \ {0}, NEW f, IsScan(f, next, width)
  PROVE  \A s \in Nat : f[s] \subseteq {t \in T : s <= t}
<1> DEFINE P(s) == f[s] \subseteq {t \in T : s <= t}
           Good == {k \in Nat : \A s \in Nat : s + k >= N => P(s)}
<1>1. ASSUME NEW s \in Nat, next[s] # None => P(next[s] + width) PROVE P(s)
  <2>1. CASE next[s] = None
    BY <2>1 DEF IsScan
  <2>2. CASE next[s] # None
    <3>1. next[s] \in T /\ s <= next[s] /\ f[s] = {next[s]} \cup f[next[s] + width]
      BY <2>2 DEF IsScan, Searches
    <3>2. \A x \in f[next[s] + width] : x \in T /\ next[s] + width <= x /\ x \in Nat
      BY <1>1, <2>2
    <3>3. next[s] \in Nat
      BY <3>1
    <3>4. \A x \in f[next[s] + width] : x \in T /\ s <= x
      BY <3>1, <3>2, <3>3
    <3> QED BY <3>1, <3>4
  <2> QED BY <2>1, <2>2
<1>2. 0 \in Good
  <2>1. ASSUME NEW s \in Nat, s + 0 >= N PROVE P(s)
    <3>1. ASSUME next[s] # None PROVE FALSE
      <4>1. next[s] \in T /\ s <= next[s]
        BY <3>1 DEF Searches
      <4>2. next[s] \in Nat /\ next[s] < N
        BY <4>1
      <4> QED BY <2>1, <4>1, <4>2
    <3> QED BY <1>1, <3>1
  <2> HIDE DEF P
  <2> QED BY <2>1
<1>3. ASSUME NEW k \in Nat, k \in Good PROVE k + 1 \in Good
  <2>1. ASSUME NEW s \in Nat, s + (k + 1) >= N PROVE P(s)
    <3>1. ASSUME next[s] # None PROVE P(next[s] + width)
      <4>1. next[s] \in Nat /\ s <= next[s]
        BY <3>1 DEF Searches
      <4>2. next[s] + width \in Nat /\ next[s] + width + k >= N
        BY <2>1, <4>1
      <4> HIDE DEF P
      <4> QED BY <1>3, <4>2
    <3> HIDE DEF P
    <3> QED BY <1>1, <3>1
  <2> HIDE DEF P
  <2> QED BY <2>1
<1> HIDE DEF Good
<1>4. N \in Good
  BY <1>2, <1>3, Inductive
<1>5. \A s \in Nat : P(s)
  <2> HIDE DEF P
  <2>1. \A s \in Nat : s + N >= N => P(s)
    BY <1>4 DEF Good
  <2> QED BY <2>1
<1> QED BY <1>5

Apart(T, width) == \A t, u \in T : t < u => t + width <= u

\* Of things that do not overlap it misses only what lies behind all that it
\* finds and behind the place where the last search began.
LEMMA ScanMisses ==
  ASSUME NEW T \in SUBSET Nat, NEW N \in Nat, \A t \in T : t < N,
         NEW next, Searches(next, T), NEW width \in Nat \ {0}, NEW f, IsScan(f, next, width),
         Apart(T, width)
  PROVE  \A s \in Nat : \A t \in T : s <= t /\ t \notin f[s] =>
           /\ \A x \in f[s] : x < t
           /\ \E r \in Nat : s <= r /\ r <= t /\ next[r] = None
<1> DEFINE Q(s, t) == s <= t /\ t \notin f[s] =>
                        /\ \A x \in f[s] : x < t
                        /\ \E r \in Nat : s <= r /\ r <= t /\ next[r] = None
           P(s) == \A t \in T : Q(s, t)
           Good == {k \in Nat : \A s \in Nat : s + k >= N => P(s)}
<1>1. ASSUME NEW s \in Nat, next[s] # None => P(next[s] + width) PROVE P(s)
  <2> SUFFICES ASSUME NEW t \in T, s <= t, t \notin f[s]
               PROVE  /\ \A x \in f[s] : x < t
                      /\ \E r \in Nat : s <= r /\ r <= t /\ next[r] = None
    OBVIOUS
  <2>1. CASE next[s] = None
    <3>1. f[s] = {}
      BY <2>1 DEF IsScan
    <3>2. s <= s
      OBVIOUS
    <3> QED BY <2>1, <3>1, <3>2
  <2>2. CASE next[s] # None
    <3> DEFINE c == next[s]
    <3>1. c \in T /\ s <= c /\ c <= t /\ f[s] = {c} \cup f[c + width]
      BY <2>2 DEF IsScan, Searches
    <3>2. c # t /\ t \notin f[c + width] /\ c \in Nat /\ t \in Nat
      BY <3>1
    <3> HIDE DEF c
    <3>3. c < t /\ c + width <= t
      BY <3>1, <3>2 DEF Apart
    <3>4. Q(c + width, t)
      BY <1>1, <2>2 DEF c
    <3>5. \A x \in f[c + width] : x < t
      BY <3>2, <3>3, <3>4
    <3>6. PICK r \in Nat : c + width <= r /\ r <= t /\ next[r] = None
      BY <3>2, <3>3, <3>4
    <3>7. s <= r
      BY <3>1, <3>2, <3>6
    <3> QED BY <3>1, <3>3, <3>5, <3>6, <3>7
  <2> QED BY <2>1, <2>2
<1>2. 0 \in Good
  <2>1. ASSUME NEW s \in Nat, s + 0 >= N PROVE P(s)
    <3>1. ASSUME next[s] # None PROVE FALSE
      <4>1. next[s] \in T /\ s <= next[s]
        BY <3>1 DEF Searches
      <4>2. next[s] \in Nat /\ next[s] < N
        BY <4>1
      <4> QED BY <2>1, <4>1, <4>2
    <3> QED BY <1>1, <3>1
  <2> HIDE DEF P
  <2> QED BY <2>1
<1>3. ASSUME NEW k \in Nat, k \in Good PROVE k + 1 \in Good
  <2>1. ASSUME NEW s \in Nat, s + (k + 1) >= N PROVE P(s)
    <3>1. ASSUME next[s] # None PROVE P(next[s] + width)
      <4>1. next[s] \in Nat /\ s <= next[s]
        BY <3>1 DEF Searches
      <4>2. next[s] + width \in Nat /\ next[s] + width + k >= N
        BY <2>1, <4>1
      <4> HIDE DEF P
      <4> QED BY <1>3, <4>2
    <3> HIDE DEF P
    <3> QED BY <1>1, <3>1
  <2> HIDE DEF P
  <2> QED BY <2>1
<1> HIDE DEF Good
<1>4. N \in Good
  BY <1>2, <1>3, Inductive
<1>5. \A s \in Nat : P(s)
  <2> HIDE DEF P
  <2>1. \A s \in Nat : s + N >= N => P(s)
    BY <1>4 DEF Good
  <2> QED BY <2>1
<1> QED BY <1>5

\* Overlapping or not, everything in front of the place where the last search
\* began is covered by something it found.
LEMMA ScanCovers ==
  ASSUME NEW T \in SUBSET Nat, NEW N \in Nat, \A t \in T : t < N,
         NEW next, Searches(next, T), NEW width \in Nat \ {0}, NEW f, IsScan(f, next, width)
  PROVE  \A s \in Nat : \A t \in T : s <= t =>
           \/ \E x \in f[s] : x <= t /\ t < x + width
           \/ \E r \in Nat : r <= t /\ next[r] = None
<1> DEFINE Q(s, t) == s <= t =>
                        \/ \E x \in f[s] : x <= t /\ t < x + width
                        \/ \E r \in Nat : r <= t /\ next[r] = None
           P(s) == \A t \in T : Q(s, t)
           Good == {k \in Nat : \A s \in Nat : s + k >= N => P(s)}
<1>1. ASSUME NEW s \in Nat, next[s] # None => P(next[s] + width) PROVE P(s)
  <2> SUFFICES ASSUME NEW t \in T, s <= t PROVE Q(s, t)
    OBVIOUS
  <2>1. CASE next[s] = None
    BY <2>1
  <2>2. CASE next[s] # None
    <3> DEFINE c == next[s]
    <3>1. c \in T /\ c <= t /\ f[s] = {c} \cup f[c + width]
      BY <2>2 DEF IsScan, Searches
    <3>2. c \in Nat /\ t \in Nat
      BY <3>1
    <3>3. Q(c + width, t)
      BY <1>1, <2>2
    <3> HIDE DEF c
    <3>4. CASE t < c + width
      BY <3>1, <3>4
    <3>5. CASE c + width <= t
      BY <3>1, <3>3, <3>5
    <3> QED BY <3>2, <3>4, <3>5
  <2> QED BY <2>1, <2>2
<1>2. 0 \in Good
  <2>1. ASSUME NEW s \in Nat, s + 0 >= N PROVE P(s)
    <3>1. ASSUME next[s] # None PROVE FALSE
      <4>1. next[s] \in T /\ s <= next[s]
        BY <3>1 DEF Searches
      <4>2. next[s] \in Nat /\ next[s] < N
        BY <4>1
      <4> QED BY <2>1, <4>1, <4>2
    <3> QED BY <1>1, <3>1
  <2> HIDE DEF P
  <2> QED BY <2>1
<1>3. ASSUME NEW k \in Nat, k \in Good PROVE k + 1 \in Good
  <2>1. ASSUME NEW s \in Nat, s + (k + 1) >= N PROVE P(s)
    <3>1. ASSUME next[s] # None PROVE P(next[s] + width)
      <4>1. next[s] \in Nat /\ s <= next[s]
        BY <3>1 DEF Searches
      <4>2. next[s] + width \in Nat /\ next[s] + width + k >= N
        BY <2>1, <4>1
      <4> HIDE DEF P
      <4> QED BY <1>3, <4>2
    <3> HIDE DEF P
    <3> QED BY <1>1, <3>1
  <2> HIDE DEF P
  <2> QED BY <2>1
<1> HIDE DEF Good
<1>4. N \in Good
  BY <1>2, <1>3, Inductive
<1>5. \A s \in Nat : P(s)
  <2> HIDE DEF P
  <2>1. \A s \in Nat : s + N >= N => P(s)
    BY <1>4 DEF Good
  <2> QED BY <2>1
<1> QED BY <1>5

-----------------------------------------------------------------------------
(* The search for a verified boundary                                      *)

TooClose(buf, m) == m + MagicBits + VerifyBits > TotalBits(buf)

\* f[s] is the first verified candidate from s on, unless one too close to the
\* end comes first.
IsSearch(f, next, sound) ==
  f = [s \in Nat |-> IF next[s] = None THEN None
                     ELSE IF next[s] \in sound THEN next[s] ELSE f[next[s] + 1]]

\* There is a function that searches: it picks the least of what a scan finds.
LEMMA SearchExists ==
  ASSUME NEW T \in SUBSET Nat, NEW N \in Nat, \A t \in T : t < N,
         NEW next, Searches(next, T), NEW sound
  PROVE  \E f : IsSearch(f, next, sound)
<1>1. PICK g \in [Nat -> SUBSET Nat] : IsScan(g, next, 1)
  BY ScanExists
<1>2. \A s \in Nat : g[s] \subseteq {t \in T : s <= t}
  <2>1. 1 \in Nat \ {0}
    OBVIOUS
  <2> QED BY <1>1, <2>1, ScanFinds
<1> DEFINE hits(s) == g[s] \cap sound
           e(s) == IF hits(s) = {} THEN None ELSE Min(hits(s))
           f == [s \in Nat |-> e(s)]
           r(s) == IF next[s] = None THEN None
                   ELSE IF next[s] \in sound THEN next[s] ELSE f[next[s] + 1]
<1>3. ASSUME NEW s \in Nat PROVE e(s) = r(s)
  <2>1. g[s] = IF next[s] = None THEN {} ELSE {next[s]} \cup g[next[s] + 1]
    BY <1>1 DEF IsScan
  <2>2. CASE next[s] = None
    BY <2>1, <2>2
  <2>3. CASE next[s] # None
    <3> DEFINE c == next[s]
    <3>1. c \in T /\ c \in Nat /\ c + 1 \in Nat
      <4>1. c \in T
        BY <2>3 DEF Searches
      <4>2. c \in Nat
        BY <4>1
      <4> QED BY <4>1, <4>2
    <3> HIDE DEF c
    <3>2. g[s] = {c} \cup g[c + 1] /\ next[s] = c /\ c # None
      BY <2>1, <2>3 DEF c
    <3>3. \A x \in g[c + 1] : x \in Nat /\ c < x
      <4> SUFFICES ASSUME NEW x \in g[c + 1] PROVE x \in Nat /\ c < x
        OBVIOUS
      <4>1. x \in T /\ c + 1 <= x
        BY <1>2, <3>1
      <4>2. x \in Nat
        BY <4>1
      <4> QED BY <3>1, <4>1, <4>2
    <3>4. CASE c \in sound
      <4>1. c \in hits(s) /\ \A y \in hits(s) : y \in Nat /\ c <= y
        BY <3>1, <3>2, <3>3, <3>4
      <4> DEFINE h == hits(s)
      <4>2. h \in SUBSET Nat /\ h # {}
        BY <4>1
      <4> HIDE DEF h
      <4>3. Min(h) \in h /\ \A y \in h : Min(h) <= y
        BY <4>2, MinOfNats
      <4>4. Min(h) = c
        <5>1. Min(h) <= c /\ c <= Min(h) /\ Min(h) \in Nat
          BY <4>1, <4>3 DEF h
        <5> QED BY <3>1, <5>1
      <4>5. e(s) = c
        BY <4>2, <4>4 DEF h
      <4> QED BY <3>2, <3>4, <4>5
    <3>5. CASE c \notin sound
      <4>1. hits(s) = hits(c + 1)
        BY <3>2, <3>5
      <4>2. e(s) = e(c + 1) /\ f[c + 1] = e(c + 1)
        BY <3>1, <4>1
      <4> QED BY <3>2, <3>5, <4>2
    <3> QED BY <3>4, <3>5
  <2> QED BY <2>2, <2>3
<1>4. f = [s \in Nat |-> r(s)]
  <2> HIDE DEF e, r
  <2> QED BY <1>3
<1>5. IsSearch(f, next, sound)
  BY <1>4, Zenon DEF IsSearch
<1> QED BY <1>5

\* What the search is good for: it misses a verified magic only behind a
\* candidate that is too close to the end, or behind the last stride.
LEMMA FindQuick ==
  ASSUME NEW buf, BufferType(buf), NEW start \in Nat
  PROVE  LET c == FindQuickBoundary(buf, start) IN
         \/ /\ c = None
            /\ \A m \in buf.marks \cap buf.sound :
                 start <= m => TooClose(buf, m) \/ m + Window * ByteBits > TotalBits(buf)
         \/ /\ c \in buf.marks \cap buf.sound /\ start <= c /\ ~ TooClose(buf, c)
            /\ \A m \in buf.marks \cap buf.sound : start <= m => c <= m
<1> DEFINE Eq(v) == v = [s \in Nat |-> LET c == FindNextBlock(buf, s) IN
                           IF c = None \/ c + MagicBits + VerifyBits > TotalBits(buf) THEN None
                           ELSE IF c \in buf.sound THEN c ELSE v[c + 1]]
           T == {m \in buf.marks : ~ TooClose(buf, m)}
           next == [s \in Nat |-> LET c == FindNextBlock(buf, s) IN
                      IF c = None \/ TooClose(buf, c) THEN None ELSE c]
           N == TotalBits(buf)
           f == CHOOSE v : Eq(v)
<1>1. FindQuickBoundary(buf, start) = f[start]
  BY DEF FindQuickBoundary
<1>2. T \in SUBSET Nat /\ N \in Nat /\ MagicBits \in Nat \ {0} /\ VerifyBits \in Nat \ {0}
      /\ Window * ByteBits \in Nat /\ buf.marks \subseteq Nat
  BY Widths DEF BufferType
<1>3. \A t \in T : t < N
  <2> SUFFICES ASSUME NEW t \in T PROVE t < N
    OBVIOUS
  <2>1. t \in Nat /\ ~(t + MagicBits + VerifyBits > N)
    BY <1>2 DEF TooClose
  <2> HIDE DEF N
  <2> QED BY <1>2, <2>1
<1>4. \A s \in Nat : LET c == FindNextBlock(buf, s) IN
        \/ /\ c = None
           /\ \A m \in buf.marks : s <= m => m + Window * ByteBits > N
        \/ /\ c \in buf.marks /\ s <= c
           /\ \A m \in buf.marks : s <= m => c <= m
  BY NextBlock
<1>5. Searches(next, T)
  <2> SUFFICES ASSUME NEW s \in Nat
               PROVE  \/ next[s] = None
                      \/ next[s] \in T /\ s <= next[s] /\ \A t \in T : s <= t => next[s] <= t
    BY DEF Searches
  <2> DEFINE c == FindNextBlock(buf, s)
  <2>1. next[s] = IF c = None \/ TooClose(buf, c) THEN None ELSE c
    OBVIOUS
  <2> HIDE DEF next
  <2> QED BY <1>4, <2>1
<1>6. \A v : Eq(v) <=> IsSearch(v, next, buf.sound)
  <2> DEFINE c(s) == FindNextBlock(buf, s)
             a(v, s) == IF c(s) = None \/ TooClose(buf, c(s)) THEN None
                        ELSE IF c(s) \in buf.sound THEN c(s) ELSE v[c(s) + 1]
             b(v, s) == IF next[s] = None THEN None
                        ELSE IF next[s] \in buf.sound THEN next[s] ELSE v[next[s] + 1]
  <2>1. ASSUME NEW v, NEW s \in Nat PROVE a(v, s) = b(v, s)
    <3>1. next[s] = IF c(s) = None \/ TooClose(buf, c(s)) THEN None ELSE c(s)
      OBVIOUS
    <3> HIDE DEF c, next
    <3> QED BY <3>1
  <2>2. \A v : Eq(v) <=> v = [s \in Nat |-> a(v, s)]
    BY Zenon DEF TooClose
  <2>3. \A v : [s \in Nat |-> a(v, s)] = [s \in Nat |-> b(v, s)]
    <3> HIDE DEF a, b
    <3> QED BY <2>1
  <2>4. \A v : IsSearch(v, next, buf.sound) <=> v = [s \in Nat |-> b(v, s)]
    BY Zenon DEF IsSearch
  <2> HIDE DEF a, b, Eq, next
  <2> QED BY <2>2, <2>3, <2>4
<1> HIDE DEF next, N, T
<1>7. \E v : Eq(v)
  <2>1. \E v : IsSearch(v, next, buf.sound)
    BY <1>2, <1>3, <1>5, SearchExists
  <2> HIDE DEF Eq
  <2> QED BY <1>6, <2>1
<1>8. Eq(f)
  <2> HIDE DEF Eq
  <2> QED BY <1>7
<1>9. \A s \in Nat : f[s] = IF next[s] = None THEN None
                             ELSE IF next[s] \in buf.sound THEN next[s] ELSE f[next[s] + 1]
  <2> HIDE DEF Eq, f
  <2>1. f = [s \in Nat |-> IF next[s] = None THEN None
                           ELSE IF next[s] \in buf.sound THEN next[s] ELSE f[next[s] + 1]]
    BY <1>6, <1>8 DEF IsSearch
  <2> HIDE DEF None
  <2> QED BY <2>1
<1> HIDE DEF f, Eq
<1> DEFINE Sound == buf.marks \cap buf.sound
           Far(m) == TooClose(buf, m) \/ m + Window * ByteBits > TotalBits(buf)
           P(s) == \/ f[s] = None /\ \A m \in Sound : s <= m => Far(m)
                   \/ /\ f[s] \in Sound /\ s <= f[s] /\ ~ TooClose(buf, f[s])
                      /\ \A m \in Sound : s <= m => f[s] <= m
           Good == {k \in Nat : \A s \in Nat : s + k >= N => P(s)}
<1>10. ASSUME NEW s \in Nat, next[s] # None => P(next[s] + 1) PROVE P(s)
  <2> DEFINE c == FindNextBlock(buf, s)
  <2>1. next[s] = IF c = None \/ TooClose(buf, c) THEN None ELSE c
    BY DEF next
  <2>2. \/ /\ c = None
           /\ \A m \in buf.marks : s <= m => m + Window * ByteBits > TotalBits(buf)
        \/ /\ c \in buf.marks /\ s <= c
           /\ \A m \in buf.marks : s <= m => c <= m
    BY <1>4 DEF N
  <2> HIDE DEF c
  <2>3. CASE c = None
    <3>1. f[s] = None
      BY <1>9, <2>1, <2>3
    <3>2. c \notin buf.marks
      BY <1>2, <2>3 DEF None
    <3> QED BY <2>2, <3>1, <3>2
  <2>4. CASE c # None /\ TooClose(buf, c)
    <3>1. f[s] = None
      BY <1>9, <2>1, <2>4
    <3>2. ASSUME NEW m \in Sound, s <= m PROVE TooClose(buf, m)
      <4>1. c <= m /\ c \in Nat /\ m \in Nat
        BY <1>2, <2>2, <2>4, <3>2
      <4>2. c + MagicBits + VerifyBits > TotalBits(buf) /\ TotalBits(buf) \in Nat
        BY <1>2, <2>4 DEF TooClose, N
      <4> QED BY <1>2, <4>1, <4>2 DEF TooClose
    <3> QED BY <3>1, <3>2
  <2>5. CASE c # None /\ ~ TooClose(buf, c)
    <3>1. next[s] = c /\ c \in buf.marks /\ s <= c /\ c \in Nat
          /\ \A m \in buf.marks : s <= m => c <= m
      BY <1>2, <2>1, <2>2, <2>5
    <3>2. CASE c \in buf.sound
      <4>1. f[s] = c
        BY <1>9, <2>5, <3>1, <3>2
      <4> QED BY <2>5, <3>1, <3>2, <4>1
    <3>3. CASE c \notin buf.sound
      <4>1. f[s] = f[c + 1] /\ P(c + 1)
        <5>1. f[s] = f[c + 1]
          BY <1>9, <2>5, <3>1, <3>3
        <5> QED BY <1>10, <2>5, <3>1, <5>1
      <4>2. \A m \in Sound : s <= m => c + 1 <= m
        <5> SUFFICES ASSUME NEW m \in Sound, s <= m PROVE c + 1 <= m
          OBVIOUS
        <5>1. m \in Nat /\ c <= m /\ c # m
          BY <1>2, <3>1, <3>3
        <5> QED BY <3>1, <5>1
      <4>3. f[c + 1] \in Sound /\ c + 1 <= f[c + 1] => s <= f[c + 1]
        <5> SUFFICES ASSUME f[c + 1] \in Sound, c + 1 <= f[c + 1] PROVE s <= f[c + 1]
          OBVIOUS
        <5>1. f[c + 1] \in Nat
          BY <1>2
        <5> QED BY <3>1, <5>1
      <4> HIDE DEF Sound, Far
      <4> QED BY <4>1, <4>2, <4>3
    <3> QED BY <3>2, <3>3
  <2> QED BY <2>3, <2>4, <2>5
<1>11. \A s \in Nat : next[s] # None => next[s] \in Nat /\ s <= next[s] /\ next[s] < N
  <2> SUFFICES ASSUME NEW s \in Nat, next[s] # None PROVE next[s] \in Nat /\ s <= next[s] /\ next[s] < N
    OBVIOUS
  <2>1. next[s] \in T /\ s <= next[s]
    BY <1>5 DEF Searches
  <2>2. next[s] \in Nat
    BY <1>2, <2>1
  <2> QED BY <1>3, <2>1, <2>2
<1>12. 0 \in Good
  <2>1. ASSUME NEW s \in Nat, s + 0 >= N PROVE P(s)
    <3>1. next[s] = None
      BY <1>2, <1>11, <2>1
    <3> HIDE DEF P
    <3> QED BY <1>10, <3>1
  <2> HIDE DEF P
  <2> QED BY <2>1
<1>13. ASSUME NEW k \in Nat, k \in Good PROVE k + 1 \in Good
  <2>1. ASSUME NEW s \in Nat, s + (k + 1) >= N PROVE P(s)
    <3>1. ASSUME next[s] # None PROVE P(next[s] + 1)
      <4>1. next[s] \in Nat /\ s <= next[s]
        BY <1>11, <3>1
      <4>2. next[s] + 1 \in Nat /\ next[s] + 1 + k >= N
        BY <1>2, <2>1, <4>1
      <4> HIDE DEF P
      <4> QED BY <1>13, <4>2
    <3> HIDE DEF P
    <3> QED BY <1>10, <3>1
  <2> HIDE DEF P
  <2> QED BY <2>1
<1> HIDE DEF Good
<1>14. N \in Good
  BY <1>2, <1>12, <1>13, Inductive
<1>15. P(start)
  <2> HIDE DEF P
  <2>1. start + N >= N
    BY <1>2
  <2> QED BY <1>14, <2>1 DEF Good
<1> QED BY <1>1, <1>15

InBuffer(buf) == {m \in buf.marks : m < TotalBits(buf)}

\* What a search that found x does not look at again.
Covered(found, t) == \E x \in found : x <= t /\ t < x + MagicBits

\* find_all_blocks finds magics only, and misses those that are covered or too
\* close to the end.
LEMMA FindAll ==
  ASSUME NEW buf, BufferType(buf)
  PROVE  /\ FindAllBlocks(buf) \subseteq InBuffer(buf)
         /\ Apart(InBuffer(buf), MagicBits) =>
              \A t \in buf.marks \ FindAllBlocks(buf) :
                /\ \A x \in FindAllBlocks(buf) : x < t
                /\ t + Window * ByteBits > TotalBits(buf)
         /\ \A t \in buf.marks :
              t + Window * ByteBits <= TotalBits(buf) => Covered(FindAllBlocks(buf), t)
<1> DEFINE Eq(v) == v = [s \in Nat |-> LET c == FindNextBlock(buf, s) IN
                           IF c = None THEN {} ELSE {c} \cup v[c + MagicBits]]
           T == InBuffer(buf)
           next == [s \in Nat |-> FindNextBlock(buf, s)]
           N == TotalBits(buf)
<1>1. FindAllBlocks(buf) = (CHOOSE v : Eq(v))[0]
  BY DEF FindAllBlocks
<1>2. T \in SUBSET Nat /\ N \in Nat /\ \A t \in T : t < N
  BY DEF BufferType, InBuffer
<1>3. ASSUME NEW s \in Nat
      PROVE  \/ next[s] = None /\ \A m \in buf.marks : s <= m => m + Window * ByteBits > N
             \/ next[s] \in T /\ s <= next[s] /\ \A m \in buf.marks : s <= m => next[s] <= m
  <2> DEFINE c == FindNextBlock(buf, s)
  <2>1. \/ /\ c = None
           /\ \A m \in buf.marks : s <= m => m + Window * ByteBits > N
        \/ /\ c \in buf.marks /\ s <= c /\ c + MagicBits < N
           /\ \A m \in buf.marks : s <= m => c <= m
    BY NextBlock
  <2>2. next[s] = c
    OBVIOUS
  <2>3. c \in buf.marks /\ c + MagicBits < N => c \in T
    BY Widths DEF BufferType, InBuffer
  <2> HIDE DEF next, c, T, N
  <2> QED BY <2>1, <2>2, <2>3
<1>4. Searches(next, T)
  <2>1. T \subseteq buf.marks
    BY DEF InBuffer
  <2> HIDE DEF next, T, N
  <2>2. ASSUME NEW s \in Nat
        PROVE \/ next[s] = None
              \/ next[s] \in T /\ s <= next[s] /\ \A t \in T : s <= t => next[s] <= t
    BY <1>3, <2>1
  <2> QED BY <2>2 DEF Searches
<1>5. \E v : Eq(v)
  <2>1. PICK v \in [Nat -> SUBSET Nat] : IsScan(v, next, MagicBits)
    <3> HIDE DEF next, T
    <3> QED BY <1>2, <1>4, Widths, ScanExists
  <2>2. Eq(v)
    <3>1. v = [s \in Nat |-> v[s]]
      OBVIOUS
    <3>2. ASSUME NEW s \in Nat
          PROVE  v[s] = LET c == FindNextBlock(buf, s) IN IF c = None THEN {} ELSE {c} \cup v[c + MagicBits]
      <4>1. next[s] = FindNextBlock(buf, s)
        OBVIOUS
      <4> HIDE DEF next
      <4> QED BY <2>1, <4>1 DEF IsScan
    <3> QED BY <3>1, <3>2
  <2> QED BY <2>2
<1>6. PICK v : Eq(v) /\ FindAllBlocks(buf) = v[0]
  <2> HIDE DEF Eq
  <2>1. Eq(CHOOSE v : Eq(v))
    BY <1>5
  <2> QED BY <1>1, <2>1
<1>7. IsScan(v, next, MagicBits)
  <2>1. ASSUME NEW s \in Nat
        PROVE  v[s] = IF next[s] = None THEN {} ELSE {next[s]} \cup v[next[s] + MagicBits]
    BY <1>6
  <2> HIDE DEF next
  <2> QED BY <2>1 DEF IsScan
<1> HIDE DEF next, T, N, Eq
<1>8. v[0] \subseteq T
  <2>1. \A s \in Nat : v[s] \subseteq {t \in T : s <= t}
    BY <1>2, <1>4, <1>7, Widths, ScanFinds
  <2> QED BY <2>1
<1>9. ASSUME Apart(T, MagicBits), NEW t \in buf.marks, t \notin v[0]
      PROVE  (\A x \in v[0] : x < t) /\ t + Window * ByteBits > N
  <2>0. t \in Nat
    BY DEF BufferType
  <2>1. CASE t \in T
    <3>1. \A s \in Nat : \A u \in T : s <= u /\ u \notin v[s] =>
           /\ \A x \in v[s] : x < u
           /\ \E r \in Nat : s <= r /\ r <= u /\ next[r] = None
      BY <1>2, <1>4, <1>7, <1>9, Widths, ScanMisses
    <3>2. 0 <= t /\ 0 \in Nat
      BY <2>0
    <3>3. (\A x \in v[0] : x < t) /\ \E r \in Nat : r <= t /\ next[r] = None
      BY <1>9, <2>1, <3>1, <3>2
    <3>4. PICK r \in Nat : r <= t /\ next[r] = None
      BY <3>3
    <3>5. next[r] \notin T
      BY <1>2, <3>4 DEF None
    <3>6. t + Window * ByteBits > N
      BY <1>3, <3>4, <3>5
    <3> QED BY <3>3, <3>6
  <2>2. CASE t \notin T
    <3>1. ~(t < N) /\ N \in Nat
      BY <1>2, <2>2 DEF InBuffer, T, N
    <3>2. \A x \in v[0] : x \in Nat /\ x < N
      BY <1>2, <1>8
    <3>3. Window * ByteBits \in Nat \ {0}
      BY Widths
    <3> QED BY <2>0, <3>1, <3>2, <3>3
  <2> QED BY <2>1, <2>2
<1>10. FindAllBlocks(buf) \subseteq T
  BY <1>6, <1>8
<1>11. Apart(T, MagicBits) =>
         \A t \in buf.marks \ FindAllBlocks(buf) :
           (\A x \in FindAllBlocks(buf) : x < t) /\ t + Window * ByteBits > N
  BY <1>6, <1>9
<1>12. ASSUME NEW t \in buf.marks, t + Window * ByteBits <= N PROVE Covered(v[0], t)
  <2>1. t \in Nat /\ Window * ByteBits \in Nat \ {0} /\ N \in Nat /\ 0 <= t
    BY <1>2, Widths DEF BufferType
  <2>2. t \in T
    BY <1>12, <2>1 DEF InBuffer, T, N
  <2>3. \A s \in Nat : \A u \in T : s <= u =>
          \/ \E x \in v[s] : x <= u /\ u < x + MagicBits
          \/ \E r \in Nat : r <= u /\ next[r] = None
    BY <1>2, <1>4, <1>7, Widths, ScanCovers
  <2>4. Covered(v[0], t) \/ \E r \in Nat : r <= t /\ next[r] = None
    BY <2>1, <2>2, <2>3 DEF Covered
  <2>5. ASSUME NEW r \in Nat, r <= t, next[r] = None PROVE FALSE
    <3>1. next[r] \notin T
      BY <1>2, <2>5 DEF None
    <3>2. t + Window * ByteBits > N
      BY <1>3, <2>5, <3>1
    <3> QED BY <1>12, <2>1, <3>2
  <2> QED BY <2>4, <2>5
<1> QED BY <1>6, <1>10, <1>11, <1>12 DEF T, N

PartStart(buf, n, i) == i * (buf.bytes \div n) * ByteBits
PartEnd(buf, n, i) ==
  (IF i + 1 < n THEN (i + 1) * (buf.bytes \div n) + Window ELSE buf.bytes) * ByteBits

\* A thread of find_all_blocks_parallel finds magics only, and covers those of
\* its part that are not too close to the end.
LEMMA FindPart ==
  ASSUME NEW buf, BufferType(buf), NEW n \in Nat \ {0}, NEW i \in 0 .. n - 1
  PROVE  /\ ScanPart(buf, n, i) \subseteq InBuffer(buf)
         /\ \A t \in buf.marks :
              PartStart(buf, n, i) <= t /\ t < PartEnd(buf, n, i)
              /\ t + Window * ByteBits <= TotalBits(buf) => Covered(ScanPart(buf, n, i), t)
<1> DEFINE end == PartEnd(buf, n, i)
           s0 == PartStart(buf, n, i)
           Eq(v) == v = [s \in Nat |-> LET c == FindNextBlock(buf, s) IN
                           IF s >= end \/ c = None \/ c >= end THEN {} ELSE {c} \cup v[c + MagicBits]]
           T == {m \in InBuffer(buf) : m < end}
           next == [s \in Nat |-> IF s >= end \/ FindNextBlock(buf, s) >= end
                                  THEN None ELSE FindNextBlock(buf, s)]
           N == TotalBits(buf)
<1>0. s0 \in Nat /\ end \in Nat
  <2>1. buf.bytes \in Nat /\ buf.bytes \div n \in Nat /\ i \in Nat /\ n \in Nat
    <3>1. buf.bytes \in Nat
      BY DEF BufferType
    <3>2. i \in Nat /\ n \in Nat
      OBVIOUS
    <3> HIDE DEF Eq, T, next, N, end, s0
    <3>3. buf.bytes \div n \in Nat
      BY <3>1, Division
    <3> QED BY <3>1, <3>2, <3>3
  <2>2. i * (buf.bytes \div n) \in Nat /\ (i + 1) * (buf.bytes \div n) \in Nat
    BY <2>1
  <2>3. (IF i + 1 < n THEN (i + 1) * (buf.bytes \div n) + Window ELSE buf.bytes) \in Nat
    BY <2>1, <2>2, Widths
  <2> QED BY <2>2, <2>3, Widths DEF PartStart, PartEnd
<1>1. ScanPart(buf, n, i) = (CHOOSE v : Eq(v))[s0]
  BY DEF ScanPart, PartStart, PartEnd
<1> HIDE DEF end, s0
<1>2. T \in SUBSET Nat /\ N \in Nat /\ \A t \in T : t < N
  BY DEF BufferType, InBuffer
<1>3. ASSUME NEW s \in Nat
      PROVE  \/ /\ next[s] = None
                /\ \A m \in buf.marks : s <= m /\ m < end => m + Window * ByteBits > N
             \/ next[s] \in T /\ s <= next[s] /\ \A m \in buf.marks : s <= m => next[s] <= m
  <2> DEFINE c == FindNextBlock(buf, s)
  <2>1. \/ /\ c = None
           /\ \A m \in buf.marks : s <= m => m + Window * ByteBits > N
        \/ /\ c \in buf.marks /\ s <= c /\ c + MagicBits < N
           /\ \A m \in buf.marks : s <= m => c <= m
    BY NextBlock
  <2>2. next[s] = IF s >= end \/ c >= end THEN None ELSE c
    OBVIOUS
  <2>3. c \in buf.marks /\ c + MagicBits < N => c \in InBuffer(buf) /\ c \in Nat
    BY Widths DEF BufferType, InBuffer
  <2>4. buf.marks \subseteq Nat
    BY DEF BufferType
  <2>5. c < end /\ c \in InBuffer(buf) => c \in T
    OBVIOUS
  <2> HIDE DEF next, c, T, N
  <2>6. CASE c = None
    <3>1. next[s] = None
      BY <2>2, <2>6
    <3>2. c \notin buf.marks
      BY <2>4, <2>6 DEF None
    <3> QED BY <2>1, <3>1, <3>2
  <2>7. CASE c # None
    <3>1. /\ c \in buf.marks /\ s <= c /\ c \in Nat /\ c \in InBuffer(buf)
          /\ \A m \in buf.marks : s <= m => c <= m
      BY <2>1, <2>3, <2>7
    <3>2. CASE s >= end \/ c >= end
      <4>1. \A m \in buf.marks : ~(s <= m /\ m < end)
        BY <1>0, <2>4, <3>1, <3>2
      <4> QED BY <2>2, <3>2, <4>1
    <3>3. CASE ~(s >= end \/ c >= end)
      <4>1. c < end
        BY <1>0, <3>1, <3>3
      <4> QED BY <2>2, <2>5, <3>1, <3>3, <4>1
    <3> QED BY <3>2, <3>3
  <2> QED BY <2>6, <2>7
<1>4. Searches(next, T)
  <2>1. T \subseteq buf.marks
    BY DEF InBuffer
  <2> HIDE DEF next, T, N
  <2>2. ASSUME NEW s \in Nat
        PROVE \/ next[s] = None
              \/ next[s] \in T /\ s <= next[s] /\ \A t \in T : s <= t => next[s] <= t
    BY <1>3, <2>1
  <2> QED BY <2>2 DEF Searches
<1>E. ASSUME NEW v, NEW s \in Nat
      PROVE  (LET c == FindNextBlock(buf, s) IN
                IF s >= end \/ c = None \/ c >= end THEN {} ELSE {c} \cup v[c + MagicBits])
             = IF next[s] = None THEN {} ELSE {next[s]} \cup v[next[s] + MagicBits]
  OBVIOUS
<1>5. \E v : Eq(v)
  <2>1. PICK v \in [Nat -> SUBSET Nat] : IsScan(v, next, MagicBits)
    <3> HIDE DEF next, T
    <3> QED BY <1>2, <1>4, Widths, ScanExists
  <2>2. Eq(v)
    <3>1. v = [s \in Nat |-> v[s]]
      OBVIOUS
    <3>2. ASSUME NEW s \in Nat
          PROVE  v[s] = LET c == FindNextBlock(buf, s) IN
                          IF s >= end \/ c = None \/ c >= end THEN {} ELSE {c} \cup v[c + MagicBits]
      <4> HIDE DEF next
      <4> QED BY <2>1, <1>E DEF IsScan
    <3> QED BY <3>1, <3>2
  <2> QED BY <2>2
<1>6. PICK v : Eq(v) /\ ScanPart(buf, n, i) = v[s0]
  <2> HIDE DEF Eq
  <2>1. Eq(CHOOSE v : Eq(v))
    BY <1>5
  <2> QED BY <1>1, <2>1
<1>7. IsScan(v, next, MagicBits)
  <2>1. ASSUME NEW s \in Nat
        PROVE  v[s] = IF next[s] = None THEN {} ELSE {next[s]} \cup v[next[s] + MagicBits]
    <3>1. v[s] = LET c == FindNextBlock(buf, s) IN
                   IF s >= end \/ c = None \/ c >= end THEN {} ELSE {c} \cup v[c + MagicBits]
      BY <1>6
    <3> HIDE DEF next
    <3> QED BY <3>1, <1>E
  <2> HIDE DEF next
  <2> QED BY <2>1 DEF IsScan
<1> HIDE DEF next, N, Eq
<1>8. v[s0] \subseteq InBuffer(buf)
  <2>0. T \subseteq InBuffer(buf)
    OBVIOUS
  <2> HIDE DEF T
  <2>1. \A s \in Nat : v[s] \subseteq {t \in T : s <= t}
    BY <1>2, <1>4, <1>7, Widths, ScanFinds
  <2> QED BY <1>0, <2>0, <2>1
<1>9. ASSUME NEW t \in buf.marks, s0 <= t, t < end, t + Window * ByteBits <= N,
             ~ Covered(v[s0], t)
      PROVE  FALSE
  <2>0. t \in Nat /\ Window * ByteBits \in Nat \ {0} /\ N \in Nat
    BY Widths, <1>2 DEF BufferType
  <2>1. t \in T
    BY <1>9, <2>0 DEF InBuffer, N
  <2> HIDE DEF T
  <2>2. \A s \in Nat : \A u \in T : s <= u =>
          \/ \E x \in v[s] : x <= u /\ u < x + MagicBits
          \/ \E r \in Nat : r <= u /\ next[r] = None
    BY <1>2, <1>4, <1>7, Widths, ScanCovers
  <2>4. PICK r \in Nat : r <= t /\ next[r] = None
    BY <1>0, <1>9, <2>1, <2>2 DEF Covered
  <2>5. next[r] \notin T
    BY <1>2, <2>4 DEF None
  <2>6. t + Window * ByteBits > N
    BY <1>3, <1>9, <2>4, <2>5
  <2> QED BY <1>9, <2>0, <2>6
<1> QED BY <1>6, <1>8, <1>9 DEF N, end, s0

\* The parts leave no bit out.
LEMMA PartsCover ==
  ASSUME NEW buf, BufferType(buf), NEW n \in Nat \ {0}, NEW t \in Nat, t < TotalBits(buf)
  PROVE  \E i \in 0 .. n - 1 : PartStart(buf, n, i) <= t /\ t < PartEnd(buf, n, i)
<1> DEFINE part == buf.bytes \div n
           p == part * ByteBits
<1>1. part \in Nat /\ p \in Nat /\ ByteBits \in Nat /\ Window * ByteBits \in Nat \ {0}
  <2>1. part \in Nat
    BY Division DEF BufferType
  <2> QED BY <2>1, Widths
<1>2. \A i \in Nat : i * part * ByteBits = i * p
  <2>1. ASSUME NEW i \in Nat PROVE (i * part) * ByteBits = i * (part * ByteBits)
    <3> HIDE DEF part
    <3>1. i * part \in Nat /\ (i * part) * ByteBits = i * (part * ByteBits)
      BY <1>1
    <3> QED BY <3>1
  <2> QED BY <2>1
<1>3. \A i \in Nat : PartStart(buf, n, i) = i * p
  BY <1>2 DEF PartStart
<1>4. \A i \in Nat : i + 1 < n => PartEnd(buf, n, i) = (i + 1) * p + Window * ByteBits
  <2> SUFFICES ASSUME NEW i \in Nat, i + 1 < n
               PROVE  ((i + 1) * part + Window) * ByteBits = (i + 1) * p + Window * ByteBits
    BY DEF PartEnd
  <2> HIDE DEF part, p
  <2>1. (i + 1) * part \in Nat /\ Window \in Nat
    BY <1>1, Widths
  <2>2. ((i + 1) * part + Window + 0) * ByteBits = (i + 1) * part * ByteBits + Window * ByteBits + 0 * ByteBits
    BY <1>1, <2>1, Distributes
  <2> QED BY <1>1, <1>2, <2>1, <2>2
<1>5. PartEnd(buf, n, n - 1) = TotalBits(buf)
  BY DEF PartEnd, TotalBits
<1> HIDE DEF part, p
<1>6. CASE (n - 1) * p <= t
  BY <1>3, <1>5, <1>6
<1>7. CASE t < (n - 1) * p
  <2> DEFINE U == {i \in Nat : t < (i + 1) * p}
  <2>0. n - 1 # 0
    BY <1>1, <1>7
  <2>1. n - 2 \in U
    BY <1>7, <2>0
  <2>2. PICK i \in U : \A j \in U : i <= j
    BY <2>1, Least
  <2>3. i \in Nat /\ t < (i + 1) * p /\ i + 1 < n
    BY <2>1, <2>2
  <2>4. i * p <= t
    <3>1. CASE i = 0
      BY <1>1, <3>1
    <3>2. CASE i # 0
      <4>1. i - 1 \in Nat /\ ~(i <= i - 1)
        BY <2>3, <3>2
      <4>2. ~(t < (i - 1 + 1) * p)
        BY <2>2, <4>1
      <4>3. i - 1 + 1 = i /\ i * p \in Nat
        BY <1>1, <2>3
      <4> QED BY <4>2, <4>3
    <3> QED BY <3>1, <3>2
  <2>5. (i + 1) * p \in Nat
    BY <1>1, <2>3
  <2>6. t < (i + 1) * p + Window * ByteBits
    BY <1>1, <2>3, <2>5
  <2> QED BY <1>3, <1>4, <2>3, <2>4, <2>6
<1>8. (n - 1) * p \in Nat
  BY <1>1
<1> QED BY <1>6, <1>7, <1>8

\* Together the parts find magics only, and cover all that are not too close to
\* the end, wherever they are cut.
LEMMA PartsMissNothing ==
  ASSUME NEW buf, BufferType(buf), NEW n \in Nat \ {0},
         NEW found, found = UNION {ScanPart(buf, n, i) : i \in 0 .. n - 1}
  PROVE  /\ found \subseteq InBuffer(buf)
         /\ \A t \in buf.marks : t + Window * ByteBits <= TotalBits(buf) => Covered(found, t)
<1>1. found \subseteq InBuffer(buf)
  <2>1. \A i \in 0 .. n - 1 : ScanPart(buf, n, i) \subseteq InBuffer(buf)
    BY FindPart
  <2> QED BY <2>1
<1>2. ASSUME NEW t \in buf.marks, t + Window * ByteBits <= TotalBits(buf) PROVE Covered(found, t)
  <2>1. t \in Nat /\ t < TotalBits(buf)
    <3>1. t \in Nat /\ TotalBits(buf) \in Nat /\ Window * ByteBits \in Nat \ {0}
      BY Widths DEF BufferType
    <3> QED BY <1>2, <3>1
  <2>2. PICK i \in 0 .. n - 1 : PartStart(buf, n, i) <= t /\ t < PartEnd(buf, n, i)
    BY <2>1, PartsCover
  <2>3. Covered(ScanPart(buf, n, i), t)
    BY <1>2, <2>2, FindPart
  <2>4. ScanPart(buf, n, i) \subseteq found
    OBVIOUS
  <2> QED BY <2>3, <2>4 DEF Covered
<1> QED BY <1>1, <1>2

-----------------------------------------------------------------------------
(* Stretches of a file                                                     *)

\* A stretch of the file in a buffer, from byte a to byte b.
LEMMA StretchOfBytes ==
  ASSUME NEW a \in Nat, NEW b \in Nat, a <= b
  PROVE  /\ Bytes(a, b) \in Seq(a .. b - 1) /\ Len(Bytes(a, b)) = b - a
         /\ DOMAIN Bytes(a, b) = 1 .. b - a
         /\ \A i \in 1 .. b - a : Bytes(a, b)[i] = a + i - 1 /\ RunEnd(Bytes(a, b), i) = b - a
<1> DEFINE data == Bytes(a, b)
           n == b - a
<1>1. n \in Nat /\ data = [i \in 1 .. n |-> a + i - 1]
  BY DEF Bytes
<1>2. data \in [1 .. n -> a .. b - 1]
  <2>1. \A i \in 1 .. n : a + i - 1 \in a .. b - 1
    OBVIOUS
  <2> HIDE DEF n, data
  <2> QED BY <1>1, <2>1
<1>3. data \in Seq(a .. b - 1) /\ Len(data) = n /\ DOMAIN data = 1 .. n
  <2> HIDE DEF n, data
  <2> QED BY <1>1, <1>2
<1>4. ASSUME NEW i \in 1 .. n PROVE data[i] = a + i - 1 /\ RunEnd(data, i) = n
  <2> DEFINE U == {j \in i .. Len(data) : j = Len(data) \/ data[j + 1] # data[j] + 1}
  <2>1. U = {n}
    <3>1. ASSUME NEW j \in U PROVE j = n
      <4>1. CASE j # n
        <5>1. j \in 1 .. n /\ j + 1 \in 1 .. n
          BY <1>1, <1>3, <4>1
        <5>2. data[j + 1] = a + (j + 1) - 1 /\ data[j] = a + j - 1
          BY <1>1, <5>1
        <5>3. data[j + 1] = data[j] + 1
          BY <5>1, <5>2
        <5> QED BY <1>3, <4>1, <5>3
      <4> QED BY <4>1
    <3>2. n \in U
      BY <1>1, <1>3
    <3> QED BY <3>1, <3>2
  <2>2. RunEnd(data, i) = Min(U)
    BY DEF RunEnd
  <2> HIDE DEF U, n, data
  <2>3. Min(U) = n
    BY <1>1, <2>1, MinOfNats
  <2> QED BY <1>1, <2>2, <2>3
<1> QED BY <1>3, <1>4

InStretch(a, b, m) == a * ByteBits <= m /\ m + MagicBits <= b * ByteBits

LEMMA BitsAndBytes ==
  ASSUME NEW a \in Nat, NEW m \in Nat
  PROVE  /\ a * ByteBits \in Nat
         /\ a <= m \div ByteBits <=> a * ByteBits <= m
         /\ m \div ByteBits < a <=> m < a * ByteBits
         /\ m \div ByteBits \in Nat /\ m % ByteBits \in Nat
         /\ (m \div ByteBits) * ByteBits + (m % ByteBits) = m
<1> DEFINE q == m \div ByteBits
           r == m % ByteBits
<1>1. /\ ByteBits \in Nat \ {0} /\ q \in Nat /\ r \in 0 .. ByteBits - 1
      /\ m = ByteBits * q + r /\ ByteBits * q \in Nat
  BY Widths, Division
<1>2. q * ByteBits = ByteBits * q /\ a * ByteBits = ByteBits * a /\ a * ByteBits \in Nat
  BY <1>1
<1> HIDE DEF q, r
<1>3. a <= q => ByteBits * a <= ByteBits * q
  BY <1>1, MulMono
<1>4. q + 1 <= a => ByteBits * (q + 1) <= ByteBits * a
  BY <1>1, MulMono
<1>5. ByteBits * (q + 1) = ByteBits * q + ByteBits
  BY <1>1
<1>6. /\ a * ByteBits \in Nat
      /\ a <= q <=> a * ByteBits <= m
      /\ q < a <=> m < a * ByteBits
      /\ q \in Nat /\ r \in Nat
      /\ q * ByteBits + r = m
  <2> DEFINE x == ByteBits * a
             y == ByteBits * q
             z == ByteBits * (q + 1)
  <2>1. x \in Nat /\ y \in Nat /\ z = y + ByteBits /\ m = y + r /\ a * ByteBits = x /\ q * ByteBits = y
        /\ (a <= q => x <= y) /\ (q + 1 <= a => z <= x)
    BY <1>1, <1>2, <1>3, <1>4, <1>5
  <2> HIDE DEF x, y, z
  <2> QED BY <1>1, <2>1
<1> QED BY <1>6 DEF q, r

\* A magic shows up in a stretch at its place if it lies in there as a whole.
LEMMA OccurrencesInStretch ==
  ASSUME NEW a \in Nat, NEW b \in Nat, a <= b, NEW m \in Nat
  PROVE  /\ InStretch(a, b, m) => Occurrences(Bytes(a, b), m) = {m - a * ByteBits}
         /\ ~ InStretch(a, b, m) => Occurrences(Bytes(a, b), m) = {}
<1> DEFINE data == Bytes(a, b)
           n == b - a
           q == m \div ByteBits
           r == m % ByteBits
           e == (m + MagicBits - 1) \div ByteBits
           hits == {j \in DOMAIN data : data[j] = q /\ data[RunEnd(data, j)] >= e}
<1>1. Occurrences(data, m) = {(i - 1) * ByteBits + r : i \in hits}
  BY DEF Occurrences
<1>2. /\ n \in Nat /\ DOMAIN data = 1 .. n
      /\ \A i \in 1 .. n : data[i] = a + i - 1 /\ RunEnd(data, i) = n
  <2>1. n \in Nat
    OBVIOUS
  <2>2. /\ DOMAIN data = 1 .. n
        /\ \A i \in 1 .. n : data[i] = a + i - 1 /\ RunEnd(data, i) = n
    BY StretchOfBytes
  <2> QED BY <2>1, <2>2
<1>3. m + MagicBits - 1 \in Nat /\ MagicBits \in Nat \ {0} /\ ByteBits \in Nat \ {0}
  BY Widths
<1>4. /\ q \in Nat /\ r \in Nat /\ q * ByteBits + r = m /\ e \in Nat
      /\ a * ByteBits \in Nat /\ b * ByteBits \in Nat
      /\ (a <= q <=> a * ByteBits <= m)
      /\ (e < b <=> m + MagicBits - 1 < b * ByteBits)
  BY <1>3, BitsAndBytes
<1>5. q <= e
  BY <1>3, DivMono
<1>6. InStretch(a, b, m) <=> a <= q /\ e < b
  <2>1. m + MagicBits - 1 < b * ByteBits <=> m + MagicBits <= b * ByteBits
    BY <1>3, <1>4
  <2> QED BY <1>4, <2>1 DEF InStretch
<1>7. \A j \in 1 .. n : data[RunEnd(data, j)] = b - 1
  BY <1>2
<1> HIDE DEF data, q, r, e
<1>8. hits = {j \in 1 .. n : a + j - 1 = q /\ b - 1 >= e}
  BY <1>2, <1>7
<1>9. CASE InStretch(a, b, m)
  <2>1. q - a + 1 \in 1 .. n /\ b - 1 >= e
    BY <1>4, <1>5, <1>6, <1>9
  <2>2. hits = {q - a + 1}
    <3>1. \A j \in hits : j = q - a + 1
      BY <1>4, <1>8
    <3>2. q - a + 1 \in hits
      BY <1>4, <1>8, <2>1
    <3> QED BY <3>1, <3>2
  <2>3. ((q - a + 1) - 1) * ByteBits + r = m - a * ByteBits
    <3>1. (q - a) * ByteBits = q * ByteBits - a * ByteBits
      BY <1>3, <1>4
    <3>2. (q - a + 1) - 1 = q - a
      BY <1>4
    <3>3. q * ByteBits \in Nat
      BY <1>3, <1>4
    <3> QED BY <1>4, <3>1, <3>2, <3>3
  <2> HIDE DEF hits
  <2>4. Occurrences(data, m) = {m - a * ByteBits}
    <3>1. \A x : x \in Occurrences(data, m) <=> \E i \in hits : x = (i - 1) * ByteBits + r
      BY <1>1
    <3> DEFINE w == q - a + 1
    <3>2. hits = {w} /\ (w - 1) * ByteBits + r = m - a * ByteBits
      BY <2>2, <2>3
    <3> HIDE DEF w
    <3> QED BY <3>1, <3>2
  <2> QED BY <1>9, <2>4 DEF data
<1>10. CASE ~ InStretch(a, b, m)
  <2>1. hits = {}
    <3>1. ASSUME NEW j \in 1 .. n, a + j - 1 = q, b - 1 >= e PROVE FALSE
      BY <1>4, <1>6, <1>10, <3>1
    <3> QED BY <1>8, <3>1
  <2> HIDE DEF hits
  <2>2. Occurrences(data, m) = {}
    BY <1>1, <2>1
  <2> QED BY <1>10, <2>2 DEF data
<1> QED BY <1>9, <1>10

LEMMA BlocksType ==
  ASSUME NEW file, WellFormed(file)
  PROVE  /\ Len(file.blocks) \in Nat /\ DOMAIN file.blocks = 1 .. Len(file.blocks)
         /\ \A b \in DOMAIN file.blocks : file.blocks[b].first \in Nat /\ file.blocks[b].end \in Nat
         /\ Magics(file) \subseteq Nat
<1>1. file.blocks \in Seq([first : Nat, end : Nat]) /\ file.fakes \subseteq Nat
  BY DEF WellFormed
<1>2. Len(file.blocks) \in Nat /\ DOMAIN file.blocks = 1 .. Len(file.blocks)
  BY <1>1
<1>3. \A b \in DOMAIN file.blocks : file.blocks[b].first \in Nat /\ file.blocks[b].end \in Nat
  <2>1. \A b \in DOMAIN file.blocks : file.blocks[b] \in [first : Nat, end : Nat]
    <3> DEFINE R == [first : Nat, end : Nat]
               q == file.blocks
    <3> HIDE DEF R, q
    <3>1. q \in Seq(R) => \A b \in DOMAIN q : q[b] \in R
      OBVIOUS
    <3> QED BY <1>1, <3>1 DEF R, q
  <2> QED BY <2>1
<1> QED BY <1>1, <1>2, <1>3 DEF Magics

\* The buffer that holds a stretch of the file.
LEMMA BufferOfStretch ==
  ASSUME NEW file, WellFormed(file), NEW a \in Nat, NEW b \in Nat, a <= b,
         NEW buf, buf = Buffer(file, Bytes(a, b))
  PROVE  /\ BufferType(buf) /\ InBuffer(buf) = buf.marks
         /\ TotalBits(buf) = b * ByteBits - a * ByteBits /\ a * ByteBits \in Nat /\ b * ByteBits \in Nat
         /\ \A x : x \in buf.marks <=> \E m \in Magics(file) : InStretch(a, b, m) /\ x = m - a * ByteBits
<1> DEFINE data == Bytes(a, b)
           F(k) == file.blocks[k].first
           Bs == DOMAIN file.blocks
           sound == UNION {Occurrences(data, F(k)) : k \in Bs}
<1>0. \A k \in Bs : F(k) \in Nat
  BY BlocksType
<1>F. file.fakes \subseteq Nat
  BY DEF WellFormed
<1>1. buf.bytes = Len(data) /\ buf.marks = sound \cup UNION {Occurrences(data, m) : m \in file.fakes}
  BY DEF Buffer
<1>2. Len(data) = b - a
  BY StretchOfBytes
<1>3. \A m \in Nat : \A x : x \in Occurrences(data, m) <=> InStretch(a, b, m) /\ x = m - a * ByteBits
  BY OccurrencesInStretch
<1> HIDE DEF data
<1>4. \A x : x \in buf.marks <=> (\E k \in Bs : x \in Occurrences(data, F(k)))
                                 \/ (\E m \in file.fakes : x \in Occurrences(data, m))
  BY <1>1
<1>5. \A x : x \in buf.marks <=> \E m \in Magics(file) : InStretch(a, b, m) /\ x = m - a * ByteBits
  <2> HIDE DEF F
  <2>1. ASSUME NEW x, x \in buf.marks
        PROVE  \E m \in Magics(file) : InStretch(a, b, m) /\ x = m - a * ByteBits
    <3>1. CASE \E k \in Bs : x \in Occurrences(data, F(k))
      <4>1. PICK k \in Bs : x \in Occurrences(data, F(k))
        BY <3>1
      <4>2. F(k) \in Magics(file)
        BY DEF Magics, F
      <4> QED BY <1>0, <1>3, <4>1, <4>2
    <3>2. CASE \E m \in file.fakes : x \in Occurrences(data, m)
      BY <1>F, <1>3, <3>2 DEF Magics
    <3> QED BY <1>4, <2>1, <3>1, <3>2
  <2>2. ASSUME NEW m \in Magics(file), InStretch(a, b, m) PROVE m - a * ByteBits \in buf.marks
    <3>1. m \in Nat
      BY BlocksType
    <3>2. m - a * ByteBits \in Occurrences(data, m)
      BY <1>3, <2>2, <3>1
    <3>3. m \in file.fakes \/ \E k \in Bs : m = F(k)
      BY DEF Magics, F
    <3> QED BY <1>4, <3>2, <3>3
  <2> QED BY <2>1, <2>2
<1>6. TotalBits(buf) = b * ByteBits - a * ByteBits /\ a * ByteBits \in Nat /\ b * ByteBits \in Nat
      /\ TotalBits(buf) \in Nat
  <2>1. TotalBits(buf) = (b - a) * ByteBits
    BY <1>1, <1>2 DEF TotalBits
  <2>2. (b - a) * ByteBits = b * ByteBits - a * ByteBits /\ a * ByteBits \in Nat /\ b * ByteBits \in Nat
        /\ (b - a) * ByteBits \in Nat
    BY Widths
  <2> QED BY <2>1, <2>2
<1>7. \A x \in buf.marks : x \in Nat /\ x < TotalBits(buf)
  <2> SUFFICES ASSUME NEW x \in buf.marks PROVE x \in Nat /\ x < TotalBits(buf)
    OBVIOUS
  <2>1. PICK m \in Magics(file) : InStretch(a, b, m) /\ x = m - a * ByteBits
    BY <1>5
  <2>2. m \in Nat /\ MagicBits \in Nat \ {0}
    BY BlocksType, Widths
  <2> QED BY <1>6, <2>1, <2>2 DEF InStretch
<1>8. BufferType(buf)
  <2>1. buf.bytes \in Nat
    BY <1>1, <1>2
  <2> QED BY <1>6, <1>7, <2>1 DEF BufferType
<1>9. InBuffer(buf) = buf.marks
  BY <1>7 DEF InBuffer
<1> QED BY <1>5, <1>6, <1>8, <1>9

LEMMA BufferBits ==
  ASSUME NEW file, WellFormed(file), NEW a \in Nat, NEW b \in Nat, a <= b
  PROVE  LET buf == Buffer(file, Bytes(a, b)) IN
         /\ BufferType(buf) /\ InBuffer(buf) = buf.marks
         /\ TotalBits(buf) = b * ByteBits - a * ByteBits /\ a * ByteBits \in Nat /\ b * ByteBits \in Nat
<1> DEFINE buf == Buffer(file, Bytes(a, b))
<1>1. buf = Buffer(file, Bytes(a, b))
  OBVIOUS
<1> HIDE DEF buf
<1> QED BY <1>1, BufferOfStretch DEF buf

\* The block that begins at a bit and is over by top.
StandsAt(file, bit, top) ==
  {k \in DOMAIN file.blocks : file.blocks[k].first = bit /\ file.blocks[k].end <= top}

\* It is what decoding finds at that bit of a stretch.
LEMMA BlockAtStretch ==
  ASSUME NEW file, WellFormed(file), NEW a \in Nat, NEW b \in Nat, a <= b,
         NEW s \in Nat, s < (b - a) * ByteBits
  PROVE  BlockAt(file, Bytes(a, b), s) = StandsAt(file, s + a * ByteBits, b * ByteBits)
<1> DEFINE data == Bytes(a, b)
           i == s \div ByteBits + 1
           shift == (data[i] - (i - 1)) * ByteBits
           runEnd == (data[RunEnd(data, i)] + 1) * ByteBits
<1>1. i \in 1 .. b - a
  <2>1. s \div ByteBits \in Nat /\ s \div ByteBits < b - a
    BY BitsAndBytes
  <2> QED BY <2>1
<1>2. data[i] = a + i - 1 /\ RunEnd(data, i) = b - a /\ data[b - a] = b - 1
  <2>1. /\ \A j \in 1 .. b - a : data[j] = a + j - 1 /\ RunEnd(data, j) = b - a
    BY StretchOfBytes
  <2> HIDE DEF i, data
  <2>2. data[b - a] = a + (b - a) - 1 /\ b - a \in 1 .. b - a
    BY <1>1, <2>1
  <2> QED BY <1>1, <2>1, <2>2
<1>3. BlockAt(file, data, s) = {k \in DOMAIN file.blocks : file.blocks[k].first = s + shift
                                       /\ file.blocks[k].end <= runEnd}
  BY DEF BlockAt
<1>4. shift = a * ByteBits /\ runEnd = b * ByteBits
  <2> HIDE DEF i, data
  <2>1. data[i] - (i - 1) = a /\ data[RunEnd(data, i)] + 1 = b
    BY <1>1, <1>2
  <2> QED BY <2>1
<1> HIDE DEF shift, runEnd
<1>5. BlockAt(file, data, s) = {k \in DOMAIN file.blocks : file.blocks[k].first = s + a * ByteBits
                                       /\ file.blocks[k].end <= b * ByteBits}
  BY <1>3, <1>4
<1> QED BY <1>5 DEF StandsAt

\* Blocks do not overlap, near or far.
LEMMA BlocksAscend ==
  ASSUME NEW file, WellFormed(file)
  PROVE  \A i, j \in DOMAIN file.blocks : i < j => file.blocks[i].end <= file.blocks[j].first
<1> DEFINE F(k) == file.blocks[k].first
           E(k) == file.blocks[k].end
           Bs == DOMAIN file.blocks
           n == Len(file.blocks)
<1>1. n \in Nat /\ Bs = 1 .. n /\ \A k \in Bs : F(k) \in Nat /\ E(k) \in Nat
  BY BlocksType
<1>2. \A k \in Bs : F(k) <= E(k) /\ (k + 1 \in Bs => E(k) <= F(k + 1))
  <2>1. \A k \in Bs : F(k) + Window * ByteBits <= E(k) /\ (k + 1 \in Bs => E(k) <= F(k + 1))
    BY DEF WellFormed
  <2> HIDE DEF F, E, Bs
  <2>2. ASSUME NEW k \in Bs PROVE F(k) <= E(k)
    <3> DEFINE x == F(k)
               y == E(k)
    <3>1. x \in Nat /\ y \in Nat /\ x + Window * ByteBits <= y
      BY <1>1, <2>1
    <3> HIDE DEF x, y
    <3>2. x <= y
      BY <3>1, Widths
    <3> QED BY <3>2 DEF x, y
  <2> QED BY <2>1, <2>2
<1> HIDE DEF F, E, Bs, n
<1> SUFFICES ASSUME NEW i \in Bs PROVE \A j \in Bs : i < j => E(i) <= F(j)
  BY DEF F, E, Bs
<1> DEFINE T == {d \in Nat : i + 1 + d \in Bs => E(i) <= F(i + 1 + d)}
<1>3. 0 \in T
  <2>1. i + 1 + 0 = i + 1
    BY <1>1
  <2> QED BY <1>1, <1>2, <2>1
<1>4. ASSUME NEW d \in Nat, d \in T PROVE d + 1 \in T
  <2>1. CASE i + 1 + (d + 1) \in Bs
    <3> DEFINE k == i + 1 + d
    <3>1. k \in Bs /\ k + 1 = i + 1 + (d + 1)
      BY <1>1, <2>1
    <3>2. E(i) <= F(k)
      BY <1>4, <3>1
    <3> HIDE DEF k
    <3>3. F(k) <= E(k) /\ E(k) <= F(k + 1)
      BY <1>2, <2>1, <3>1
    <3>4. E(i) <= F(k + 1)
      BY <1>1, <2>1, <3>1, <3>2, <3>3
    <3> QED BY <3>1, <3>4
  <2> QED BY <2>1
<1> HIDE DEF T
<1>5. Nat \subseteq T
  BY <1>3, <1>4, Inductive
<1>6. ASSUME NEW j \in Bs, i < j PROVE E(i) <= F(j)
  <2>1. j - i - 1 \in Nat /\ i + 1 + (j - i - 1) = j
    BY <1>1, <1>6
  <2> QED BY <1>5, <2>1 DEF T
<1> QED BY <1>6

\* Nor do the magics they begin with.
LEMMA FirstsAscend ==
  ASSUME NEW file, WellFormed(file)
  PROVE  \A i, j \in DOMAIN file.blocks :
           i < j => file.blocks[i].first + Window * ByteBits <= file.blocks[j].first
<1> SUFFICES ASSUME NEW i \in DOMAIN file.blocks, NEW j \in DOMAIN file.blocks, i < j
             PROVE  file.blocks[i].first + Window * ByteBits <= file.blocks[j].first
  OBVIOUS
<1> DEFINE x == file.blocks[i].first
           y == file.blocks[i].end
           z == file.blocks[j].first
<1>1. x \in Nat /\ y \in Nat /\ z \in Nat
  BY BlocksType
<1>2. x + Window * ByteBits <= y
  BY DEF WellFormed
<1>3. y <= z
  BY BlocksAscend
<1> HIDE DEF x, y, z
<1>4. x + Window * ByteBits <= z
  BY <1>1, <1>2, <1>3, Widths
<1> QED BY <1>4 DEF x, z

\* Without magics by coincidence, the magics of a stretch do not overlap.
LEMMA StretchApart ==
  ASSUME NEW file, WellFormed(file), file.fakes = {}, NEW a \in Nat, NEW b \in Nat, a <= b,
         NEW buf, buf = Buffer(file, Bytes(a, b))
  PROVE  /\ Apart(InBuffer(buf), MagicBits)
         /\ \A x : x \in InBuffer(buf) <=>
              \E c \in DOMAIN file.blocks :
                InStretch(a, b, file.blocks[c].first) /\ x = file.blocks[c].first - a * ByteBits
<1> DEFINE F(c) == file.blocks[c].first
           Bs == DOMAIN file.blocks
<1>1. \A c \in Bs : F(c) \in Nat
  BY BlocksType
<1>2. \A x : x \in InBuffer(buf) <=> \E c \in Bs : InStretch(a, b, F(c)) /\ x = F(c) - a * ByteBits
  <2>1. InBuffer(buf) = buf.marks
        /\ \A x : x \in buf.marks <=> \E m \in Magics(file) : InStretch(a, b, m) /\ x = m - a * ByteBits
    BY BufferOfStretch
  <2>2. \A m : m \in Magics(file) <=> \E c \in Bs : m = F(c)
    BY DEF Magics
  <2> HIDE DEF F, Bs
  <2> QED BY <2>1, <2>2
<1>3. \A i, j \in Bs : i < j => F(i) + Window * ByteBits <= F(j)
  BY FirstsAscend
<1>4. Bs \subseteq Nat /\ a * ByteBits \in Nat
  <2>1. Bs = 1 .. Len(file.blocks) /\ Len(file.blocks) \in Nat
    BY BlocksType
  <2>2. a * ByteBits \in Nat
    BY Widths
  <2> HIDE DEF Bs
  <2> QED BY <2>1, <2>2
<1> HIDE DEF F, Bs
<1>5. ASSUME NEW x \in InBuffer(buf), NEW y \in InBuffer(buf), x < y PROVE x + MagicBits <= y
  <2>1. PICK i \in Bs : x = F(i) - a * ByteBits
    BY <1>2
  <2>2. PICK j \in Bs : y = F(j) - a * ByteBits
    BY <1>2
  <2>3. i \in Nat /\ j \in Nat /\ F(i) \in Nat /\ F(j) \in Nat
    BY <1>1, <1>4
  <2>4. F(i) < F(j)
    BY <1>4, <1>5, <2>1, <2>2, <2>3
  <2>5. i < j
    <3>1. CASE j < i
      <4>1. F(j) + Window * ByteBits <= F(i)
        BY <1>3, <3>1
      <4> QED BY <2>3, <2>4, <4>1, Widths
    <3>2. CASE i = j
      BY <2>3, <2>4, <3>2
    <3> QED BY <2>3, <3>1, <3>2
  <2>6. F(i) + Window * ByteBits <= F(j)
    BY <1>3, <2>5
  <2> QED BY <1>4, <2>1, <2>2, <2>3, <2>6, Widths
<1>6. Apart(InBuffer(buf), MagicBits)
  BY <1>5 DEF Apart
<1> QED BY <1>2, <1>6 DEF F, Bs

\* Found are the k blocks behind the first d, and no further one unless it is
\* too close to the end.
FindsBehind(file, a, b, d, k, found) ==
  /\ IsFiniteSet(found)
  /\ Sorted(found) = [i \in 1 .. k |-> file.blocks[d + i].first - a * ByteBits]
  /\ \A i \in 1 .. k : file.blocks[d + i].first + MagicBits <= b * ByteBits
  /\ d + k + 1 \in DOMAIN file.blocks =>
       file.blocks[d + k + 1].first + Window * ByteBits > b * ByteBits

\* Without magics by coincidence, that is what is found in a stretch that begins
\* behind the first d magics, if only those too close to the end are missed.
LEMMA FoundBehind ==
  ASSUME NEW file, WellFormed(file), file.fakes = {}, NEW a \in Nat, NEW b \in Nat, a <= b,
         NEW d \in 0 .. Len(file.blocks),
         \A c \in DOMAIN file.blocks : c <= d <=> file.blocks[c].first < a * ByteBits,
         NEW buf, buf = Buffer(file, Bytes(a, b)),
         NEW found \in SUBSET InBuffer(buf),
         \A t \in InBuffer(buf) \ found :
           (\A x \in found : x < t) /\ t + Window * ByteBits > TotalBits(buf)
  PROVE  \E k \in 0 .. Len(file.blocks) - d : FindsBehind(file, a, b, d, k, found)
<1> DEFINE F(c) == file.blocks[c].first
           Bs == DOMAIN file.blocks
           L == Len(file.blocks)
           aB == a * ByteBits
           bB == b * ByteBits
           P == {i \in 1 .. L - d : F(d + i) - aB \in found}
<1>1. L \in Nat /\ Bs = 1 .. L /\ \A c \in Bs : F(c) \in Nat
  BY BlocksType
<1>2. BufferType(buf) /\ InBuffer(buf) = buf.marks /\ TotalBits(buf) = bB - aB /\ aB \in Nat /\ bB \in Nat
  BY BufferBits
<1>3. Apart(InBuffer(buf), MagicBits)
      /\ \A x : x \in InBuffer(buf) <=> \E c \in Bs : InStretch(a, b, F(c)) /\ x = F(c) - aB
  BY StretchApart
<1>4. found \subseteq InBuffer(buf)
      /\ \A t \in InBuffer(buf) \ found : (\A x \in found : x < t) /\ t + Window * ByteBits > TotalBits(buf)
  OBVIOUS
<1>5. \A i, j \in Bs : i < j => F(i) + Window * ByteBits <= F(j)
  BY FirstsAscend
<1>6. \A c \in Bs : c <= d <=> F(c) < aB
  OBVIOUS
<1>7. \A c \in Bs : InStretch(a, b, F(c)) <=> aB <= F(c) /\ F(c) + MagicBits <= bB
  BY DEF InStretch
<1> HIDE DEF F, Bs, L, aB, bB
<1>8. \A i \in 1 .. L - d : d + i \in Bs /\ F(d + i) \in Nat /\ aB <= F(d + i)
  <2> SUFFICES ASSUME NEW i \in 1 .. L - d PROVE d + i \in Bs /\ F(d + i) \in Nat /\ aB <= F(d + i)
    OBVIOUS
  <2>1. d + i \in Bs /\ ~(d + i <= d)
    BY <1>1 DEF L
  <2>2. F(d + i) \in Nat /\ ~(F(d + i) < aB)
    BY <1>1, <1>6, <2>1
  <2> QED BY <1>2, <2>1, <2>2
<1>9. ASSUME NEW x \in P, NEW y \in 1 .. L - d, y < x PROVE y \in P
  <2>1. x \in 1 .. L - d /\ F(d + x) - aB \in found
    OBVIOUS
  <2>2. F(d + y) + Window * ByteBits <= F(d + x)
    <3>1. d + y < d + x
      BY <1>1, <1>9
    <3> QED BY <1>5, <1>8, <2>1, <3>1
  <2>3. F(d + x) + MagicBits <= bB
    <3>1. PICK c \in Bs : InStretch(a, b, F(c)) /\ F(d + x) - aB = F(c) - aB
      BY <1>3, <1>4, <2>1
    <3>2. F(c) = F(d + x)
      BY <1>1, <1>2, <1>8, <2>1, <3>1
    <3> QED BY <1>7, <3>1, <3>2
  <2>4. F(d + y) + MagicBits <= bB
    <3> DEFINE u == F(d + y)
               v == F(d + x)
    <3>1. u \in Nat /\ v \in Nat /\ u + Window * ByteBits <= v /\ v + MagicBits <= bB
      BY <1>8, <2>1, <2>2, <2>3
    <3> HIDE DEF u, v
    <3>2. u + MagicBits <= bB
      BY <1>2, <3>1, Widths
    <3> QED BY <3>2 DEF u
  <2>5. F(d + y) - aB \in InBuffer(buf)
    BY <1>3, <1>7, <1>8, <2>4
  <2>6. ~(F(d + x) - aB < F(d + y) - aB)
    <3> DEFINE u == F(d + y)
               v == F(d + x)
               w == Window * ByteBits
    <3>1. u \in Nat /\ v \in Nat /\ u + w <= v /\ w \in Nat /\ aB \in Nat
      BY <1>2, <1>8, <2>1, <2>2, Widths
    <3> HIDE DEF u, v, w, aB
    <3>2. ~(v - aB < u - aB)
      BY <3>1
    <3> QED BY <3>2 DEF u, v
  <2> QED BY <1>4, <2>1, <2>5, <2>6
<1>10. PICK k \in 0 .. L - d : P = 1 .. k
  <2>1. P \in SUBSET (1 .. L - d)
    OBVIOUS
  <2>2. L - d \in Nat
    BY <1>1 DEF L
  <2> HIDE DEF P
  <2> QED BY <1>9, <2>1, <2>2, DownClosed
<1> DEFINE f == [i \in 1 .. k |-> F(d + i) - aB]
<1>11. found = {f[i] : i \in 1 .. k}
  <2>1. ASSUME NEW x \in found PROVE \E i \in 1 .. k : x = f[i]
    <3>1. PICK c \in Bs : InStretch(a, b, F(c)) /\ x = F(c) - aB
      BY <1>3, <1>4
    <3>2. ~(F(c) < aB)
      BY <1>1, <1>2, <1>7, <3>1
    <3>3. ~(c <= d)
      BY <1>6, <3>2
    <3>4. c - d \in 1 .. L - d /\ d + (c - d) = c
      BY <1>1, <3>3 DEF L
    <3>5. c - d \in P
      BY <3>1, <3>4
    <3>6. c - d \in 1 .. k
      BY <1>10, <3>5
    <3> QED BY <3>1, <3>4, <3>6
  <2>2. ASSUME NEW i \in 1 .. k PROVE f[i] \in found
    <3>1. i \in P
      BY <1>10
    <3> QED BY <3>1
  <2> HIDE DEF f
  <2> QED BY <2>1, <2>2
<1>12. f \in [1 .. k -> Int] /\ \A i, j \in 1 .. k : i < j => f[i] < f[j]
  <2>1. ASSUME NEW i \in 1 .. k PROVE f[i] \in Int
    <3>1. i \in 1 .. L - d /\ f[i] = F(d + i) - aB
      BY <1>10
    <3>2. F(d + i) \in Nat
      BY <1>8, <3>1
    <3> QED BY <1>2, <3>1, <3>2
  <2>2. ASSUME NEW i \in 1 .. k, NEW j \in 1 .. k, i < j PROVE f[i] < f[j]
    <3>1. i \in 1 .. L - d /\ j \in 1 .. L - d /\ d + i < d + j
      BY <1>1, <2>2
    <3>2. F(d + i) + Window * ByteBits <= F(d + j)
      BY <1>5, <1>8, <3>1
    <3> DEFINE u == F(d + i)
               v == F(d + j)
    <3>3. u \in Nat /\ v \in Nat /\ u + Window * ByteBits <= v /\ f[i] = u - aB /\ f[j] = v - aB
      BY <1>8, <3>1, <3>2
    <3> HIDE DEF u, v, f
    <3> QED BY <1>2, <3>3, Widths
  <2> QED BY <2>1, <2>2
<1>13. IsFiniteSet(found) /\ Sorted(found) = f
  <2>1. k \in Nat
    BY <1>10
  <2> HIDE DEF f
  <2> QED BY <1>11, <1>12, <2>1, SortedIs
<1>14. \A i \in 1 .. k : F(d + i) + MagicBits <= bB
  <2> SUFFICES ASSUME NEW i \in 1 .. k PROVE F(d + i) + MagicBits <= bB
    OBVIOUS
  <2>1. i \in 1 .. L - d /\ f[i] \in InBuffer(buf) /\ f[i] = F(d + i) - aB
    BY <1>4, <1>10, <1>11
  <2>2. PICK c \in Bs : InStretch(a, b, F(c)) /\ F(d + i) - aB = F(c) - aB
    BY <1>3, <2>1
  <2>3. F(c) = F(d + i)
    BY <1>1, <1>2, <1>8, <2>1, <2>2
  <2> QED BY <1>7, <2>2, <2>3
<1>15. ASSUME d + k + 1 \in Bs PROVE F(d + k + 1) + Window * ByteBits > bB
  <2> DEFINE y == k + 1
             z == F(d + y)
  <2>1. y \in 1 .. L - d /\ d + k + 1 = d + y
    BY <1>1, <1>10, <1>15
  <2>2. y \notin P /\ z \in Nat /\ aB <= z /\ d + y \in Bs
    <3>1. z \in Nat /\ aB <= z /\ d + y \in Bs
      BY <1>8, <2>1
    <3>2. y \notin 1 .. k
      BY <1>10
    <3> QED BY <1>10, <3>1, <3>2
  <2>3. z - aB \notin found
    BY <2>1, <2>2
  <2> HIDE DEF z
  <2>4. CASE z + MagicBits <= bB
    <3>1. z - aB \in InBuffer(buf)
      BY <1>3, <1>7, <2>2, <2>4 DEF z
    <3>2. z - aB + Window * ByteBits > bB - aB
      BY <1>2, <1>4, <2>3, <3>1
    <3>3. Window * ByteBits \in Nat
      BY Widths
    <3> DEFINE w == Window * ByteBits
    <3> HIDE DEF w, aB, bB
    <3>4. z + w > bB
      BY <1>2, <2>2, <3>2, <3>3 DEF w
    <3> QED BY <2>1, <3>4 DEF z, w
  <2>5. CASE ~(z + MagicBits <= bB)
    <3> DEFINE w == Window * ByteBits
    <3>1. w \in Nat /\ MagicBits \in Nat /\ MagicBits <= w
      BY Widths
    <3> HIDE DEF w, aB, bB
    <3>2. z + w > bB
      BY <1>2, <2>2, <2>5, <3>1
    <3> QED BY <2>1, <3>2 DEF z, w
  <2> QED BY <2>4, <2>5
<1>16. k \in 0 .. Len(file.blocks) - d
  BY <1>10 DEF L
<1>17. FindsBehind(file, a, b, d, k, found)
  BY <1>13, <1>14, <1>15, <1>16 DEF F, Bs, aB, bB, FindsBehind
<1> QED BY <1>16, <1>17

-----------------------------------------------------------------------------
(* Stretches put together and cut                                          *)

\* A scan of the stretch is such a one.
LEMMA FoundInStretch ==
  ASSUME NEW file, WellFormed(file), file.fakes = {}, NEW a \in Nat, NEW b \in Nat, a <= b,
         NEW d \in 0 .. Len(file.blocks),
         \A c \in DOMAIN file.blocks : c <= d <=> file.blocks[c].first < a * ByteBits,
         NEW found, found = FindAllBlocks(Buffer(file, Bytes(a, b)))
  PROVE  \E k \in 0 .. Len(file.blocks) - d : FindsBehind(file, a, b, d, k, found)
<1> DEFINE buf == Buffer(file, Bytes(a, b))
<1>1. BufferType(buf) /\ InBuffer(buf) = buf.marks
  BY BufferBits
<1>2. Apart(InBuffer(buf), MagicBits)
  BY StretchApart
<1> HIDE DEF buf
<1>3. /\ found \subseteq InBuffer(buf)
      /\ \A t \in InBuffer(buf) \ found :
           (\A x \in found : x < t) /\ t + Window * ByteBits > TotalBits(buf)
  BY <1>1, <1>2, FindAll DEF buf
<1> QED
  BY <1>3, FoundBehind DEF buf


\* The bits of a stretch.
LEMMA StretchBits ==
  ASSUME NEW a \in Nat, NEW p \in Nat, a <= p
  PROVE  a * ByteBits \in Nat /\ p * ByteBits \in Nat
         /\ (p - a) * ByteBits = p * ByteBits - a * ByteBits /\ (p - a) * ByteBits \in Nat
<1> DEFINE r == p - a
           R == r * ByteBits
           aB == a * ByteBits
           pB == p * ByteBits
<1>1. r \in Nat /\ p = r + a + 0 /\ ByteBits \in Nat
  BY Widths
<1> HIDE DEF r
<1>2. (r + a + 0) * ByteBits = r * ByteBits + a * ByteBits + 0 * ByteBits
  BY <1>1, Distributes
<1>3. aB \in Nat /\ pB \in Nat /\ R \in Nat /\ 0 * ByteBits = 0
  BY <1>1, Products
<1>4. pB = R + aB
  BY <1>1, <1>2, <1>3
<1> HIDE DEF R, aB, pB
<1>5. R = pB - aB
  BY <1>3, <1>4
<1> QED BY <1>3, <1>5 DEF R, aB, pB, r

LEMMA NoBytes == ASSUME NEW p \in Nat PROVE Bytes(p, p) = <<>>
<1>1. Bytes(p, p) \in Seq(p .. p - 1) /\ Len(Bytes(p, p)) = 0
  <2>1. p - p = 0 /\ p <= p
    OBVIOUS
  <2> QED BY <2>1, StretchOfBytes
<1> DEFINE x == Bytes(p, p)
<1> HIDE DEF x
<1>2. Len(x) = 0 => x = <<>>
  BY <1>1, EmptySeq DEF x
<1> QED BY <1>1, <1>2 DEF x

\* Stretches of the file, put together and cut.
LEMMA BytesConcat ==
  ASSUME NEW a \in Nat, NEW p \in Nat, NEW q \in Nat, a <= p, p <= q
  PROVE  Bytes(a, p) \o Bytes(p, q) = Bytes(a, q)
<1> DEFINE x == Bytes(a, p)
           y == Bytes(p, q)
<1>1. /\ x \in Seq(a .. p - 1) /\ Len(x) = p - a /\ \A i \in 1 .. p - a : x[i] = a + i - 1
  BY StretchOfBytes
<1>2. /\ y \in Seq(p .. q - 1) /\ Len(y) = q - p /\ \A i \in 1 .. q - p : y[i] = p + i - 1
  BY StretchOfBytes
<1> HIDE DEF x, y
<1>3. x \in Seq(Nat) /\ y \in Seq(Nat)
  <2>1. x \in [1 .. p - a -> a .. p - 1] /\ y \in [1 .. q - p -> p .. q - 1]
    <3>1. x \in [1 .. p - a -> a .. p - 1]
      BY <1>1
    <3>2. y \in [1 .. q - p -> p .. q - 1]
      BY <1>2
    <3> QED BY <3>1, <3>2
  <2>2. a .. p - 1 \subseteq Nat /\ p .. q - 1 \subseteq Nat /\ p - a \in Nat /\ q - p \in Nat
    OBVIOUS
  <2>3. x \in [1 .. p - a -> Nat] /\ y \in [1 .. q - p -> Nat]
    BY <2>1, <2>2
  <2> QED BY <2>2, <2>3
<1>4. /\ x \o y \in Seq(Nat) /\ Len(x \o y) = q - a
      /\ \A i \in 1 .. q - a : (x \o y)[i] = a + i - 1
  <2>1. /\ x \o y \in Seq(Nat) /\ Len(x \o y) = Len(x) + Len(y)
        /\ \A i \in 1 .. Len(x) + Len(y) : (x \o y)[i] = IF i <= Len(x) THEN x[i] ELSE y[i - Len(x)]
    BY <1>3, ConcatProperties
  <2>2. Len(x) + Len(y) = q - a
    BY <1>1, <1>2
  <2>3. ASSUME NEW i \in 1 .. q - a PROVE (x \o y)[i] = a + i - 1
    <3>1. CASE i <= p - a
      BY <1>1, <1>2, <2>1, <2>2, <3>1
    <3>2. CASE ~(i <= p - a)
      <4>1. i - (p - a) \in 1 .. q - p /\ p + (i - (p - a)) - 1 = a + i - 1
        BY <3>2
      <4>2. (x \o y)[i] = y[i - (p - a)]
        BY <1>1, <2>1, <2>2, <3>2
      <4> QED BY <1>2, <4>1, <4>2
    <3> QED BY <3>1, <3>2
  <2> QED BY <2>1, <2>2, <2>3
<1> DEFINE z == x \o y
<1>5. z = [i \in 1 .. q - a |-> z[i]]
  <2>1. z \in Seq(Nat) /\ Len(z) = q - a
    BY <1>4
  <2> HIDE DEF z
  <2> QED BY <2>1
<1> HIDE DEF z
<1>6. z = Bytes(a, q)
  BY <1>4, <1>5 DEF Bytes, z
<1> QED BY <1>6 DEF x, y, z

LEMMA BytesCut ==
  ASSUME NEW a \in Nat, NEW q \in Nat, NEW i \in 0 .. q - a, a <= q
  PROVE  SubSeq(Bytes(a, q), i + 1, Len(Bytes(a, q))) = Bytes(a + i, q)
<1> DEFINE x == Bytes(a, q)
<1>1. /\ Len(x) = q - a /\ \A j \in 1 .. q - a : x[j] = a + j - 1
  BY StretchOfBytes
<1> HIDE DEF x
<1>2. i + 1 \in Nat /\ q - a \in Nat /\ i + 1 <= (q - a) + 1
  OBVIOUS
<1>3. SubSeq(x, i + 1, q - a) = [j \in 1 .. (q - a) - (i + 1) + 1 |-> x[i + 1 + j - 1]]
  BY <1>2, Stretch
<1>4. (q - a) - (i + 1) + 1 = q - (a + i)
  OBVIOUS
<1>5. ASSUME NEW j \in 1 .. q - (a + i) PROVE x[i + 1 + j - 1] = (a + i) + j - 1
  <2>1. i + 1 + j - 1 \in 1 .. q - a /\ a + (i + 1 + j - 1) - 1 = (a + i) + j - 1
    OBVIOUS
  <2> QED BY <1>1, <2>1
<1>6. SubSeq(x, i + 1, q - a) = Bytes(a + i, q)
  BY <1>3, <1>4, <1>5 DEF Bytes
<1> QED BY <1>1, <1>6 DEF x

\* Whatever bytes a buffer holds, a scan of it finds a finite set of its bits.
LEMMA BufferOfData ==
  ASSUME NEW file, WellFormed(file), NEW S, NEW data \in Seq(S)
  PROVE  BufferType(Buffer(file, data))
<1> DEFINE buf == Buffer(file, data)
           F(k) == file.blocks[k].first
<1>1. buf.bytes = Len(data) /\ Len(data) \in Nat /\ TotalBits(buf) \in Nat
  <2>1. Len(data) \in Nat /\ buf.bytes = Len(data)
    BY DEF Buffer
  <2> QED BY <2>1, Widths, Products DEF TotalBits
<1>2. ASSUME NEW m \in Nat PROVE Occurrences(data, m) \subseteq Nat
  <2>1. m % ByteBits \in Nat
    BY BitsAndBytes
  <2> DEFINE r == m % ByteBits
  <2> HIDE DEF r
  <2>2. ASSUME NEW i \in DOMAIN data PROVE (i - 1) * ByteBits + r \in Nat
    <3> DEFINE j == i - 1
    <3>1. j \in Nat
      OBVIOUS
    <3> HIDE DEF j
    <3>2. j * ByteBits \in Nat
      BY <3>1, Widths, Products
    <3>3. j * ByteBits + r \in Nat
      BY <2>1, <3>2 DEF r
    <3> QED BY <3>3 DEF j
  <2> DEFINE hits == {j \in DOMAIN data : /\ data[j] = m \div ByteBits
                                         /\ data[RunEnd(data, j)] >= (m + MagicBits - 1) \div ByteBits}
  <2>3. Occurrences(data, m) = {(i - 1) * ByteBits + r : i \in hits} /\ hits \subseteq DOMAIN data
    BY DEF Occurrences, r
  <2> HIDE DEF hits
  <2> QED BY <2>2, <2>3
<1>3. /\ \A k \in DOMAIN file.blocks : F(k) \in Nat
      /\ \A m \in file.fakes : m \in Nat
  BY BlocksType DEF WellFormed
<1>4. buf.marks \in SUBSET Nat
  <2>1. buf.marks = (UNION {Occurrences(data, F(k)) : k \in DOMAIN file.blocks})
                      \cup (UNION {Occurrences(data, m) : m \in file.fakes})
    BY DEF Buffer
  <2> HIDE DEF buf, F
  <2> QED BY <1>2, <1>3, <2>1
<1> QED BY <1>1, <1>4 DEF BufferType

=============================================================================
