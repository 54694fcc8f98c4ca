------------------------ MODULE StreamingReadProofs ------------------------
(***************************************************************************)
(* StreamingBz2Read, for chunks, blocks and files of every size: its types *)
(* and, as long as no call failed and no magic occurs by coincidence, what *)
(* comp_buf holds between two calls and what the caller has received.      *)
(*                                                                         *)
(* Both rest on StreamInv: some number d of blocks is decoded, comp_buf is *)
(* the stretch of the file from a byte on that the first d magics are      *)
(* in front of and no other, and out_buf and delivered are stretches of    *)
(* the output that meet.                                                   *)
(***************************************************************************)
EXTENDS StreamingRead, ScanLemmas

-----------------------------------------------------------------------------
(* Types                                                                   *)

\* What a fill finds in data, as a set.
FoundIn(data) == FindAllBlocks(Buffer(input, data))

LEMMA BoundariesType ==
  ASSUME input \in Inputs, NEW S, NEW data \in Seq(S), NEW b \in Boundaries(data)
  PROVE  b \in Seq(Nat) /\ Len(b) \in Nat /\ DOMAIN b = 1 .. Len(b) /\ b = Sorted(FoundIn(data))
<1> DEFINE T == FoundIn(data)
           buf == Buffer(input, data)
           N == TotalBits(buf)
<1>1. b = Sorted(T)
  BY DEF Boundaries, FoundIn
<1>2. BufferType(buf) /\ T \subseteq InBuffer(buf)
  BY BufferOfData, FindAll, FilesAssumption DEF FoundIn
<1>3. T \subseteq 0 .. N - 1 /\ N \in Nat
  BY <1>2 DEF InBuffer, BufferType
<1>4. IsFiniteSet(T) /\ T \subseteq Nat
  <2> HIDE DEF T, N
  <2>1. 0 \in Int /\ N - 1 \in Int
    BY <1>3
  <2>2. IsFiniteSet(0 .. N - 1)
    BY <2>1, FS_Interval
  <2>3. IsFiniteSet(T)
    BY <1>3, <2>2, FS_Subset
  <2>4. T \subseteq Nat
    BY <1>3
  <2> QED BY <2>3, <2>4
<1> HIDE DEF T
<1>5. Cardinality(T) \in Nat /\ Sorted(T) \in [1 .. Cardinality(T) -> T]
  <2>1. T \in SUBSET Int
    BY <1>4
  <2> QED BY <1>4, <2>1, SortedAscends
<1> DEFINE c == Cardinality(T)
<1> HIDE DEF c
<1>6. c \in Nat /\ b \in [1 .. c -> Nat]
  BY <1>1, <1>4, <1>5 DEF c
<1> QED BY <1>1, <1>6 DEF T

\* The bytes a fill adds.
LEMMA ReadType ==
  ASSUME input \in Inputs, pos \in 0 .. input.size, eof \in BOOLEAN
  PROVE  /\ ReadLen \in 0 .. ChunkSize /\ pos + ReadLen \in pos .. input.size
         /\ input.size \in Nat /\ Eof \in BOOLEAN
         /\ ~ Eof => ~ eof /\ ReadLen = ChunkSize
         /\ Eof /\ ~ eof => pos + ReadLen = input.size
<1>1. input.size \in Nat /\ ChunkSize \in Nat \ {0}
  BY FilesAssumption, StreamingAssumption DEF WellFormed
<1>2. input.size - pos \in Nat
  BY <1>1
<1>3. Min({ChunkSize, input.size - pos}) = IF ChunkSize <= input.size - pos THEN ChunkSize ELSE input.size - pos
  BY <1>1, <1>2, MinOfTwo
<1>4. ReadLen = IF eof THEN 0 ELSE IF ChunkSize <= input.size - pos THEN ChunkSize ELSE input.size - pos
  BY <1>3 DEF ReadLen
<1> HIDE DEF ReadLen
<1>5. Eof <=> ReadLen < ChunkSize
  BY DEF Eof
<1>6. ReadLen \in 0 .. ChunkSize /\ pos + ReadLen \in pos .. input.size
  BY <1>1, <1>2, <1>4
<1>7. ~ Eof => ~ eof /\ ReadLen = ChunkSize
  BY <1>1, <1>4, <1>5, <1>6
<1>8. Eof /\ ~ eof => pos + ReadLen = input.size
  BY <1>1, <1>2, <1>4, <1>5
<1> QED BY <1>1, <1>5, <1>6, <1>7, <1>8 DEF Eof

ByteSet == {Junk} \cup 0 .. input.size - 1

LEMMA StretchBytes ==
  ASSUME NEW a \in Nat, NEW b \in Nat, a <= b, b <= input.size, input.size \in Nat
  PROVE  Bytes(a, b) \in Seq(ByteSet)
<1>1. Bytes(a, b) \in Seq(a .. b - 1)
  BY StretchOfBytes
<1>2. a .. b - 1 \subseteq ByteSet
  BY DEF ByteSet
<1> DEFINE x == Bytes(a, b)
<1> HIDE DEF x
<1>3. Len(x) \in Nat /\ x \in [1 .. Len(x) -> a .. b - 1]
  BY <1>1 DEF x
<1>4. x \in [1 .. Len(x) -> ByteSet]
  BY <1>2, <1>3
<1> QED BY <1>3, <1>4 DEF x

LEMMA RefillType ==
  ASSUME TypeOK, NEW data \in Refills
  PROVE  data \in Seq(ByteSet)
<1>1. Bytes(pos, pos + ReadLen) \in Seq(ByteSet)
  BY ReadType, StretchBytes DEF TypeOK
<1>2. comp \in Seq(ByteSet) /\ data = comp \o Bytes(pos, pos + ReadLen)
  BY DEF TypeOK, Refills, ByteSet
<1> QED BY <1>1, <1>2, ConcatProperties

LEMMA BlocksAreNumbers ==
  ASSUME input \in Inputs
  PROVE  Blocks = 1 .. Len(input.blocks) /\ Len(input.blocks) \in Nat
         /\ \A b \in Blocks : First(b) \in Nat
BY FilesAssumption, BlocksType DEF Blocks, First

\* What one decoded block gives.
LEMMA DecodedType ==
  ASSUME input \in Inputs, NEW data, NEW s
  PROVE  Decoded(BlockAt(input, data, s)) \in Seq(Pieces)
<1> DEFINE hit == BlockAt(input, data, s)
<1>1. hit \subseteq Blocks /\ Blocks \subseteq Nat
  BY BlocksAreNumbers DEF BlockAt, Blocks
<1>2. Units \in Nat \ {0}
  BY StreamingAssumption
<1>3. <<Rubbish>> \in Seq(Pieces)
  <2>1. Rubbish \in Pieces
    BY <1>2 DEF Rubbish, Pieces
  <2> QED BY <2>1
<1>4. \A c \in Blocks : OutputOf(c) \in Seq(Pieces)
  <2> SUFFICES ASSUME NEW c \in Blocks PROVE OutputOf(c) \in Seq(Pieces)
    OBVIOUS
  <2>1. \A u \in 1 .. Units : <<c, u>> \in Pieces
    BY DEF Pieces
  <2>2. [u \in 1 .. Units |-> <<c, u>>] \in [1 .. Units -> Pieces]
    BY <2>1
  <2>3. OutputOf(c) \in [1 .. Units -> Pieces]
    BY <2>2 DEF OutputOf
  <2> QED BY <1>2, <2>3
<1> HIDE DEF hit
<1>5. hit # {} => Min(hit) \in Blocks
  BY <1>1, MinOfNats
<1>6. Decoded(hit) \in Seq(Pieces)
  BY <1>3, <1>4, <1>5 DEF Decoded
<1> QED BY <1>6 DEF hit

LEMMA OutputType ==
  ASSUME input \in Inputs, NEW data, NEW b, NEW count \in Nat, NEW k \in 0 .. count,
         NEW hits \in {BlocksAt(data, b, count)}
  PROVE  FlattenSeq([i \in 1 .. k |-> Decoded(hits[i])]) \in Seq(Pieces)
<1> DEFINE g == [i \in 1 .. k |-> Decoded(hits[i])]
<1>1. \A i \in 1 .. k : g[i] \in Seq(Pieces)
  <2> SUFFICES ASSUME NEW i \in 1 .. k PROVE Decoded(hits[i]) \in Seq(Pieces)
    OBVIOUS
  <2>1. hits[i] = BlockAt(input, data, b[i])
    BY DEF BlocksAt
  <2> QED BY <2>1, DecodedType
<1>2. g = [i \in 1 .. k |-> g[i]] /\ k \in Nat
  OBVIOUS
<1> HIDE DEF g
<1>3. g \in [1 .. k -> Seq(Pieces)]
  BY <1>1, <1>2
<1>4. FlattenSeq(g) \in Seq(Pieces)
  BY <1>2, <1>3, FlatType
<1> QED BY <1>4 DEF g

LEMMA DrainedType ==
  ASSUME NEW S, NEW data \in Seq(S), NEW b \in Seq(Nat), NEW count \in 0 .. Len(b)
  PROVE  Drained(data, b, count) \in Seq(S)
<1>1. CASE count < Len(b)
  <2> DEFINE i == b[count + 1] \div ByteBits + 1
  <2>1. i \in Nat \ {0} /\ Len(data) \in Nat
    <3>1. b[count + 1] \in Nat
      BY <1>1
    <3>2. b[count + 1] \div ByteBits \in Nat
      BY <3>1, BitsAndBytes
    <3> QED BY <3>2
  <2>2. Drained(data, b, count) = SubSeq(data, i, Len(data))
    BY <1>1 DEF Drained
  <2> HIDE DEF i
  <2>3. SubSeq(data, i, Len(data)) \in Seq(S)
    BY <2>1, SubSeqProperties
  <2> QED BY <2>2, <2>3
<1>2. CASE ~(count < Len(b))
  BY <1>2 DEF Drained
<1> QED BY <1>1, <1>2

LEMMA DeliverType ==
  ASSUME NEW S, NEW units \in Seq(S), NEW from \in 0 .. Len(units), NEW k \in Nat \ {0},
         delivered \in Seq(S), Deliver(units, from, k)
  PROVE  delivered' \in Seq(S) /\ outPos' \in 0 .. Len(units) /\ reply' \in {"bytes", "zero"}
<1> DEFINE r == Len(units) - from
           m == Min({k, r})
<1>1. r \in Nat /\ Len(units) \in Nat
  OBVIOUS
<1>2. m = IF k <= r THEN k ELSE r
  BY <1>1, MinOfTwo
<1>3. /\ delivered' = delivered \o SubSeq(units, from + 1, from + m)
      /\ outPos' = from + m /\ reply' \in {"bytes", "zero"}
  BY DEF Deliver
<1> HIDE DEF m
<1>4. from + m \in 0 .. Len(units) /\ m \in Nat
  BY <1>1, <1>2
<1>5. SubSeq(units, from + 1, from + m) \in Seq(S)
  <2>1. \A i \in from + 1 .. from + m : units[i] \in S
    BY <1>4
  <2> QED BY <1>4, <2>1, SubSeqProperties
<1>6. delivered' \in Seq(S)
  BY <1>3, <1>5, ConcatProperties
<1> QED BY <1>3, <1>4, <1>6

LEMMA TypeInit == Init => TypeOK
<1> SUFFICES ASSUME Init PROVE TypeOK
  OBVIOUS
<1>1. input.size \in Nat /\ HeaderSize \in Nat /\ HeaderSize <= input.size /\ input \in Inputs
  BY FilesAssumption, StreamingAssumption DEF Init, WellFormed
<1>2. comp \in Seq(ByteSet)
  BY <1>1, StretchBytes DEF Init
<1>3. failures \in 0 .. Retries + 1
  BY StreamingAssumption DEF Init
<1>4. /\ out \in Seq(Pieces) /\ delivered \in Seq(Pieces) /\ outPos \in 0 .. Len(out)
      /\ eof \in BOOLEAN /\ reply = "none"
  <2>1. out = <<>> /\ delivered = <<>> /\ outPos = 0 /\ eof = FALSE /\ reply = "none"
    BY DEF Init
  <2>2. <<>> \in Seq(Pieces) /\ Len(<<>>) = 0
    OBVIOUS
  <2>3. out \in Seq(Pieces) /\ delivered \in Seq(Pieces)
    BY <2>1, <2>2
  <2>4. outPos \in 0 .. Len(out)
    BY <2>1, <2>2
  <2> QED BY <2>1, <2>3, <2>4
<1>5. pos \in 0 .. input.size
  BY <1>1 DEF Init
<1> QED BY <1>1, <1>2, <1>3, <1>4, <1>5 DEF TypeOK, ByteSet

LEMMA TypeServe == ASSUME TypeOK, NEW k \in BufSizes, ServeBuffered(k) PROVE TypeOK'
<1>1. k \in Nat \ {0}
  BY StreamingAssumption
<1>2. /\ Deliver(out, outPos, k) /\ UNCHANGED <<input, pos, comp, eof, out, failures>>
      /\ Pieces' = Pieces
  BY DEF ServeBuffered, Pieces, Blocks
<1>3. delivered' \in Seq(Pieces) /\ outPos' \in 0 .. Len(out) /\ reply' \in {"bytes", "zero"}
  BY <1>1, <1>2, DeliverType DEF TypeOK
<1> QED BY <1>2, <1>3 DEF TypeOK

LEMMA FailuresCount ==
  ASSUME failures \in 0 .. Retries + 1, Calls PROVE failures + 1 \in 0 .. Retries + 1
BY StreamingAssumption DEF Calls

LEMMA TypeFails == ASSUME TypeOK, NEW e \in ErrorsAfter, SourceFails(e) PROVE TypeOK'
<1>1. e \in Nat /\ e <= input.size - pos /\ ChunkSize \in Nat /\ input.size \in Nat /\ pos \in Nat
      /\ e < ChunkSize
  <2>1. ChunkSize \in Nat /\ e \in 0 .. ChunkSize - 1
    BY StreamingAssumption
  <2>2. input.size \in Nat /\ pos \in 0 .. input.size
    BY FilesAssumption DEF TypeOK, WellFormed
  <2>3. e <= input.size - pos
    BY DEF SourceFails
  <2> QED BY <2>1, <2>2, <2>3
<1>2. pos + e \in 0 .. input.size /\ pos <= pos + e /\ pos + e <= input.size /\ pos + e \in Nat
  BY <1>1
<1>3. comp \in Seq(ByteSet) /\ Bytes(pos, pos + e) \in Seq(ByteSet)
  BY <1>1, <1>2, StretchBytes DEF TypeOK, ByteSet
<1> DEFINE rest == [i \in 1 .. ChunkSize - e |-> Junk]
<1>4. rest \in Seq(ByteSet)
  <2>1. rest \in [1 .. ChunkSize - e -> ByteSet] /\ ChunkSize - e \in Nat
    BY <1>1 DEF ByteSet
  <2> QED BY <2>1
<1>5. comp' = comp \o Bytes(pos, pos + e) \o rest
  BY DEF SourceFails
<1> HIDE DEF rest
<1>6. comp' \in Seq(ByteSet)
  BY <1>3, <1>4, <1>5, ConcatProperties
<1>7. failures' \in 0 .. Retries + 1 /\ reply' = "error" /\ pos' = pos + e
      /\ UNCHANGED <<input, delivered, eof, out, outPos>>
  BY FailuresCount DEF TypeOK, SourceFails, Fills, Error
<1> QED BY <1>2, <1>6, <1>7 DEF TypeOK, ByteSet, Pieces, Blocks

LEMMA TypeExhausted == ASSUME TypeOK, ReadExhausted PROVE TypeOK'
<1>1. out' = <<>> /\ outPos' = 0 /\ reply' = "zero"
      /\ UNCHANGED <<input, pos, comp, eof, delivered, failures>>
  BY DEF ReadExhausted
<1> QED BY <1>1 DEF TypeOK, Pieces, Blocks

LEMMA TypeTooFew == ASSUME TypeOK, TooFew PROVE TypeOK'
<1>1. /\ pos' = pos + ReadLen /\ eof' = Eof /\ reply' = "zero"
      /\ UNCHANGED <<input, delivered, failures>>
  BY DEF TooFew
<1>2. pos' \in 0 .. input.size /\ eof' \in BOOLEAN
  BY <1>1, ReadType DEF TypeOK
<1>3. PICK data \in Refills : \/ comp' = <<>> /\ out' = <<>> /\ outPos' = 0
                              \/ comp' = data /\ UNCHANGED <<out, outPos>>
  BY DEF TooFew
<1>4. data \in Seq(ByteSet) /\ <<>> \in Seq(ByteSet)
  BY RefillType
<1>5. comp' \in Seq(ByteSet)
  BY <1>3, <1>4
<1>6. out' \in Seq(Pieces) /\ outPos' \in 0 .. Len(out')
  <2>1. CASE out' = <<>> /\ outPos' = 0
    BY <2>1
  <2>2. CASE UNCHANGED <<out, outPos>>
    BY <2>2 DEF TypeOK
  <2> QED BY <1>3, <2>1, <2>2
<1> QED BY <1>1, <1>2, <1>5, <1>6 DEF TypeOK, ByteSet, Pieces, Blocks

LEMMA TypeFill == ASSUME TypeOK, NEW k \in BufSizes, FillAndServe(k) PROVE TypeOK'
<1>1. /\ pos' = pos + ReadLen /\ eof' = Eof
      /\ k \in Nat \ {0} /\ input \in Inputs /\ Calls
  BY StreamingAssumption DEF FillAndServe, TypeOK, Fills
<1>2. pos' \in 0 .. input.size /\ eof' \in BOOLEAN
  BY <1>1, ReadType DEF TypeOK
<1>3. PICK data \in Refills : \E b \in Boundaries(data) :
       LET count == DecodeCount(b) IN
       /\ count > 0
       /\ \E hits \in {BlocksAt(data, b, count)} :
          \E failed \in SUBSET {i \in 1 .. count : hits[i] = {}} :
            \/ /\ failed = {}
               /\ out' = FlattenSeq([i \in 1 .. count |-> Decoded(hits[i])])
               /\ comp' = Drained(data, b, count)
               /\ Deliver(out', 0, k)
               /\ UNCHANGED <<input, failures>>
            \/ /\ failed # {}
               /\ out' = FlattenSeq([i \in 1 .. Min(failed) - 1 |-> Decoded(hits[i])])
               /\ outPos' = 0
               /\ comp' = data
               /\ Error
  BY DEF FillAndServe
<1>4. PICK b \in Boundaries(data) :
       /\ DecodeCount(b) > 0
       /\ \E hits \in {BlocksAt(data, b, DecodeCount(b))} :
          \E failed \in SUBSET {i \in 1 .. DecodeCount(b) : hits[i] = {}} :
            \/ /\ failed = {}
               /\ out' = FlattenSeq([i \in 1 .. DecodeCount(b) |-> Decoded(hits[i])])
               /\ comp' = Drained(data, b, DecodeCount(b))
               /\ Deliver(out', 0, k)
               /\ UNCHANGED <<input, failures>>
            \/ /\ failed # {}
               /\ out' = FlattenSeq([i \in 1 .. Min(failed) - 1 |-> Decoded(hits[i])])
               /\ outPos' = 0
               /\ comp' = data
               /\ Error
  BY <1>3
<1> DEFINE count == DecodeCount(b)
           hits == BlocksAt(data, b, count)
<1>5. data \in Seq(ByteSet) /\ b \in Seq(Nat) /\ Len(b) \in Nat
  BY <1>1, RefillType, BoundariesType
<1>6. count \in 1 .. Len(b)
  BY <1>4, <1>5 DEF DecodeCount
<1>7. PICK failed \in SUBSET {i \in 1 .. count : hits[i] = {}} :
            \/ /\ failed = {}
               /\ out' = FlattenSeq([i \in 1 .. count |-> Decoded(hits[i])])
               /\ comp' = Drained(data, b, count)
               /\ Deliver(out', 0, k)
               /\ UNCHANGED <<input, failures>>
            \/ /\ failed # {}
               /\ out' = FlattenSeq([i \in 1 .. Min(failed) - 1 |-> Decoded(hits[i])])
               /\ outPos' = 0
               /\ comp' = data
               /\ Error
  BY <1>4
<1>8. hits \in {BlocksAt(data, b, count)}
  OBVIOUS
<1> HIDE DEF count, hits
<1>9. count \in Nat /\ count \in 0 .. Len(b) /\ count \in 0 .. count
  BY <1>5, <1>6
<1>10. CASE failed = {}
  <2>1. /\ out' = FlattenSeq([i \in 1 .. count |-> Decoded(hits[i])])
        /\ comp' = Drained(data, b, count)
        /\ Deliver(out', 0, k)
        /\ UNCHANGED <<input, failures>>
    BY <1>7, <1>10
  <2>2. out' \in Seq(Pieces)
    BY <1>1, <1>8, <1>9, <2>1, OutputType
  <2>3. comp' \in Seq(ByteSet)
    BY <1>5, <1>9, <2>1, DrainedType
  <2> DEFINE units == out'
  <2>4. 0 \in 0 .. Len(units) /\ units \in Seq(Pieces) /\ delivered \in Seq(Pieces)
    BY <2>2 DEF TypeOK
  <2>5. delivered' \in Seq(Pieces) /\ outPos' \in 0 .. Len(units) /\ reply' \in {"bytes", "zero"}
    <3>1. Deliver(units, 0, k)
      BY <2>1
    <3> HIDE DEF units
    <3> QED BY <1>1, <2>4, <3>1, DeliverType
  <2> QED BY <1>2, <2>1, <2>2, <2>3, <2>5 DEF TypeOK, ByteSet, Pieces, Blocks
<1>11. CASE failed # {}
  <2>1. /\ out' = FlattenSeq([i \in 1 .. Min(failed) - 1 |-> Decoded(hits[i])])
        /\ outPos' = 0 /\ comp' = data /\ Error
    BY <1>7, <1>11
  <2>2. Min(failed) - 1 \in 0 .. count
    <3>1. failed \in SUBSET Nat /\ failed \subseteq 1 .. count
      BY <1>7, <1>9
    <3>2. Min(failed) \in failed
      BY <1>11, <3>1, MinOfNats
    <3> DEFINE m == Min(failed)
    <3>3. m \in 1 .. count
      BY <3>1, <3>2
    <3> HIDE DEF m
    <3>4. m - 1 \in 0 .. count
      BY <1>9, <3>3
    <3> QED BY <3>4 DEF m
  <2>3. out' \in Seq(Pieces)
    BY <1>1, <1>8, <1>9, <2>1, <2>2, OutputType
  <2>4. comp' \in Seq(ByteSet)
    BY <1>5, <2>1
  <2>5. failures' \in 0 .. Retries + 1 /\ reply' = "error" /\ UNCHANGED <<input, delivered>>
    BY <1>1, <2>1, FailuresCount DEF TypeOK, Error
  <2>6. outPos' \in 0 .. Len(out')
    BY <2>1, <2>3
  <2> QED BY <1>2, <2>3, <2>4, <2>5, <2>6 DEF TypeOK, ByteSet, Pieces, Blocks
<1> QED BY <1>10, <1>11

LEMMA TypeStep == TypeOK /\ [Next]_vars => TypeOK'
<1> SUFFICES ASSUME TypeOK, [Next]_vars PROVE TypeOK'
  OBVIOUS
<1>1. CASE Read
  BY <1>1, TypeServe, TypeFill, TypeExhausted, TypeTooFew, TypeFails DEF Read
<1>2. CASE UNCHANGED vars
  BY <1>2 DEF vars, TypeOK, Pieces, Blocks
<1> QED BY <1>1, <1>2 DEF Next, GivenUp

\* Every variable of StreamingBz2Read has its type, whatever the file holds,
\* wherever the source fails and however often the caller tries again.
THEOREM StreamTypeCorrect == Spec => []TypeOK
<1>1. Init => TypeOK
  BY TypeInit
<1> QED BY <1>1, TypeStep, PTL DEF Spec

-----------------------------------------------------------------------------
(* The output                                                              *)

Total == Len(input.blocks)

\* The whole output, block by block.
LEMMA WholeIs ==
  ASSUME input \in Inputs
  PROVE  /\ Whole \in Seq(Pieces) /\ Total * Units \in Nat /\ Len(Whole) = Total * Units
         /\ \A c \in Blocks : \A u \in 1 .. Units : Whole[(c - 1) * Units + u] = <<c, u>>
<1> DEFINE g == [c \in Blocks |-> OutputOf(c)]
<1>1. Units \in Nat \ {0} /\ Blocks = 1 .. Total /\ Total \in Nat
  BY StreamingAssumption, BlocksAreNumbers DEF Total
<1>2. \A c \in Blocks : OutputOf(c) \in [1 .. Units -> Pieces] /\ \A u \in 1 .. Units : OutputOf(c)[u] = <<c, u>>
  <2> SUFFICES ASSUME NEW c \in Blocks
               PROVE  OutputOf(c) \in [1 .. Units -> Pieces] /\ \A u \in 1 .. Units : OutputOf(c)[u] = <<c, u>>
    OBVIOUS
  <2>1. \A u \in 1 .. Units : <<c, u>> \in Pieces
    BY DEF Pieces
  <2>2. OutputOf(c) = [u \in 1 .. Units |-> <<c, u>>]
    BY DEF OutputOf
  <2> QED BY <2>1, <2>2
<1>3. g \in [1 .. Total -> [1 .. Units -> Pieces]]
  BY <1>1, <1>2
<1>4. Whole = FlattenSeq(g)
  BY DEF Whole
<1>5. \A c \in Blocks : g[c] = OutputOf(c)
  OBVIOUS
<1> HIDE DEF g
<1>6. FlattenSeq(g) \in Seq(Pieces) /\ InRows(FlattenSeq(g), g, Total, Units)
  BY <1>1, <1>3, FlatUniform
<1>7. \A c \in Blocks : \A u \in 1 .. Units : Whole[(c - 1) * Units + u] = <<c, u>>
  <2> SUFFICES ASSUME NEW c \in Blocks, NEW u \in 1 .. Units
               PROVE  Whole[(c - 1) * Units + u] = <<c, u>>
    OBVIOUS
  <2>1. FlattenSeq(g)[(c - 1) * Units + u] = g[c][u]
    BY <1>1, <1>6 DEF InRows
  <2>2. g[c][u] = <<c, u>>
    BY <1>2, <1>5
  <2> QED BY <1>4, <2>1, <2>2
<1> QED BY <1>4, <1>6, <1>7 DEF InRows

\* The outputs of count blocks behind the first d are a stretch of it.
OutputsAre(flat, d, count) ==
  /\ d * Units \in Nat /\ count * Units \in Nat /\ (d + count) * Units = d * Units + count * Units
  /\ d * Units + count * Units <= Total * Units
  /\ flat = SubSeq(Whole, d * Units + 1, d * Units + count * Units)
  /\ Len(flat) = count * Units

LEMMA OutputStretch ==
  ASSUME input \in Inputs, NEW d \in Nat, NEW count \in Nat, d + count <= Total,
         NEW g, g = [i \in 1 .. count |-> OutputOf(d + i)]
  PROVE  OutputsAre(FlattenSeq(g), d, count)
<1> DEFINE D == d * Units
           C == count * Units
           flat == FlattenSeq(g)
<1>1. Units \in Nat \ {0} /\ Blocks = 1 .. Total /\ Total \in Nat
  BY StreamingAssumption, BlocksAreNumbers DEF Total
<1>2. D \in Nat /\ C \in Nat /\ (d + count) * Units = D + C
  <2>1. (d + count + 0) * Units = d * Units + count * Units + 0 * Units
    BY <1>1, Distributes
  <2>2. d * Units \in Nat /\ count * Units \in Nat /\ 0 * Units = 0 /\ d + count + 0 = d + count
    BY <1>1, Products
  <2> QED BY <2>1, <2>2
<1>3. D + C <= Total * Units
  <2>1. Units * (d + count) <= Units * Total
    BY <1>1, MulMono
  <2>2. Units * (d + count) = (d + count) * Units /\ Units * Total = Total * Units
    BY <1>1, Products
  <2> QED BY <1>2, <2>1, <2>2
<1>4. /\ flat \in Seq(Pieces) /\ Len(flat) = C
      /\ \A i \in 1 .. count : \A u \in 1 .. Units : flat[(i - 1) * Units + u] = <<d + i, u>>
  <2>1. \A i \in 1 .. count : /\ d + i \in Blocks
                              /\ g[i] = [u \in 1 .. Units |-> <<d + i, u>>]
    BY <1>1 DEF OutputOf
  <2>2. \A i \in 1 .. count : g[i] \in [1 .. Units -> Pieces] /\ \A u \in 1 .. Units : g[i][u] = <<d + i, u>>
    <3> SUFFICES ASSUME NEW i \in 1 .. count
                 PROVE  g[i] \in [1 .. Units -> Pieces] /\ \A u \in 1 .. Units : g[i][u] = <<d + i, u>>
      OBVIOUS
    <3>1. \A u \in 1 .. Units : <<d + i, u>> \in Pieces
      BY <2>1 DEF Pieces
    <3> QED BY <2>1, <3>1
  <2>3. g \in [1 .. count -> [1 .. Units -> Pieces]]
    BY <2>2
  <2>4. flat \in Seq(Pieces) /\ InRows(flat, g, count, Units)
    BY <1>1, <2>3, FlatUniform
  <2> QED BY <2>2, <2>4 DEF InRows
<1>5. SubSeq(Whole, D + 1, D + C) = [j \in 1 .. C |-> Whole[D + j]]
  <2> HIDE DEF D, C
  <2>1. SubSeq(Whole, D + 1, D + C) = [j \in 1 .. (D + C) - (D + 1) + 1 |-> Whole[D + 1 + j - 1]]
    BY <1>2, Stretch
  <2>2. (D + C) - (D + 1) + 1 = C /\ \A j \in 1 .. C : D + 1 + j - 1 = D + j
    BY <1>2
  <2> QED BY <2>1, <2>2
<1>6. ASSUME NEW j \in 1 .. C PROVE flat[j] = Whole[D + j]
  <2>1. PICK i \in 1 .. count, u \in 1 .. Units : j = (i - 1) * Units + u
    BY <1>1, Rows
  <2>2. flat[j] = <<d + i, u>>
    BY <1>4, <2>1
  <2>3. D + j = ((d + i) - 1) * Units + u
    <3> DEFINE x == i - 1
               X == x * Units
    <3>1. x \in Nat /\ (d + i) - 1 = d + x + 0
      OBVIOUS
    <3> HIDE DEF x
    <3>2. (d + x + 0) * Units = d * Units + x * Units + 0 * Units /\ x * Units \in Nat
      BY <1>1, <3>1, Distributes, Products
    <3>3. (d + x + 0) * Units = D + X /\ X \in Nat /\ j = X + u
      BY <1>1, <1>2, <2>1, <3>2 DEF x
    <3> HIDE DEF X, D
    <3>4. D + j = (D + X) + u
      BY <1>2, <3>3
    <3> QED BY <3>1, <3>3, <3>4
  <2>4. d + i \in Blocks
    BY <1>1
  <2>5. Whole[((d + i) - 1) * Units + u] = <<d + i, u>>
    BY <2>4, WholeIs
  <2> QED BY <2>2, <2>3, <2>5
<1>7. flat = SubSeq(Whole, D + 1, D + C)
  <2>1. flat = [j \in 1 .. C |-> flat[j]]
    <3> HIDE DEF flat, C
    <3> QED BY <1>4
  <2> HIDE DEF flat, C, D
  <2> QED BY <1>5, <1>6, <2>1
<1> QED BY <1>2, <1>3, <1>4, <1>7 DEF OutputsAre

-----------------------------------------------------------------------------
(* The invariant                                                           *)

\* Where d blocks are decoded, the caller has their output but for the rest of
\* out_buf ...
InPlace(d) ==
  /\ Len(out) <= d * Units
  /\ out = SubSeq(Whole, d * Units - Len(out) + 1, d * Units)
  /\ delivered = SubSeq(Whole, 1, d * Units - Len(out) + outPos)
\* ... comp_buf is the stretch of the file that begins behind their magics, at
\* byte a ...
Behind(d, a) == \A c \in Blocks : c <= d <=> First(c) < a * ByteBits
Held(d, a) == comp = Bytes(a, pos) /\ Behind(d, a)
\* ... there is no further block if the source is exhausted, and only then ...
AtEnd(d) ==
  IF eof THEN comp = <<>> /\ d = Total ELSE Blocks # {} => d < Total
\* ... and the next one begins in comp_buf, which holds little beyond it.
Ahead(d) ==
  Steady /\ ~ eof =>
    /\ First(d + 1) <= pos * ByteBits
    /\ (Len(comp) - 1) * ByteBits < Span(d + 1) + Window * ByteBits

Decoding(d, a) == InPlace(d) /\ Held(d, a) /\ AtEnd(d) /\ Ahead(d)
SomeDecoding == \E d \in 0 .. Total : \E a \in 0 .. pos : Decoding(d, a)
CleanInv == Clean => SomeDecoding
StreamInv == TypeOK /\ CleanInv

LEMMA FileType ==
  ASSUME TypeOK
  PROVE  /\ WellFormed(input) /\ input \in Inputs /\ input.size \in Nat
         /\ Total \in Nat /\ Blocks = 1 .. Total /\ DOMAIN input.blocks = 1 .. Total
         /\ \A c \in Blocks : First(c) \in Nat /\ input.blocks[c].end \in Nat
         /\ Units \in Nat \ {0} /\ ChunkSize \in Nat \ {0}
         /\ pos \in Nat /\ pos <= input.size
<1>1. WellFormed(input) /\ input \in Inputs
  BY FilesAssumption DEF TypeOK
<1>2. input.size \in Nat
  BY <1>1 DEF WellFormed
<1>3. /\ Total \in Nat /\ Blocks = 1 .. Total /\ DOMAIN input.blocks = 1 .. Total
      /\ \A c \in Blocks : First(c) \in Nat /\ input.blocks[c].end \in Nat
  BY <1>1, BlocksType DEF Total, Blocks, First
<1>4. Units \in Nat \ {0} /\ ChunkSize \in Nat \ {0}
  BY StreamingAssumption
<1>5. pos \in Nat /\ pos <= input.size
  BY <1>2 DEF TypeOK
<1> QED BY <1>1, <1>2, <1>3, <1>4, <1>5

-----------------------------------------------------------------------------
(* What a fill finds and decodes                                           *)

\* The byte the fill has read up to.
LEMMA ReadTo ==
  ASSUME TypeOK, ~ eof
  PROVE  \E p \in pos .. input.size : p = pos + ReadLen /\ p \in Nat /\ (Eof => p = input.size)
                                      /\ (~ Eof => p = pos + ChunkSize)
<1>1. input.size \in Nat /\ pos \in Nat /\ pos + ReadLen \in pos .. input.size
      /\ (Eof => pos + ReadLen = input.size) /\ (~ Eof => ReadLen = ChunkSize)
  BY ReadType, FileType DEF TypeOK
<1> QED BY <1>1

\* A scan of what a fill has read finds the blocks behind the first d, all of
\* them at the end of the file.
FillFinds(a, p, d, b, k) ==
  /\ b = [i \in 1 .. k |-> First(d + i) - a * ByteBits] /\ Len(b) = k
  /\ \A i \in 1 .. k : /\ d + i \in Blocks /\ First(d + i) >= a * ByteBits
                       /\ First(d + i) + MagicBits <= p * ByteBits
  /\ d + k + 1 \in Blocks => First(d + k + 1) + Window * ByteBits > p * ByteBits
  /\ Eof => d + k = Total

LEMMA FillFindsBlocks ==
  ASSUME TypeOK, Clean, NEW d \in 0 .. Total, NEW a \in Nat, NEW p \in Nat, a <= p,
         Eof => p = input.size, Behind(d, a), NEW b \in Boundaries(Bytes(a, p))
  PROVE  \E k \in 0 .. Total - d : FillFinds(a, p, d, b, k)
<1> DEFINE F(i) == First(i)
           aB == a * ByteBits
           pB == p * ByteBits
           W == Window * ByteBits
           found == FoundIn(Bytes(a, p))
<1>1. /\ WellFormed(input) /\ input \in Inputs /\ input.size \in Nat
      /\ Total \in Nat /\ Blocks = 1 .. Total /\ \A c \in Blocks : F(c) \in Nat
  BY FileType
<1>2. aB \in Nat /\ pB \in Nat /\ W \in Nat
  <2>1. ByteBits \in Nat
    BY Widths
  <2> QED BY <2>1, Widths, Products
<1>3. b = Sorted(found) /\ found = FindAllBlocks(Buffer(input, Bytes(a, p)))
  BY DEF Boundaries, FoundIn
<1>4. PICK k \in 0 .. Total - d : FindsBehind(input, a, p, d, k, found)
  <2>1. /\ input.fakes = {} /\ d \in 0 .. Len(input.blocks)
        /\ \A c \in DOMAIN input.blocks : c <= d <=> input.blocks[c].first < a * ByteBits
    BY DEF Clean, Total, Blocks, First, Behind
  <2> HIDE DEF found
  <2>2. \E k \in 0 .. Len(input.blocks) - d : FindsBehind(input, a, p, d, k, found)
    BY <1>1, <1>3, <2>1, FoundInStretch
  <2> QED BY <2>2 DEF Total
<1>5. k \in Nat /\ d \in Nat /\ d + k <= Total
  BY <1>1
<1>6. /\ b = [i \in 1 .. k |-> F(d + i) - aB]
      /\ \A i \in 1 .. k : F(d + i) + MagicBits <= pB
      /\ d + k + 1 \in Blocks => F(d + k + 1) + W > pB
  BY <1>3, <1>4 DEF FindsBehind, First, Blocks
<1>7. Len(b) = k
  <2> HIDE DEF F, aB
  <2>1. b \in [1 .. k -> {F(d + i) - aB : i \in 1 .. k}]
    BY <1>6
  <2> QED BY <1>5, <2>1
<1>8. \A i \in 1 .. k : d + i \in Blocks /\ F(d + i) >= aB
  <2> SUFFICES ASSUME NEW i \in 1 .. k PROVE d + i \in Blocks /\ F(d + i) >= aB
    OBVIOUS
  <2>1. d + i \in Blocks /\ ~(d + i <= d)
    BY <1>1, <1>5
  <2>2. ~(F(d + i) < aB) /\ F(d + i) \in Nat
    BY <1>1, <2>1 DEF Behind
  <2> HIDE DEF F, aB
  <2> QED BY <1>2, <2>1, <2>2
<1>9. Eof => d + k = Total
  <2> SUFFICES ASSUME Eof, d + k # Total PROVE FALSE
    OBVIOUS
  <2> DEFINE c == d + k + 1
             E == input.blocks[c].end
  <2>1. c \in Blocks
    BY <1>1, <1>5
  <2>2. F(c) + W > pB /\ F(c) \in Nat /\ E \in Nat
    BY <1>1, <1>6, <2>1, FileType
  <2>3. F(c) + W <= E
    BY <1>1, <2>1 DEF WellFormed, First, Blocks
  <2>4. E <= pB
    BY <2>1 DEF Clean
  <2> HIDE DEF c, E, F, W, pB
  <2> QED BY <1>2, <2>2, <2>3, <2>4
<1> QED BY <1>6, <1>7, <1>8, <1>9 DEF FillFinds

\* What is decoded are those blocks, and each is complete.
DecodesBlock(data, start, c) ==
  BlockAt(input, data, start) = {c} /\ c \in Blocks /\ Decoded({c}) = OutputOf(c)

LEMMA FillDecodes ==
  ASSUME TypeOK, Clean, NEW d \in 0 .. Total, NEW a \in Nat, NEW p \in Nat, a <= p,
         Eof => p = input.size, NEW b, NEW k \in Nat, FillFinds(a, p, d, b, k),
         NEW i \in 1 .. DecodeCount(b)
  PROVE  DecodesBlock(Bytes(a, p), b[i], d + i)
<1> DEFINE c == d + i
           F(j) == First(j)
           E(j) == input.blocks[j].end
           aB == a * ByteBits
           pB == p * ByteBits
<1>1. /\ WellFormed(input) /\ input \in Inputs
      /\ Total \in Nat /\ Blocks = 1 .. Total /\ \A j \in Blocks : F(j) \in Nat /\ E(j) \in Nat
      /\ Blocks = DOMAIN input.blocks
  BY FileType
<1>2. /\ b = [j \in 1 .. k |-> F(d + j) - aB] /\ Len(b) = k
      /\ \A j \in 1 .. k : /\ d + j \in Blocks /\ F(d + j) >= aB /\ F(d + j) + MagicBits <= pB
  BY DEF FillFinds
<1>3. i \in 1 .. k /\ (~ Eof => i + 1 \in 1 .. k)
  BY <1>2 DEF DecodeCount
<1>4. c \in Blocks /\ b[i] = F(c) - aB /\ F(c) >= aB /\ F(c) + MagicBits <= pB
  BY <1>2, <1>3
<1>5. aB \in Nat /\ pB \in Nat /\ (p - a) * ByteBits = pB - aB
  BY StretchBits
<1>6. MagicBits \in Nat \ {0} /\ Window * ByteBits \in Nat \ {0}
  BY Widths
<1>7. E(c) <= pB
  <2>1. CASE Eof
    BY <1>4, <2>1 DEF Clean
  <2>2. CASE ~ Eof
    <3>1. i + 1 \in 1 .. k /\ d + (i + 1) = c + 1
      BY <1>1, <1>3, <2>2
    <3>2. c + 1 \in Blocks /\ F(c + 1) + MagicBits <= pB
      BY <1>2, <3>1
    <3>3. E(c) <= F(c + 1)
      BY <1>1, <1>4, <3>2 DEF WellFormed, First
    <3>4. F(c + 1) \in Nat /\ E(c) \in Nat
      BY <1>1, <1>4, <3>2
    <3> HIDE DEF F, E, pB
    <3> QED BY <1>5, <1>6, <3>2, <3>3, <3>4
  <2> QED BY <2>1, <2>2
<1>8. BlockAt(input, Bytes(a, p), b[i]) = StandsAt(input, F(c), pB)
  <2> DEFINE s == b[i]
             n == (p - a) * ByteBits
  <2>1. F(c) \in Nat
    BY <1>1, <1>4
  <2>2. s = F(c) - aB /\ n = pB - aB
    BY <1>4, <1>5
  <2> HIDE DEF s, n, F, c, aB, pB
  <2>3. s \in Nat /\ s < n /\ s + aB = F(c)
    BY <1>4, <1>5, <1>6, <2>1, <2>2
  <2>4. BlockAt(input, Bytes(a, p), s) = StandsAt(input, s + a * ByteBits, p * ByteBits)
    BY <1>1, <2>3, BlockAtStretch DEF n
  <2>5. BlockAt(input, Bytes(a, p), s) = StandsAt(input, s + aB, pB)
    BY <2>4 DEF aB, pB
  <2> QED BY <2>3, <2>5 DEF s
<1>9. StandsAt(input, F(c), pB) = {c}
  <2>1. \A j \in Blocks : F(j) = F(c) => j = c
    <3>1. \A j, e \in Blocks : j < e => F(j) + Window * ByteBits <= F(e)
      BY <1>1, FirstsAscend DEF First
    <3> DEFINE W == Window * ByteBits
    <3>2. \A j, e \in Blocks : j < e => F(j) + W <= F(e)
      BY <3>1
    <3>3. W \in Nat \ {0} /\ \A j \in Blocks : F(j) \in Nat
      BY <1>1, <1>6
    <3>4. ASSUME NEW j \in Blocks, F(j) = F(c), j # c PROVE FALSE
      <4>1. j \in Nat /\ c \in Nat /\ F(j) \in Nat /\ F(c) \in Nat
        BY <1>1, <1>4
      <4>2. (j < c => F(j) + W <= F(c)) /\ (c < j => F(c) + W <= F(j))
        BY <1>4, <3>2
      <4> HIDE DEF W, F, c
      <4> QED BY <3>3, <3>4, <4>1, <4>2
    <3> QED BY <3>4
  <2>2. StandsAt(input, F(c), pB) = {j \in Blocks : F(j) = F(c) /\ E(j) <= pB}
    BY DEF StandsAt, First, Blocks
  <2> HIDE DEF F, E, pB, c
  <2> QED BY <1>4, <1>7, <2>1, <2>2
<1>10. Decoded({c}) = OutputOf(c)
  <2>1. c \in Nat
    BY <1>1, <1>4
  <2>2. Min({c}) = c
    <3> HIDE DEF c
    <3>1. {c} \in SUBSET Nat /\ {c} # {}
      BY <2>1
    <3>2. Min({c}) \in {c}
      BY <3>1, MinOfNats
    <3> QED BY <3>2
  <2> QED BY <2>2 DEF Decoded
<1> QED BY <1>4, <1>8, <1>9, <1>10 DEF DecodesBlock

LEMMA BitsOrdered ==
  ASSUME TypeOK, NEW c \in Blocks, NEW e \in Blocks, c < e
  PROVE  First(c) + Window * ByteBits <= First(e)
BY FileType, FirstsAscend DEF First, Blocks

\* At the end of the file there is nothing further.
LEMMA AllBehind == ASSUME TypeOK, Clean PROVE Behind(Total, input.size)
<1> SUFFICES ASSUME NEW c \in Blocks PROVE c <= Total /\ First(c) < input.size * ByteBits
  BY DEF Behind
<1>1. WellFormed(input) /\ c \in 1 .. Total /\ First(c) \in Nat /\ input.blocks[c].end \in Nat
      /\ input.size \in Nat
  BY FileType
<1> DEFINE E == input.blocks[c].end
           W == Window * ByteBits
           S == input.size * ByteBits
           f == First(c)
<1>2. f + W <= E /\ E <= S
  <2>1. f + W <= E
    BY <1>1 DEF WellFormed, First, Blocks
  <2>2. E <= S
    BY DEF Clean
  <2> QED BY <2>1, <2>2
<1>3. W \in Nat \ {0} /\ S \in Nat
  BY <1>1, Widths, StretchBits
<1>4. f \in Nat /\ E \in Nat
  BY <1>1
<1> HIDE DEF E, W, S, f
<1>5. f < S
  BY <1>2, <1>3, <1>4
<1> QED BY <1>1, <1>5 DEF f, S

\* What a fill keeps begins behind what it decoded, at the next block.
LEMMA FillKeeps ==
  ASSUME TypeOK, NEW d \in 0 .. Total, NEW a \in Nat, NEW p \in Nat, a <= p, p <= input.size,
         NEW b, NEW k \in Nat \ {0}, d + k <= Total, FillFinds(a, p, d, b, k)
  PROVE  \E a2 \in 0 .. p :
           /\ Drained(Bytes(a, p), b, k - 1) = Bytes(a2, p) /\ Behind(d + (k - 1), a2)
           /\ First(d + k) <= p * ByteBits
           /\ (Len(Bytes(a2, p)) - 1) * ByteBits < Span(d + k) + Window * ByteBits
<1> DEFINE c == d + k
           f == First(c)
           aB == a * ByteBits
           pB == p * ByteBits
           sB == input.size * ByteBits
           W == Window * ByteBits
           s == b[k]
           q == s \div ByteBits
           qB == q * ByteBits
           a2 == a + q
           a2B == a2 * ByteBits
<1>1. /\ Total \in Nat /\ Blocks = 1 .. Total /\ \A j \in Blocks : First(j) \in Nat
      /\ input.size \in Nat /\ d \in Nat
  BY FileType
<1>2. k \in 1 .. k /\ c \in Blocks /\ s = f - aB /\ f >= aB /\ f + MagicBits <= pB /\ Len(b) = k
  BY DEF FillFinds
<1>3. /\ aB \in Nat /\ pB \in Nat /\ sB \in Nat /\ W \in Nat /\ MagicBits \in Nat \ {0}
      /\ ByteBits \in Nat \ {0} /\ ByteBits <= W /\ f \in Nat
  <2>1. aB \in Nat /\ pB \in Nat /\ f \in Nat
    BY <1>1, <1>2, StretchBits
  <2>2. sB \in Nat
    BY <1>1, StretchBits
  <2>3. W = MagicBits + Stride * ByteBits /\ Stride * ByteBits \in Nat /\ ByteBits <= MagicBits
        /\ MagicBits \in Nat \ {0} /\ ByteBits \in Nat \ {0} /\ W \in Nat
    BY Widths, MagicIsBytes
  <2> DEFINE S == Stride * ByteBits
  <2>4. W = MagicBits + S /\ S \in Nat
    BY <2>3
  <2> HIDE DEF S, W
  <2>5. ByteBits <= W
    BY <2>3, <2>4
  <2> QED BY <2>1, <2>2, <2>3, <2>5
<1>4. s \in Nat /\ pB <= sB
  <2>1. s \in Nat
    <3> HIDE DEF s, f, aB
    <3> QED BY <1>2, <1>3
  <2>2. ByteBits * p <= ByteBits * input.size
    BY <1>1, <1>3, MulMono
  <2>3. ByteBits * p = pB /\ ByteBits * input.size = sB
    BY <1>1, <1>3, Products
  <2> QED BY <2>1, <2>2, <2>3
<1>5. /\ q \in Nat /\ qB \in Nat /\ a2 \in Nat /\ a2B = aB + qB
      /\ a2B <= f /\ f < a2B + ByteBits
  <2>1. q \in Nat /\ s % ByteBits \in 0 .. ByteBits - 1 /\ s = ByteBits * q + (s % ByteBits)
    <3> HIDE DEF s
    <3> QED BY <1>3, <1>4, Division
  <2> HIDE DEF q, s
  <2>2. ByteBits * q = qB /\ qB \in Nat /\ a2 \in Nat
    BY <1>3, <2>1, Products
  <2>3. (a + q + 0) * ByteBits = a * ByteBits + q * ByteBits + 0 * ByteBits
    BY <1>3, <2>1, Distributes
  <2>4. a + q + 0 = a2 /\ 0 * ByteBits = 0
    BY <1>3, <2>1
  <2>5. a2B = aB + qB
    BY <1>3, <2>2, <2>3, <2>4
  <2> DEFINE r == s % ByteBits
  <2>6. r \in 0 .. ByteBits - 1 /\ s = qB + r
    BY <2>1, <2>2
  <2> HIDE DEF r, qB, a2B, aB, f
  <2>7. f = aB + qB + r
    BY <1>2, <1>3, <2>2, <2>6
  <2>8. a2B <= f /\ f < a2B + ByteBits
    BY <1>3, <2>2, <2>5, <2>6, <2>7
  <2> QED BY <2>1, <2>2, <2>5, <2>8
<1>6. a2 <= p
  <2> HIDE DEF a2
  <2>1. p <= a2 => ByteBits * p <= ByteBits * a2
    BY <1>5, MulMono, Widths
  <2>2. ByteBits * p = pB /\ ByteBits * a2 = a2B /\ a2B \in Nat
    BY <1>3, <1>5, Products, StretchBits
  <2>3. p <= a2 => pB <= a2B
    BY <2>1, <2>2
  <2>4. p \in Nat /\ a2 \in Nat /\ a2B \in Nat /\ pB \in Nat /\ f \in Nat
    BY <1>3, <1>5, <2>2
  <2> HIDE DEF pB, a2B, f
  <2> QED BY <1>2, <1>3, <1>5, <2>3, <2>4
<1>7. Drained(Bytes(a, p), b, k - 1) = Bytes(a2, p)
  <2>1. (k - 1) + 1 = k /\ k - 1 < Len(b)
    BY <1>2
  <2>2. Drained(Bytes(a, p), b, k - 1) = SubSeq(Bytes(a, p), q + 1, Len(Bytes(a, p)))
    BY <2>1 DEF Drained
  <2> HIDE DEF q
  <2>3. q \in 0 .. p - a
    BY <1>5, <1>6
  <2>4. SubSeq(Bytes(a, p), q + 1, Len(Bytes(a, p))) = Bytes(a + q, p)
    BY <2>3, BytesCut
  <2> QED BY <2>2, <2>4
<1>8. Behind(d + (k - 1), a2)
  <2> SUFFICES ASSUME NEW j \in Blocks PROVE j <= d + (k - 1) <=> First(j) < a2B
    BY DEF Behind
  <2> DEFINE g == First(j)
  <2>1. j \in Nat /\ c \in Nat /\ (j <= d + (k - 1) <=> j < c) /\ g \in Nat
    BY <1>1, <1>2
  <2>2. j < c => g + W <= f
    BY <1>2, BitsOrdered
  <2>3. c < j => f + W <= g
    BY <1>2, BitsOrdered
  <2>4. j = c => g = f
    OBVIOUS
  <2>5. a2B \in Nat
    <3> HIDE DEF a2B, aB, qB
    <3> QED BY <1>3, <1>5
  <2> HIDE DEF g, f, W, a2B, c
  <2>6. j < c <=> g < a2B
    BY <1>3, <1>5, <2>1, <2>2, <2>3, <2>4, <2>5
  <2> QED BY <2>1, <2>6 DEF g
<1>9. f <= pB
  <2> HIDE DEF f, pB
  <2> QED BY <1>2, <1>3
<1>10. (Len(Bytes(a2, p)) - 1) * ByteBits < Span(c) + W
  <2> HIDE DEF a2
  <2> DEFINE n == p - a2
             nB == n * ByteBits
  <2>1. n \in Nat /\ Len(Bytes(a2, p)) = n
    BY <1>5, <1>6, StretchOfBytes
  <2>2. nB = pB - a2B /\ nB \in Nat /\ a2B \in Nat
    BY <1>5, <1>6, StretchBits
  <2>3. (n - 1) * ByteBits = nB - ByteBits
    <3> HIDE DEF n
    <3> QED BY <1>3, <2>1, LessOne
  <2>4. pB < f + Span(c) + W /\ Span(c) \in Int
    <3>1. CASE c + 1 \in Blocks
      <4>1. Span(c) = First(c + 1) - f /\ First(c + 1) \in Nat
        BY <1>1, <3>1 DEF Span
      <4>2. First(c + 1) + W > pB
        BY <3>1 DEF FillFinds
      <4> DEFINE h == First(c + 1)
      <4> HIDE DEF h, f, W, pB, c
      <4> QED BY <1>3, <4>1, <4>2 DEF h
    <3>2. CASE ~(c + 1 \in Blocks)
      <4>1. Span(c) = sB - f
        BY <3>2 DEF Span
      <4>2. W \in Nat \ {0}
        BY Widths
      <4> HIDE DEF f, W, pB, sB, c
      <4> QED BY <1>3, <1>4, <4>1, <4>2
    <3> QED BY <3>1, <3>2
  <2> DEFINE sp == Span(c)
  <2> HIDE DEF sp, nB, n, pB, a2B, f, W
  <2>5. nB - ByteBits < sp + W
    BY <1>3, <1>5, <2>2, <2>4 DEF sp
  <2> QED BY <2>1, <2>3, <2>5 DEF sp
<1>11. a2 \in 0 .. p
  <2> HIDE DEF a2
  <2> QED BY <1>5, <1>6
<1> QED BY <1>7, <1>8, <1>9, <1>10, <1>11

-----------------------------------------------------------------------------
(* The steps                                                               *)

\* As long as no call failed, a fill that decodes succeeds.
Filled(d, a, p, b, n, k) ==
  /\ FillFinds(a, p, d, b, n) /\ DecodeCount(b) > 0
  /\ pos' = p /\ eof' = Eof /\ (Eof => p = input.size)
  /\ out' = FlattenSeq([i \in 1 .. DecodeCount(b) |-> OutputOf(d + i)])
  /\ comp' = Drained(Bytes(a, p), b, DecodeCount(b))
  /\ Deliver(out', 0, k)
  /\ UNCHANGED <<input, failures>>

LEMMA NotAtEnd ==
  ASSUME TypeOK, NEW d \in 0 .. Total, AtEnd(d), ~ Exhausted
  PROVE  ~ eof
<1> SUFFICES ASSUME eof PROVE FALSE
  OBVIOUS
<1>1. comp = <<>> /\ HeaderSize \in Nat
  BY StreamingAssumption DEF AtEnd
<1>2. Len(comp) <= HeaderSize
  BY <1>1
<1> QED BY <1>2 DEF Exhausted

\* What a fill looks at.
LEMMA FillReads ==
  ASSUME TypeOK, Clean, NEW d \in 0 .. Total, NEW a \in 0 .. pos, Decoding(d, a), ~ Exhausted,
         NEW data \in Refills, NEW b \in Boundaries(data)
  PROVE  \E p \in pos .. input.size : \E n \in 0 .. Total - d :
           /\ ~ eof /\ a \in Nat /\ p \in Nat /\ a <= p /\ p <= input.size /\ p = pos + ReadLen
           /\ (Eof => p = input.size) /\ (~ Eof => p = pos + ChunkSize)
           /\ data = Bytes(a, p) /\ FillFinds(a, p, d, b, n)
<1>1. ~ eof
  BY NotAtEnd DEF Decoding
<1>2. PICK p \in pos .. input.size : p = pos + ReadLen /\ p \in Nat /\ (Eof => p = input.size)
                                      /\ (~ Eof => p = pos + ChunkSize)
  BY <1>1, ReadTo
<1>3. a \in Nat /\ pos \in Nat /\ a <= pos /\ pos <= p /\ a <= p /\ p <= input.size
  BY <1>2, FileType
<1>4. data = Bytes(a, p)
  <2>1. data = comp \o Bytes(pos, p) /\ comp = Bytes(a, pos)
    BY <1>2 DEF Refills, Decoding, Held
  <2> QED BY <1>2, <1>3, <2>1, BytesConcat
<1>5. PICK n \in 0 .. Total - d : FillFinds(a, p, d, b, n)
  <2>1. Behind(d, a) /\ b \in Boundaries(Bytes(a, p))
    BY <1>4 DEF Decoding, Held
  <2> QED BY <1>2, <1>3, <2>1, FillFindsBlocks
<1> QED BY <1>1, <1>2, <1>3, <1>4, <1>5

LEMMA FillSucceeds ==
  ASSUME TypeOK, Clean, NEW d \in 0 .. Total, NEW a \in 0 .. pos, Decoding(d, a),
         NEW k, FillAndServe(k)
  PROVE  ~ eof /\ \E p \in pos .. input.size : \E b : \E n \in 0 .. Total - d : Filled(d, a, p, b, n, k)
<1>1. pos' = pos + ReadLen /\ eof' = Eof /\ ~ Exhausted
  BY DEF FillAndServe
<1>2. PICK data \in Refills : \E b \in Boundaries(data) :
       LET count == DecodeCount(b) IN
       /\ count > 0
       /\ \E hits \in {BlocksAt(data, b, count)} :
          \E failed \in SUBSET {i \in 1 .. count : hits[i] = {}} :
            \/ /\ failed = {}
               /\ out' = FlattenSeq([i \in 1 .. count |-> Decoded(hits[i])])
               /\ comp' = Drained(data, b, count)
               /\ Deliver(out', 0, k)
               /\ UNCHANGED <<input, failures>>
            \/ /\ failed # {}
               /\ out' = FlattenSeq([i \in 1 .. Min(failed) - 1 |-> Decoded(hits[i])])
               /\ outPos' = 0
               /\ comp' = data
               /\ Error
  BY DEF FillAndServe
<1>3. PICK b \in Boundaries(data) :
       /\ DecodeCount(b) > 0
       /\ \E hits \in {BlocksAt(data, b, DecodeCount(b))} :
          \E failed \in SUBSET {i \in 1 .. DecodeCount(b) : hits[i] = {}} :
            \/ /\ failed = {}
               /\ out' = FlattenSeq([i \in 1 .. DecodeCount(b) |-> Decoded(hits[i])])
               /\ comp' = Drained(data, b, DecodeCount(b))
               /\ Deliver(out', 0, k)
               /\ UNCHANGED <<input, failures>>
            \/ /\ failed # {}
               /\ out' = FlattenSeq([i \in 1 .. Min(failed) - 1 |-> Decoded(hits[i])])
               /\ outPos' = 0
               /\ comp' = data
               /\ Error
  BY <1>2
<1>4. PICK p \in pos .. input.size : \E n \in 0 .. Total - d :
           /\ ~ eof /\ a \in Nat /\ p \in Nat /\ a <= p /\ p <= input.size /\ p = pos + ReadLen
           /\ (Eof => p = input.size) /\ (~ Eof => p = pos + ChunkSize)
           /\ data = Bytes(a, p) /\ FillFinds(a, p, d, b, n)
  BY <1>1, FillReads
<1>5. PICK n \in 0 .. Total - d :
           /\ ~ eof /\ a \in Nat /\ p \in Nat /\ a <= p /\ p <= input.size /\ p = pos + ReadLen
           /\ (Eof => p = input.size) /\ (~ Eof => p = pos + ChunkSize)
           /\ data = Bytes(a, p) /\ FillFinds(a, p, d, b, n)
  BY <1>4
<1> DEFINE count == DecodeCount(b)
           hits == BlocksAt(data, b, count)
<1>6. PICK failed \in SUBSET {i \in 1 .. count : hits[i] = {}} :
            \/ /\ failed = {}
               /\ out' = FlattenSeq([i \in 1 .. count |-> Decoded(hits[i])])
               /\ comp' = Drained(data, b, count)
               /\ Deliver(out', 0, k)
               /\ UNCHANGED <<input, failures>>
            \/ /\ failed # {}
               /\ out' = FlattenSeq([i \in 1 .. Min(failed) - 1 |-> Decoded(hits[i])])
               /\ outPos' = 0
               /\ comp' = data
               /\ Error
  BY <1>3
<1>7. n \in Nat /\ count > 0
  BY <1>3, FileType
<1>8. ASSUME NEW i \in 1 .. count PROVE hits[i] = {d + i} /\ Decoded(hits[i]) = OutputOf(d + i)
  <2>0. i \in 1 .. DecodeCount(b)
    OBVIOUS
  <2> HIDE DEF hits, count
  <2>1. DecodesBlock(Bytes(a, p), b[i], d + i)
    BY <1>5, <1>7, <2>0, FillDecodes
  <2>2. hits[i] = BlockAt(input, data, b[i])
    BY DEF BlocksAt, hits
  <2> QED BY <1>5, <2>1, <2>2 DEF DecodesBlock
<1> HIDE DEF hits, count
<1>9. failed = {}
  BY <1>6, <1>8
<1>10. [i \in 1 .. count |-> Decoded(hits[i])] = [i \in 1 .. count |-> OutputOf(d + i)]
  BY <1>8
<1>11. /\ out' = FlattenSeq([i \in 1 .. count |-> OutputOf(d + i)])
       /\ comp' = Drained(Bytes(a, p), b, count)
       /\ Deliver(out', 0, k)
       /\ UNCHANGED <<input, failures>>
  BY <1>5, <1>6, <1>9, <1>10
<1>12. Filled(d, a, p, b, n, k)
  BY <1>1, <1>5, <1>7, <1>11 DEF Filled, count
<1> QED BY <1>5, <1>12

\* Handing out a part of a stretch of the output that was not handed out yet.
Hands(L) ==
  /\ \E n \in Len(delivered) + 1 .. Len(Whole) : delivered' = SubSeq(Whole, 1, n)
  /\ reply' = "bytes"
  /\ delivered' = SubSeq(Whole, 1, L + outPos')

LEMMA Serves ==
  ASSUME TypeOK, NEW e \in 0 .. Len(Whole), NEW u, Len(u) \in 0 .. e,
         u = SubSeq(Whole, e - Len(u) + 1, e),
         NEW from \in 0 .. Len(u), from < Len(u), delivered = SubSeq(Whole, 1, e - Len(u) + from),
         NEW k \in Nat \ {0}, Deliver(u, from, k)
  PROVE  Hands(e - Len(u))
<1> DEFINE r == Len(u) - from
           m == Min({k, r})
<1>0. Whole \in Seq(Pieces) /\ Len(Whole) \in Nat
  BY WholeIs DEF TypeOK
<1>1. e \in Nat /\ Len(u) \in Nat /\ from \in Nat /\ r \in Nat /\ r > 0 /\ Len(u) <= e /\ e <= Len(Whole)
  BY <1>0
<1>2. m = IF k <= r THEN k ELSE r
  BY <1>1, MinOfTwo
<1>3. /\ delivered' = delivered \o SubSeq(u, from + 1, from + m)
      /\ outPos' = from + m /\ (m > 0 => reply' = "bytes")
  BY DEF Deliver
<1> HIDE DEF m
<1>4. m \in 0 .. r /\ m > 0 /\ m \in Nat
  BY <1>1, <1>2
<1>5. SubSeq(Whole, 1, e - Len(u) + from) \o SubSeq(u, from + 1, from + m)
        = SubSeq(Whole, 1, e - Len(u) + (from + m))
  <2>1. m \in 0 .. Len(u) - from
    BY <1>4
  <2> HIDE DEF r
  <2>2. Continues(Whole, e, u, from, m)
    BY <1>0, <2>1, HandsOn
  <2> QED BY <2>2 DEF Continues
<1>6. delivered' = SubSeq(Whole, 1, e - Len(u) + (from + m))
  BY <1>3, <1>5
<1>7. Len(delivered) = e - Len(u) + from
  <2> DEFINE x == e - Len(u) + from
  <2>1. x \in Nat /\ x <= Len(Whole)
    BY <1>1
  <2> HIDE DEF x
  <2>2. Len(SubSeq(Whole, 1, x)) = x
    BY <1>0, <2>1, SubSeqProperties
  <2> QED BY <2>2 DEF x
<1>8. e - Len(u) + (from + m) \in Len(delivered) + 1 .. Len(Whole)
  BY <1>0, <1>1, <1>4, <1>7
<1> QED BY <1>3, <1>4, <1>6, <1>8 DEF Hands

\* A serve from out_buf.
LEMMA ServeMoves ==
  ASSUME TypeOK, NEW d \in 0 .. Total, NEW a, Decoding(d, a), NEW k \in BufSizes, ServeBuffered(k)
  PROVE  Promise!Piece /\ Decoding(d, a)'
<1> DEFINE e == d * Units
<1>1. k \in Nat \ {0} /\ Deliver(out, outPos, k) /\ outPos < Len(out)
      /\ UNCHANGED <<input, pos, comp, eof, out, failures>>
  BY StreamingAssumption DEF ServeBuffered
<1>2. /\ Len(out) <= e /\ out = SubSeq(Whole, e - Len(out) + 1, e)
      /\ delivered = SubSeq(Whole, 1, e - Len(out) + outPos)
  BY DEF Decoding, InPlace
<1>3. e \in 0 .. Len(Whole)
  <2>1. d \in Nat /\ Total \in Nat /\ Units \in Nat /\ Total * Units \in Nat /\ Len(Whole) = Total * Units
    BY FileType, WholeIs
  <2>2. Units * d <= Units * Total /\ Units * d = d * Units /\ Units * Total = Total * Units /\ d * Units \in Nat
    BY <2>1, MulMono, Products
  <2> QED BY <2>1, <2>2
<1>4. Len(out) \in Nat /\ outPos \in 0 .. Len(out)
  BY DEF TypeOK
<1> HIDE DEF e
<1>5. Hands(e - Len(out))
  <2>1. Len(out) \in 0 .. e /\ outPos \in 0 .. Len(out) /\ e \in 0 .. Len(Whole)
    BY <1>2, <1>3, <1>4
  <2> QED BY <1>1, <1>2, <2>1, Serves
<1>6. Whole' = Whole /\ Total' = Total /\ Blocks' = Blocks
  BY <1>1 DEF Whole, Blocks, OutputOf, Total
<1>7. Promise!Piece
  BY <1>5, <1>6 DEF Hands, Promise!Piece
<1>8. InPlace(d)'
  BY <1>1, <1>2, <1>5, <1>6 DEF InPlace, Hands, e
<1>9. Held(d, a)' /\ AtEnd(d)' /\ Ahead(d)'
  BY <1>1 DEF Decoding, Held, AtEnd, Ahead, Behind, Blocks, First, Total, Steady, Span
<1> QED BY <1>7, <1>8, <1>9 DEF Decoding

\* d * Units pieces of the output.
LEMMA PiecesOf ==
  ASSUME TypeOK, NEW d \in 0 .. Total
  PROVE  /\ d * Units \in 0 .. Len(Whole) /\ d * Units \in Nat /\ Whole \in Seq(Pieces)
         /\ Len(SubSeq(Whole, 1, d * Units)) = d * Units
<1>1. d \in Nat /\ Total \in Nat /\ Units \in Nat /\ Total * Units \in Nat /\ Len(Whole) = Total * Units
      /\ Whole \in Seq(Pieces)
  BY FileType, WholeIs
<1>2. Units * d <= Units * Total /\ Units * d = d * Units /\ Units * Total = Total * Units /\ d * Units \in Nat
  BY <1>1, MulMono, Products
<1> DEFINE e == d * Units
<1>3. e \in Nat /\ e <= Len(Whole)
  BY <1>1, <1>2
<1> HIDE DEF e
<1>4. Len(SubSeq(Whole, 1, e)) = e
  BY <1>1, <1>3, SubSeqProperties
<1>5. e \in 0 .. Len(Whole)
  BY <1>1, <1>3
<1> QED BY <1>1, <1>3, <1>4, <1>5 DEF e

\* All handed out that out_buf had.
LEMMA AllHanded ==
  ASSUME TypeOK, NEW d \in 0 .. Total, InPlace(d), outPos >= Len(out)
  PROVE  delivered = SubSeq(Whole, 1, d * Units)
<1> DEFINE e == d * Units
<1>1. e \in Nat /\ Len(out) \in Nat /\ outPos \in 0 .. Len(out)
  BY PiecesOf DEF TypeOK
<1>2. delivered = SubSeq(Whole, 1, e - Len(out) + outPos)
  BY DEF InPlace
<1> HIDE DEF e
<1>3. e - Len(out) + outPos = e
  BY <1>1
<1> QED BY <1>2, <1>3 DEF e

\* out_buf emptied.
LEMMA Emptied ==
  ASSUME TypeOK, NEW d \in 0 .. Total, NEW u, u = <<>>
  PROVE  /\ Len(u) <= d * Units
         /\ u = SubSeq(Whole, d * Units - Len(u) + 1, d * Units)
         /\ SubSeq(Whole, 1, d * Units - Len(u) + 0) = SubSeq(Whole, 1, d * Units)
<1> DEFINE e == d * Units
<1>1. e \in Nat /\ Whole \in Seq(Pieces) /\ Len(u) = 0
  BY PiecesOf
<1> HIDE DEF e
<1>2. e - Len(u) + 1 = e + 1 /\ e - Len(u) + 0 = e
  BY <1>1
<1>3. SubSeq(Whole, e + 1, e) = <<>>
  BY <1>1, SMT
<1> QED BY <1>1, <1>2, <1>3 DEF e

LEMMA FillMoves ==
  ASSUME TypeOK, Clean, NEW d \in 0 .. Total, NEW a \in 0 .. pos, Decoding(d, a),
         NEW k \in BufSizes, FillAndServe(k)
  PROVE  Promise!Piece /\ SomeDecoding'
<1>1. ~ eof /\ \E p \in pos .. input.size : \E b : \E n \in 0 .. Total - d : Filled(d, a, p, b, n, k)
  BY FillSucceeds
<1>2. PICK p \in pos .. input.size : \E b : \E n \in 0 .. Total - d : Filled(d, a, p, b, n, k)
  BY <1>1
<1>3. PICK b : \E n \in 0 .. Total - d : Filled(d, a, p, b, n, k)
  BY <1>2
<1>4. PICK n \in 0 .. Total - d : Filled(d, a, p, b, n, k)
  BY <1>3
<1>5. PICK count : count = DecodeCount(b)
  OBVIOUS
<1> DEFINE d2 == d + count
           e == d2 * Units
           c == count * Units
           u == FlattenSeq([i \in 1 .. count |-> OutputOf(d + i)])
<1>6. /\ FillFinds(a, p, d, b, n) /\ count > 0
      /\ pos' = p /\ eof' = Eof /\ (Eof => p = input.size)
      /\ out' = u /\ comp' = Drained(Bytes(a, p), b, count)
      /\ Deliver(out', 0, k)
      /\ UNCHANGED <<input, failures>>
  BY <1>4, <1>5 DEF Filled
<1>7. /\ Total \in Nat /\ Units \in Nat \ {0} /\ pos \in Nat /\ input.size \in Nat /\ Blocks = 1 .. Total
      /\ d \in Nat /\ n \in Nat /\ d + n <= Total /\ a \in Nat /\ a <= p /\ p \in Nat /\ p <= input.size
      /\ k \in Nat \ {0}
  BY FileType, StreamingAssumption
<1>8. /\ count \in Nat \ {0} /\ d2 \in 0 .. Total /\ Len(b) = n
      /\ (Eof => count = n /\ d2 = Total) /\ (~ Eof => count = n - 1 /\ count < Len(b))
  <2>1. Len(b) = n /\ (Eof => d + n = Total)
    BY <1>6 DEF FillFinds
  <2> QED BY <1>6, <1>7, <1>5, <2>1 DEF DecodeCount
<1>9. /\ e \in Nat /\ c \in Nat /\ e = d * Units + c /\ d * Units \in Nat /\ e \in 0 .. Len(Whole)
      /\ u = SubSeq(Whole, d * Units + 1, d * Units + c) /\ Len(u) = c /\ c > 0
  <2> DEFINE g == [i \in 1 .. count |-> OutputOf(d + i)]
  <2>0. g = [i \in 1 .. count |-> OutputOf(d + i)]
    OBVIOUS
  <2> HIDE DEF g
  <2>1. count \in Nat /\ d + count <= Total /\ input \in Inputs
    BY <1>7, <1>8 DEF TypeOK
  <2>2. OutputsAre(FlattenSeq(g), d, count)
    BY <1>7, <2>0, <2>1, OutputStretch
  <2>3. e \in 0 .. Len(Whole) /\ e \in Nat
    BY <1>8, PiecesOf
  <2>4. count * Units > 0
    BY <1>7, <1>8
  <2> QED BY <2>2, <2>3, <2>4 DEF g, OutputsAre
<1>10. /\ Len(u) \in 0 .. e /\ u = SubSeq(Whole, e - Len(u) + 1, e)
      /\ delivered = SubSeq(Whole, 1, e - Len(u) + 0) /\ 0 \in 0 .. Len(u) /\ 0 < Len(u)
  <2>1. delivered = SubSeq(Whole, 1, d * Units)
    BY AllHanded DEF Decoding, FillAndServe, Fills
  <2> DEFINE D == d * Units
  <2>2. D \in Nat /\ e = D + c /\ delivered = SubSeq(Whole, 1, D) /\ u = SubSeq(Whole, D + 1, D + c)
        /\ c \in Nat /\ c > 0 /\ Len(u) = c
    BY <1>9, <2>1
  <2> HIDE DEF D, e, c, u
  <2>3. e - Len(u) = D /\ Len(u) \in 0 .. e /\ 0 < Len(u) /\ 0 \in 0 .. Len(u)
    BY <2>2
  <2>4. D + 0 = D
    BY <2>2
  <2> QED BY <2>2, <2>3, <2>4
<1> HIDE DEF u, e
<1>11. Hands(e - Len(u))
  BY <1>6, <1>7, <1>9, <1>10, Serves
<1>12. /\ Whole' = Whole /\ Total' = Total /\ Blocks' = Blocks /\ input' = input
  BY <1>6 DEF Whole, Blocks, OutputOf, Total
<1>13. Promise!Piece
  BY <1>11, <1>12 DEF Hands, Promise!Piece
<1> HIDE DEF d2
<1>14. InPlace(d2)'
  <2>1. d2 * Units = e
    BY DEF e
  <2>2. Len(out') <= e /\ out' = SubSeq(Whole', e - Len(out') + 1, e)
    BY <1>6, <1>10, <1>12
  <2>3. delivered' = SubSeq(Whole', 1, e - Len(out') + outPos')
    BY <1>6, <1>11, <1>12 DEF Hands
  <2> QED BY <2>1, <2>2, <2>3 DEF InPlace
<1>15. \E a2 \in 0 .. p : Held(d2, a2)' /\ AtEnd(d2)' /\ Ahead(d2)'
  <2>1. CASE Eof
    <3>1. comp' = <<>> /\ d2 = Total
      <4>1. ~(count < Len(b))
        BY <1>7, <1>8, <2>1
      <4> QED BY <1>6, <1>8, <2>1, <4>1 DEF Drained
    <3>2. Behind(d2, p) /\ Bytes(p, p) = <<>>
      BY <1>6, <1>7, <2>1, <3>1, AllBehind, NoBytes
    <3>3. eof'
      BY <1>6, <2>1
    <3>4. Held(d2, p)'
      BY <1>6, <1>12, <3>1, <3>2 DEF Held, Behind, First
    <3>5. AtEnd(d2)' /\ Ahead(d2)'
      BY <1>12, <3>1, <3>3 DEF AtEnd, Ahead
    <3> QED BY <1>7, <3>4, <3>5
  <2>2. CASE ~ Eof
    <3>1. n \in Nat \ {0} /\ count = n - 1 /\ d2 = d + (n - 1) /\ d2 + 1 = d + n /\ d2 < Total
      BY <1>7, <1>8, <2>2 DEF d2
    <3>2. PICK a2 \in 0 .. p :
           /\ Drained(Bytes(a, p), b, n - 1) = Bytes(a2, p) /\ Behind(d + (n - 1), a2)
           /\ First(d + n) <= p * ByteBits
           /\ (Len(Bytes(a2, p)) - 1) * ByteBits < Span(d + n) + Window * ByteBits
      BY <1>6, <1>7, <3>1, FillKeeps
    <3>3. comp' = Bytes(a2, p) /\ ~ eof'
      BY <1>6, <2>2, <3>1, <3>2
    <3>4. Held(d2, a2)'
      BY <1>6, <1>12, <3>1, <3>2, <3>3 DEF Held, Behind, First
    <3>5. AtEnd(d2)'
      BY <1>12, <3>1, <3>3 DEF AtEnd
    <3>6. Ahead(d2)'
      <4>1. First(d2 + 1)' = First(d + n) /\ Span(d2 + 1)' = Span(d + n)
        BY <1>12, <3>1 DEF First, Span
      <4> QED BY <1>6, <3>2, <3>3, <4>1 DEF Ahead
    <3> QED BY <3>4, <3>5, <3>6
  <2> QED BY <2>1, <2>2
<1>16. SomeDecoding'
  <2>1. PICK a2 \in 0 .. p : Held(d2, a2)' /\ AtEnd(d2)' /\ Ahead(d2)'
    BY <1>15
  <2>2. Decoding(d2, a2)'
    BY <1>14, <2>1 DEF Decoding
  <2> QED BY <1>6, <1>8, <1>12, <2>2 DEF SomeDecoding
<1> QED BY <1>13, <1>16

LEMMA SpanIs ==
  ASSUME TypeOK, NEW c \in Blocks
  PROVE  /\ Span(c) \in Int
         /\ c + 1 \in Blocks => First(c) + Span(c) = First(c + 1) /\ Span(c) > 0
         /\ ~(c + 1 \in Blocks) => First(c) + Span(c) = input.size * ByteBits
<1>1. First(c) \in Nat /\ input.size * ByteBits \in Nat
  BY FileType, StretchBits
<1> DEFINE S == input.size * ByteBits
<1>2. Span(c) = IF c + 1 \in Blocks THEN First(c + 1) - First(c) ELSE S - First(c)
  BY DEF Span
<1>3. c + 1 \in Blocks => First(c + 1) \in Nat /\ First(c) + Window * ByteBits <= First(c + 1)
  <2>1. c + 1 \in Blocks => c < c + 1
    BY FileType
  <2> QED BY <2>1, FileType, BitsOrdered
<1>4. Window * ByteBits \in Nat \ {0}
  BY Widths
<1> DEFINE W == Window * ByteBits
           f == First(c)
           g == First(c + 1)
           sp == Span(c)
<1>5. /\ f \in Nat /\ S \in Nat /\ W \in Nat \ {0}
      /\ sp = IF c + 1 \in Blocks THEN g - f ELSE S - f
      /\ c + 1 \in Blocks => g \in Nat /\ f + W <= g
  BY <1>1, <1>2, <1>3, <1>4
<1> HIDE DEF S, W, f, g, sp
<1>6. sp \in Int /\ (c + 1 \in Blocks => f + sp = g /\ sp > 0) /\ (~(c + 1 \in Blocks) => f + sp = S)
  BY <1>5
<1> QED BY <1>6 DEF S, f, g, sp

\* A full chunk holds the beginning of two more blocks, where the file allows it.
LEMMA TwoMore ==
  ASSUME TypeOK, Steady, NEW d \in 0 .. Total, d < Total, First(d + 1) <= pos * ByteBits,
         NEW a \in Nat, NEW p \in Nat, p = pos + ChunkSize, p <= input.size,
         NEW b, NEW n \in Nat, FillFinds(a, p, d, b, n)
  PROVE  n > 1
<1> DEFINE c == d + 1
           f == First(c)
           g == First(c + 1)
           sp == Span(c)
           pB == p * ByteBits
           oB == pos * ByteBits
           sB == input.size * ByteBits
           cB == ChunkSize * ByteBits
           W == Window * ByteBits
<1>1. /\ Total \in Nat /\ Blocks = 1 .. Total /\ d \in Nat /\ c \in Blocks /\ ChunkSize \in Nat
      /\ pos \in Nat /\ input.size \in Nat /\ f \in Nat
      /\ c + 1 \in Blocks => g \in Nat
  <2>1. /\ Total \in Nat /\ Blocks = 1 .. Total /\ ChunkSize \in Nat /\ pos \in Nat /\ input.size \in Nat
        /\ \A j \in Blocks : First(j) \in Nat
    BY FileType
  <2>2. d \in Nat /\ c \in Blocks
    BY <2>1
  <2> QED BY <2>1, <2>2
<1>2. /\ pB \in Nat /\ oB \in Nat /\ sB \in Nat /\ cB \in Nat /\ W \in Nat \ {0} /\ ByteBits \in Nat \ {0}
  BY <1>1, StretchBits, Widths
<1>3. pB = oB + cB /\ pB <= sB
  <2>1. (pos + ChunkSize + 0) * ByteBits = pos * ByteBits + ChunkSize * ByteBits + 0 * ByteBits
        /\ pos + ChunkSize + 0 = p /\ 0 * ByteBits = 0
    BY <1>1, <1>2, Distributes
  <2>2. ByteBits * p <= ByteBits * input.size /\ ByteBits * p = pB /\ ByteBits * input.size = sB
    BY <1>1, <1>2, MulMono, Products
  <2>3. pB <= sB
    BY <2>2
  <2> DEFINE z == 0 * ByteBits
  <2>4. (pos + ChunkSize + 0) * ByteBits = oB + cB + z /\ z = 0
    BY <2>1
  <2>5. (pos + ChunkSize + 0) * ByteBits = pB
    BY <2>1
  <2> HIDE DEF z, pB, oB, cB
  <2>6. pB = oB + cB
    BY <1>2, <2>4, <2>5
  <2> QED BY <2>3, <2>6
<1>4. sp \in Int /\ sp + W <= cB /\ f <= oB
      /\ (c + 1 \in Blocks => f + sp = g /\ sp > 0) /\ (~(c + 1 \in Blocks) => f + sp = sB)
  BY <1>1, SpanIs DEF Steady
<1>5. n = 0 => f + W > pB
  <2> SUFFICES ASSUME n = 0 PROVE f + W > pB
    OBVIOUS
  <2>1. d + n + 1 = c
    BY <1>1
  <2> QED BY <1>1, <2>1 DEF FillFinds
<1>6. n = 1 /\ c + 1 \in Blocks => g + W > pB
  <2> SUFFICES ASSUME n = 1, c + 1 \in Blocks PROVE g + W > pB
    OBVIOUS
  <2>1. d + n + 1 = c + 1
    BY <1>1
  <2> QED BY <2>1 DEF FillFinds
<1>7. c + 1 \in Blocks
  <2> SUFFICES ASSUME ~(c + 1 \in Blocks) PROVE FALSE
    OBVIOUS
  <2> HIDE DEF c, f, g, sp, pB, oB, sB, cB, W
  <2> QED BY <1>1, <1>2, <1>3, <1>4
<1> HIDE DEF c, f, g, sp, pB, oB, sB, cB, W
<1>8. n # 0
  BY <1>1, <1>2, <1>3, <1>4, <1>5, <1>7
<1>9. n # 1
  BY <1>1, <1>2, <1>3, <1>4, <1>6, <1>7
<1> QED BY <1>8, <1>9

\* A call that finds fewer than two blocks.
LEMMA TooFewMoves ==
  ASSUME TypeOK, Clean, NEW d \in 0 .. Total, NEW a \in 0 .. pos, Decoding(d, a), TooFew
  PROVE  SomeDecoding' /\ (Steady => Promise!EndOfFile)
<1>1. /\ pos' = pos + ReadLen /\ eof' = Eof /\ reply' = "zero"
      /\ UNCHANGED <<input, delivered, failures>>
      /\ Fills /\ ~ Exhausted
  BY DEF TooFew
<1>2. PICK data \in Refills : \E b \in Boundaries(data) :
       \/ b = <<>> /\ Eof /\ comp' = <<>> /\ out' = <<>> /\ outPos' = 0
       \/ Len(b) <= 1 /\ ~Eof /\ comp' = data /\ UNCHANGED <<out, outPos>>
  BY DEF TooFew
<1>3. PICK b \in Boundaries(data) :
       \/ b = <<>> /\ Eof /\ comp' = <<>> /\ out' = <<>> /\ outPos' = 0
       \/ Len(b) <= 1 /\ ~Eof /\ comp' = data /\ UNCHANGED <<out, outPos>>
  BY <1>2
<1>4. PICK p \in pos .. input.size : \E n \in 0 .. Total - d :
           /\ ~ eof /\ a \in Nat /\ p \in Nat /\ a <= p /\ p <= input.size /\ p = pos + ReadLen
           /\ (Eof => p = input.size) /\ (~ Eof => p = pos + ChunkSize)
           /\ data = Bytes(a, p) /\ FillFinds(a, p, d, b, n)
  BY <1>1, FillReads
<1>5. PICK n \in 0 .. Total - d :
           /\ ~ eof /\ a \in Nat /\ p \in Nat /\ a <= p /\ p <= input.size /\ p = pos + ReadLen
           /\ (Eof => p = input.size) /\ (~ Eof => p = pos + ChunkSize)
           /\ data = Bytes(a, p) /\ FillFinds(a, p, d, b, n)
  BY <1>4
<1>6. /\ Total \in Nat /\ Blocks = 1 .. Total /\ d \in Nat /\ n \in Nat /\ Len(b) = n
      /\ Whole' = Whole /\ Total' = Total /\ Blocks' = Blocks /\ input' = input
      /\ Eof => d + n = Total
  BY <1>1, <1>5, FileType DEF FillFinds, Whole, Blocks, OutputOf, Total
<1>7. delivered = SubSeq(Whole, 1, d * Units)
  BY <1>1, AllHanded DEF Decoding, Fills
<1>8. CASE b = <<>> /\ Eof /\ comp' = <<>> /\ out' = <<>> /\ outPos' = 0
  <2>1. n = 0 /\ d = Total
    BY <1>6, <1>8
  <2>2. Promise!EndOfFile
    <3>1. Len(Whole) = Total * Units /\ Whole \in Seq(Pieces) /\ Len(Whole) \in Nat
      BY WholeIs DEF TypeOK
    <3>2. delivered = SubSeq(Whole, 1, Len(Whole))
      BY <1>7, <2>1, <3>1
    <3>3. delivered = Whole
      BY <3>1, <3>2
    <3> QED BY <1>1, <1>6, <3>3 DEF Promise!EndOfFile
  <2>3. Behind(d, p) /\ Bytes(p, p) = <<>>
    BY <1>5, <1>8, <2>1, AllBehind, NoBytes
  <2>4. InPlace(d)'
    <3>1. /\ Len(out') <= d * Units
          /\ out' = SubSeq(Whole, d * Units - Len(out') + 1, d * Units)
          /\ SubSeq(Whole, 1, d * Units - Len(out') + 0) = SubSeq(Whole, 1, d * Units)
      BY <1>8, Emptied
    <3>2. delivered' = SubSeq(Whole', 1, d * Units - Len(out') + outPos')
      BY <1>1, <1>6, <1>7, <1>8, <3>1
    <3> QED BY <1>6, <3>1, <3>2 DEF InPlace
  <2>5. Held(d, p)' /\ AtEnd(d)' /\ Ahead(d)'
    BY <1>1, <1>5, <1>6, <1>8, <2>1, <2>3 DEF Held, AtEnd, Ahead, Behind, First
  <2>6. p \in 0 .. pos' /\ d \in 0 .. Total' /\ Decoding(d, p)'
    <3>1. Decoding(d, p)'
      BY <2>4, <2>5 DEF Decoding
    <3> QED BY <1>1, <1>5, <1>6, <2>1, <3>1
  <2> QED BY <2>2, <2>6 DEF SomeDecoding
<1>9. CASE Len(b) <= 1 /\ ~Eof /\ comp' = data /\ UNCHANGED <<out, outPos>>
  <2>1. ~ Steady
    <3> SUFFICES ASSUME Steady PROVE FALSE
      OBVIOUS
    <3>1. d < Total /\ First(d + 1) <= pos * ByteBits
      BY <1>5 DEF Steady, Decoding, AtEnd, Ahead
    <3>2. n > 1
      BY <1>5, <1>6, <1>9, <3>1, TwoMore
    <3> QED BY <1>6, <1>9, <3>2
  <2>2. InPlace(d)'
    BY <1>1, <1>6, <1>9 DEF Decoding, InPlace
  <2>3. Held(d, a)'
    BY <1>1, <1>5, <1>6, <1>9 DEF Decoding, Held, Behind, First
  <2>4. AtEnd(d)' /\ Ahead(d)'
    BY <1>1, <1>5, <1>6, <1>9, <2>1 DEF Decoding, AtEnd, Ahead, Steady, First, Span
  <2>5. a \in 0 .. pos' /\ d \in 0 .. Total' /\ Decoding(d, a)'
    <3>1. Decoding(d, a)'
      BY <2>2, <2>3, <2>4 DEF Decoding
    <3> QED BY <1>1, <1>5, <1>6, <3>1
  <2> QED BY <2>1, <2>5 DEF SomeDecoding
<1> QED BY <1>3, <1>8, <1>9

\* A call at the end.
LEMMA ExhaustedMoves ==
  ASSUME TypeOK, Clean, NEW d \in 0 .. Total, NEW a \in 0 .. pos, Decoding(d, a), ReadExhausted
  PROVE  SomeDecoding' /\ Promise!EndOfFile
<1>1. /\ out' = <<>> /\ outPos' = 0 /\ reply' = "zero" /\ Fills /\ eof
      /\ UNCHANGED <<input, pos, comp, eof, delivered, failures>>
  BY DEF ReadExhausted, Exhausted
<1>2. /\ Total \in Nat /\ d = Total
      /\ Whole' = Whole /\ Total' = Total /\ Blocks' = Blocks
  BY <1>1, FileType DEF Decoding, AtEnd, Whole, Blocks, OutputOf, Total
<1>3. delivered = SubSeq(Whole, 1, d * Units)
  BY <1>1, AllHanded DEF Decoding, Fills
<1>4. Promise!EndOfFile
  <2>1. Len(Whole) = Total * Units /\ Whole \in Seq(Pieces) /\ Len(Whole) \in Nat
    BY WholeIs DEF TypeOK
  <2>2. delivered = SubSeq(Whole, 1, Len(Whole))
    BY <1>2, <1>3, <2>1
  <2>3. delivered = Whole
    BY <2>1, <2>2
  <2> QED BY <1>1, <1>2, <2>3 DEF Promise!EndOfFile
<1>5. InPlace(d)'
  <2>1. /\ Len(out') <= d * Units
        /\ out' = SubSeq(Whole, d * Units - Len(out') + 1, d * Units)
        /\ SubSeq(Whole, 1, d * Units - Len(out') + 0) = SubSeq(Whole, 1, d * Units)
    BY <1>1, Emptied
  <2>2. delivered' = SubSeq(Whole', 1, d * Units - Len(out') + outPos')
    BY <1>1, <1>2, <1>3, <2>1
  <2> QED BY <1>2, <2>1, <2>2 DEF InPlace
<1>6. Held(d, a)' /\ AtEnd(d)' /\ Ahead(d)'
  BY <1>1 DEF Decoding, Held, AtEnd, Ahead, Behind, Blocks, First, Total, Steady, Span
<1>7. Decoding(d, a)'
  BY <1>5, <1>6 DEF Decoding
<1>8. d \in 0 .. Total' /\ a \in 0 .. pos'
  BY <1>1, <1>2
<1> QED BY <1>4, <1>7, <1>8 DEF SomeDecoding

-----------------------------------------------------------------------------
(* The invariant holds, and what follows from it                           *)

\* Where a call failed, the promise ends.
LEMMA CleanBefore ==
  ASSUME TypeOK, Clean', Next
  PROVE  Clean /\ failures' = failures
<1>1. failures \in Nat /\ failures' = 0
  BY StreamingAssumption DEF TypeOK, Clean
<1>2. failures' = failures \/ failures' = failures + 1
  BY DEF Next, Read, ServeBuffered, ReadExhausted, TooFew, FillAndServe, SourceFails, Error, GivenUp, vars
<1>3. failures' = failures /\ failures = 0
  BY <1>1, <1>2
<1>4. input' = input
  BY DEF Next, Read, ServeBuffered, ReadExhausted, TooFew, FillAndServe, SourceFails, Error, GivenUp, vars
<1> QED BY <1>3, <1>4 DEF Clean, Blocks

LEMMA CleanInit == Init => SomeDecoding
<1> SUFFICES ASSUME Init PROVE SomeDecoding
  OBVIOUS
<1>0. TypeOK
  BY TypeInit
<1>1. /\ out = <<>> /\ outPos = 0 /\ delivered = <<>> /\ eof = FALSE
      /\ comp = Bytes(0, HeaderSize) /\ pos = HeaderSize
  BY DEF Init
<1>2. /\ Total \in Nat /\ Blocks = 1 .. Total /\ Units \in Nat /\ input.size \in Nat
      /\ \A c \in Blocks : First(c) \in Nat
      /\ HeaderSize \in Nat \ {0} /\ HeaderSize <= Window /\ HeaderSize <= input.size
  BY <1>0, FileType, StreamingAssumption, FilesAssumption DEF TypeOK
<1>3. 0 \in 0 .. Total /\ 0 \in 0 .. pos
  BY <1>1, <1>2
<1>4. InPlace(0)
  <2>1. 0 * Units = 0 /\ Len(out) = 0 /\ Whole \in Seq(Pieces)
    BY <1>0, <1>1, <1>2, WholeIs DEF TypeOK
  <2>2. /\ Len(out) <= 0 * Units
        /\ out = SubSeq(Whole, 0 * Units - Len(out) + 1, 0 * Units)
        /\ SubSeq(Whole, 1, 0 * Units - Len(out) + 0) = SubSeq(Whole, 1, 0 * Units)
    BY <1>0, <1>1, <1>3, Emptied
  <2>3. SubSeq(Whole, 1, 0) = <<>>
    BY <2>1, SMT
  <2>4. delivered = SubSeq(Whole, 1, 0 * Units)
    BY <1>1, <2>1, <2>3
  <2>5. delivered = SubSeq(Whole, 1, 0 * Units - Len(out) + outPos)
    BY <1>1, <2>2, <2>4
  <2> QED BY <2>2, <2>5 DEF InPlace
<1>5. Held(0, 0)
  <2>1. 0 * ByteBits = 0
    BY Widths
  <2>2. \A c \in Blocks : c <= 0 <=> First(c) < 0
    BY <1>2
  <2> QED BY <1>1, <2>1, <2>2 DEF Held, Behind
<1>6. AtEnd(0)
  BY <1>1, <1>2 DEF AtEnd
<1>7. Ahead(0)
  <2> SUFFICES ASSUME Steady
               PROVE  /\ First(1) <= pos * ByteBits
                      /\ (Len(comp) - 1) * ByteBits < Span(1) + Window * ByteBits
    BY DEF Ahead
  <2> DEFINE f == First(1)
             hB == HeaderSize * ByteBits
             W == Window * ByteBits
             S == input.size * ByteBits
             sp == Span(1)
  <2>1. f = hB /\ 1 \in Blocks
    BY <1>2 DEF Steady
  <2>2. hB \in Nat /\ W \in Nat /\ S \in Nat /\ f \in Nat /\ ByteBits \in Nat \ {0}
    BY <1>2, <2>1, StretchBits, Widths
  <2>3. hB <= W /\ hB <= S
    <3>1. ByteBits * HeaderSize <= ByteBits * Window /\ ByteBits * HeaderSize <= ByteBits * input.size
      BY <1>2, <2>2, MulMono, Widths
    <3>2. /\ ByteBits * HeaderSize = hB /\ ByteBits * Window = W /\ ByteBits * input.size = S
      BY <1>2, <2>2, Products, Widths
    <3> QED BY <3>1, <3>2
  <2>4. Len(comp) = HeaderSize
    <3>1. 0 <= HeaderSize /\ HeaderSize - 0 = HeaderSize
      BY <1>2
    <3>2. Len(Bytes(0, HeaderSize)) = HeaderSize - 0
      BY <1>2, <3>1, StretchOfBytes
    <3> QED BY <1>1, <3>1, <3>2
  <2>5. (Len(comp) - 1) * ByteBits = hB - ByteBits
    BY <1>2, <2>2, <2>4, LessOne
  <2>6. sp \in Int /\ sp >= 0
    <3>1. sp \in Int /\ (1 + 1 \in Blocks => sp > 0) /\ (~(1 + 1 \in Blocks) => f + sp = S)
      BY <1>0, <2>1, SpanIs
    <3> HIDE DEF f, hB, W, S, sp
    <3> QED BY <2>1, <2>2, <2>3, <3>1
  <2> HIDE DEF f, hB, W, S, sp
  <2>7. hB - ByteBits < sp + W
    BY <2>2, <2>3, <2>6
  <2>8. f <= hB
    BY <2>1, <2>2
  <2> QED BY <1>1, <2>5, <2>7, <2>8 DEF f, hB, W, sp
<1>8. Decoding(0, 0)
  BY <1>4, <1>5, <1>6, <1>7 DEF Decoding
<1> QED BY <1>3, <1>8 DEF SomeDecoding

\* One step: the invariant, and the promise while no call has failed.
LEMMA StreamStep ==
  ASSUME TypeOK, CleanInv, Next
  PROVE  CleanInv' /\ (Clean /\ Steady => [Promise!Next]_(Promise!vars))
<1>1. ASSUME Clean
      PROVE  (Clean' => SomeDecoding') /\ (Steady => [Promise!Next]_(Promise!vars))
  <2>1. PICK d \in 0 .. Total : \E a \in 0 .. pos : Decoding(d, a)
    BY <1>1 DEF CleanInv, SomeDecoding
  <2>2. PICK a \in 0 .. pos : Decoding(d, a)
    BY <2>1
  <2>3. CASE \E k \in BufSizes : ServeBuffered(k)
    <3>1. PICK k \in BufSizes : ServeBuffered(k)
      BY <2>3
    <3>2. Promise!Piece /\ Decoding(d, a)'
      BY <2>2, <3>1, ServeMoves
    <3>3. d \in 0 .. Total' /\ a \in 0 .. pos'
      BY <3>1 DEF ServeBuffered, Total
    <3> QED BY <3>2, <3>3 DEF SomeDecoding, Promise!Next
  <2>4. CASE \E k \in BufSizes : FillAndServe(k)
    BY <1>1, <2>2, <2>4, FillMoves DEF Promise!Next
  <2>5. CASE ReadExhausted
    BY <1>1, <2>2, <2>5, ExhaustedMoves DEF Promise!Next
  <2>6. CASE TooFew
    BY <1>1, <2>2, <2>6, TooFewMoves DEF Promise!Next
  <2>7. CASE \E e \in ErrorsAfter : SourceFails(e)
    <3>1. Error
      BY <2>7 DEF SourceFails
    <3>2. ~ Clean'
      <4>1. failures \in Nat /\ failures' = failures + 1
        BY <3>1, StreamingAssumption DEF TypeOK, Error
      <4> QED BY <4>1 DEF Clean
    <3>3. Promise!Fail
      BY <3>1 DEF Error, Promise!Fail, Whole, Blocks, OutputOf
    <3> QED BY <3>2, <3>3 DEF Promise!Next
  <2>8. CASE GivenUp
    <3>1. SomeDecoding'
      <4>1. SomeDecoding
        BY <2>1 DEF SomeDecoding
      <4> QED BY <2>8, <4>1 DEF GivenUp, vars, SomeDecoding, Decoding, InPlace, Held, Behind, AtEnd, Ahead,
                               Total, Whole, Blocks, First, OutputOf, Steady, Span
    <3>2. UNCHANGED Promise!vars
      BY <2>8 DEF GivenUp, vars, Promise!vars, Whole, Blocks, OutputOf
    <3> QED BY <3>1, <3>2
  <2> QED BY <2>3, <2>4, <2>5, <2>6, <2>7, <2>8 DEF Next, Read
<1>2. Clean' => SomeDecoding'
  BY <1>1, CleanBefore
<1>3. CleanInv'
  BY <1>2 DEF CleanInv, SomeDecoding
<1> QED BY <1>1, <1>3

LEMMA StreamStutters == CleanInv /\ UNCHANGED vars => CleanInv'
BY DEF vars, CleanInv, SomeDecoding, Clean, Decoding, InPlace, Held, Behind, AtEnd, Ahead,
       Total, Whole, Blocks, First, OutputOf, Steady, Span

LEMMA StreamInvHolds == Spec => []StreamInv
<1>1. Init => StreamInv
  BY TypeInit, CleanInit DEF StreamInv, CleanInv, SomeDecoding
<1>2. StreamInv /\ [Next]_vars => StreamInv'
  BY TypeStep, StreamStep, StreamStutters DEF StreamInv
<1> QED BY <1>1, <1>2, PTL DEF Spec

\* The blocks decoded, as counted from what the caller has.
LEMMA DoneIs ==
  ASSUME TypeOK, NEW d \in 0 .. Total, InPlace(d)
  PROVE  BlocksDone = d
<1> DEFINE e == d * Units
           L == Len(out)
           x == e - L + outPos
<1>1. e \in 0 .. Len(Whole) /\ e \in Nat /\ Whole \in Seq(Pieces) /\ L \in Nat /\ L <= e
      /\ outPos \in 0 .. L /\ delivered = SubSeq(Whole, 1, x) /\ d \in Nat /\ Units \in Nat \ {0}
      /\ Units * d = e
  <2>1. d \in Nat /\ Units \in Nat \ {0}
    BY FileType
  <2>2. Units * d = e
    BY <2>1, Products
  <2> QED BY <2>1, <2>2, PiecesOf DEF TypeOK, InPlace
<1> HIDE DEF e, L
<1>2. x \in Nat /\ x <= Len(Whole)
  BY <1>1
<1>3. Len(delivered) = x
  <2> HIDE DEF x
  <2> QED BY <1>1, <1>2, SubSeqProperties
<1>4. Len(delivered) + L - outPos = e
  BY <1>1, <1>3
<1>5. (Units * d + 0) \div Units = d
  BY <1>1, DivUnique
<1>6. Units * d + 0 = e
  BY <1>1
<1> QED BY <1>4, <1>5, <1>6 DEF BlocksDone, L

\* Draining loses no block: as long as no call failed, comp_buf is all that was
\* read from a bit on that is not behind the next block.
THEOREM UndecodedKept == Spec => []KeepsUndecoded
<1>1. StreamInv => KeepsUndecoded
  <2> SUFFICES ASSUME StreamInv, Clean
               PROVE  /\ comp # <<>> => comp = Bytes(pos - Len(comp), pos)
                      /\ BlocksDone + 1 \in Blocks =>
                           First(BlocksDone + 1) \div ByteBits >= pos - Len(comp)
    BY DEF KeepsUndecoded
  <2>1. PICK d \in 0 .. Total : \E a \in 0 .. pos : Decoding(d, a)
    BY DEF StreamInv, CleanInv, SomeDecoding
  <2>2. PICK a \in 0 .. pos : Decoding(d, a)
    BY <2>1
  <2>3. /\ BlocksDone = d /\ pos \in Nat /\ a \in Nat /\ a <= pos /\ d \in Nat
        /\ \A c \in Blocks : First(c) \in Nat
    BY <2>2, DoneIs, FileType DEF StreamInv, Decoding
  <2>4. comp = Bytes(a, pos) /\ pos - Len(comp) = a
    <3>1. Len(Bytes(a, pos)) = pos - a
      BY <2>3, StretchOfBytes
    <3>2. comp = Bytes(a, pos)
      BY <2>2 DEF Decoding, Held
    <3> QED BY <2>3, <3>1, <3>2
  <2>5. ASSUME d + 1 \in Blocks PROVE First(d + 1) \div ByteBits >= a
    <3> DEFINE f == First(d + 1)
    <3>1. ~(f < a * ByteBits) /\ f \in Nat
      BY <2>2, <2>3, <2>5 DEF Decoding, Held, Behind
    <3> HIDE DEF f
    <3>2. f \div ByteBits < a <=> f < a * ByteBits
      BY <2>3, <3>1, BitsAndBytes
    <3>3. f \div ByteBits \in Nat
      BY <2>3, <3>1, BitsAndBytes
    <3> QED BY <2>3, <3>1, <3>2, <3>3 DEF f
  <2> QED BY <2>3, <2>4, <2>5
<1> QED BY <1>1, StreamInvHolds, PTL

\* Memory is bounded: behind a call that read ahead, comp_buf holds the next
\* block with what follows it and the window of the scan, and no more.
THEOREM MemoryBounded == Spec => []BufferBounded
<1>1. StreamInv => BufferBounded
  <2> SUFFICES ASSUME StreamInv, Clean, Steady
               PROVE  \/ eof /\ comp = <<>>
                      \/ /\ BlocksDone + 1 \in Blocks
                         /\ (Len(comp) - 1) * ByteBits < Span(BlocksDone + 1) + Window * ByteBits
    BY DEF BufferBounded
  <2>1. PICK d \in 0 .. Total : \E a \in 0 .. pos : Decoding(d, a)
    BY DEF StreamInv, CleanInv, SomeDecoding
  <2>2. PICK a \in 0 .. pos : Decoding(d, a)
    BY <2>1
  <2>3. BlocksDone = d /\ Total \in Nat /\ Blocks = 1 .. Total /\ eof \in BOOLEAN
    BY <2>2, DoneIs, FileType DEF StreamInv, Decoding, TypeOK
  <2>4. CASE eof
    BY <2>2, <2>4 DEF Decoding, AtEnd
  <2>5. CASE ~ eof
    <3>1. d < Total
      BY <2>2, <2>5 DEF Decoding, AtEnd, Steady
    <3>2. d + 1 \in Blocks
      BY <2>3, <3>1
    <3> QED BY <2>2, <2>3, <2>5, <3>2 DEF Decoding, Ahead
  <2> QED BY <2>4, <2>5
<1> QED BY <1>1, StreamInvHolds, PTL

\* Up to the first call that fails, StreamingBz2Read keeps the promise of Read
\* for a complete file whose blocks fit the chunks: each call hands out the next
\* piece of the output, and Ok(0) says that it is complete.
THEOREM StreamKeepsPromise == Spec => KeepsPromise
<1>1. Init => Promise!Init
  BY DEF Init, Promise!Init
<1>2. StreamInv /\ [Next]_vars => [Clean /\ Steady => Promise!Next]_(Promise!vars)
  <2>1. ASSUME StreamInv, Next PROVE [Clean /\ Steady => Promise!Next]_(Promise!vars)
    BY <2>1, StreamStep DEF StreamInv
  <2>2. ASSUME UNCHANGED vars PROVE UNCHANGED Promise!vars
    BY <2>2 DEF vars, Promise!vars, Whole, Blocks, OutputOf
  <2> QED BY <2>1, <2>2
<1> QED BY <1>1, <1>2, StreamInvHolds, PTL DEF Spec, KeepsPromise
=============================================================================
