--------------------------- MODULE StreamingRead ---------------------------
(***************************************************************************)
(* StreamingBz2Read (src/reader.rs): an implementation of Read that keeps  *)
(* the compressed bytes from the first block not decoded yet, and per fill *)
(* adds a chunk of the source to them, decodes all blocks but the last and *)
(* serves their output in pieces.  An action is a whole call of read().    *)
(*                                                                         *)
(* A block decodes to Units pieces of output, <<b, 1>> .. <<b, Units>>;    *)
(* nothing checks its CRC, so what begins with a magic but is no complete  *)
(* block may give an error or rubbish.                                     *)
(***************************************************************************)
EXTENDS FileBuffer, SequencesExt

CONSTANTS
  ChunkSize,   \* CHUNK_BYTES: bytes one fill reads from the source
  HeaderSize,  \* 4: "BZhN", read by new()
  Units,       \* pieces of output of a block
  BufSizes,    \* lengths, in pieces, of the buffers read() is called with
  ErrorsAfter, \* bytes of a fill after which the source may fail
  Retries,     \* failed calls after which the caller still tries again
  Inputs       \* the files considered

ASSUME StreamingAssumption ==
  /\ {ChunkSize, HeaderSize, Units} \cup BufSizes \subseteq Nat \ {0}
  /\ HeaderSize <= Window
  /\ ErrorsAfter \subseteq 0 .. ChunkSize - 1
  /\ Retries \in Nat

\* new() fails unless it can read a header.
ASSUME FilesAssumption == \A f \in Inputs : WellFormed(f) /\ HeaderSize <= f.size

VARIABLES
  input,      \* the file behind source
  pos,        \* bytes taken from source
  comp,       \* comp_buf
  eof,        \* source_eof
  out,        \* out_buf
  outPos,     \* out_pos
  delivered,  \* the pieces the caller has received
  reply,      \* the last answer: "none", "bytes", "zero", "error"
  failures    \* calls that failed so far

vars == <<input, pos, comp, eof, out, outPos, delivered, reply, failures>>

Blocks == DOMAIN input.blocks
First(b) == input.blocks[b].first
OutputOf(b) == [u \in 1 .. Units |-> <<b, u>>]
Rubbish == <<0, 1>>
Whole == FlattenSeq([b \in Blocks |-> OutputOf(b)])

Init ==
  /\ input \in Inputs
  /\ pos = HeaderSize
  /\ comp = Bytes(0, HeaderSize)
  /\ eof = FALSE
  /\ out = <<>> /\ outPos = 0
  /\ delivered = <<>> /\ reply = "none" /\ failures = 0

\* Copying up to k pieces of units, from the given one on, to the caller.
Deliver(units, from, k) ==
  LET n == Min({k, Len(units) - from}) IN
  /\ delivered' = delivered \o SubSeq(units, from + 1, from + n)
  /\ outPos' = from + n
  /\ reply' = IF n > 0 THEN "bytes" ELSE "zero"

Error ==
  /\ reply' = "error"
  /\ failures' = failures + 1
  /\ UNCHANGED <<input, delivered>>

Calls == failures <= Retries
Fills == Calls /\ outPos >= Len(out)
Exhausted == eof /\ Len(comp) <= HeaderSize

\* Faulty variant: the end of the file is not seen.
ReadLenEndless == IF eof THEN 0 ELSE ChunkSize

ReadLen == IF eof THEN 0 ELSE Min({ChunkSize, input.size - pos})
Eof == ReadLen < ChunkSize

\* What the fill finds in comp_buf behind the read, and how much of it it
\* decodes: a block at the end of an unfinished file may be incomplete.
Refills == {comp \o Bytes(pos, pos + ReadLen)}
Boundaries(data) == {Sorted(found) : found \in {FindAllBlocks(buf) : buf \in {Buffer(input, data)}}}
\* Faulty variant: the last block is decoded although it may be incomplete.
DecodeCountAll(boundaries) == Len(boundaries)

DecodeCount(boundaries) == IF Eof THEN Len(boundaries) ELSE Len(boundaries) - 1

\* decode_block at each of count boundaries, unless it fails.
BlocksAt(data, boundaries, count) ==
  [i \in 1 .. count |-> BlockAt(input, data, boundaries[i])]
Decoded(hit) == IF hit = {} THEN <<Rubbish>> ELSE OutputOf(Min(hit))

\* Faulty variants: the byte the next block begins in is drained if it holds
\* the end of this one; the last block decoded is kept.
DrainedWhole(data, boundaries, count) ==
  IF count < Len(boundaries)
  THEN SubSeq(data, (boundaries[count + 1] + ByteBits - 1) \div ByteBits + 1, Len(data))
  ELSE <<>>
DrainedLess(data, boundaries, count) ==
  IF count < Len(boundaries)
  THEN SubSeq(data, boundaries[count] \div ByteBits + 1, Len(data))
  ELSE <<>>

\* comp_buf from the byte of the first boundary not decoded on.
Drained(data, boundaries, count) ==
  IF count < Len(boundaries)
  THEN SubSeq(data, boundaries[count + 1] \div ByteBits + 1, Len(data))
  ELSE <<>>

ServeBuffered(k) ==
  /\ Calls /\ outPos < Len(out)
  /\ Deliver(out, outPos, k)
  /\ UNCHANGED <<input, pos, comp, eof, out, failures>>

ReadExhausted ==
  /\ Fills /\ Exhausted
  /\ out' = <<>> /\ outPos' = 0
  /\ reply' = "zero"
  /\ UNCHANGED <<input, pos, comp, eof, delivered, failures>>

\* The source fails after e bytes: comp_buf stays resized, its rest zero.
SourceFails(e) ==
  /\ Fills /\ ~Exhausted /\ ~eof
  /\ e <= input.size - pos
  /\ comp' = comp \o Bytes(pos, pos + e) \o [i \in 1 .. ChunkSize - e |-> Junk]
  /\ pos' = pos + e
  /\ Error
  /\ UNCHANGED <<eof, out, outPos>>

\* Faulty variant: a chunk with a single boundary is thrown away.
TooFewDropped ==
  /\ Fills /\ ~Exhausted
  /\ pos' = pos + ReadLen
  /\ eof' = Eof
  /\ reply' = "zero"
  /\ \E data \in Refills : \E boundaries \in Boundaries(data) :
       \/ boundaries = <<>> /\ Eof /\ comp' = <<>> /\ out' = <<>> /\ outPos' = 0
       \/ Len(boundaries) <= 1 /\ ~Eof /\ comp' = <<>> /\ UNCHANGED <<out, outPos>>
  /\ UNCHANGED <<input, delivered, failures>>

\* No boundary, or a single one that may be incomplete.
TooFew ==
  /\ Fills /\ ~Exhausted
  /\ pos' = pos + ReadLen
  /\ eof' = Eof
  /\ reply' = "zero"
  /\ \E data \in Refills : \E boundaries \in Boundaries(data) :
       \/ boundaries = <<>> /\ Eof /\ comp' = <<>> /\ out' = <<>> /\ outPos' = 0
       \/ Len(boundaries) <= 1 /\ ~Eof /\ comp' = data /\ UNCHANGED <<out, outPos>>
  /\ UNCHANGED <<input, delivered, failures>>

\* The outputs are put into out_buf up to the first that failed.
FillAndServe(k) ==
  /\ Fills /\ ~Exhausted
  /\ pos' = pos + ReadLen
  /\ eof' = Eof
  /\ \E data \in Refills : \E boundaries \in Boundaries(data) :
       LET count == DecodeCount(boundaries) IN
       /\ count > 0
       /\ \E hits \in {BlocksAt(data, boundaries, count)} :
          \E failed \in SUBSET {i \in 1 .. count : hits[i] = {}} :
            \/ /\ failed = {}
               /\ out' = FlattenSeq([i \in 1 .. count |-> Decoded(hits[i])])
               /\ comp' = Drained(data, boundaries, count)
               /\ Deliver(out', 0, k)
               /\ UNCHANGED <<input, failures>>
            \/ /\ failed # {}
               /\ out' = FlattenSeq([i \in 1 .. Min(failed) - 1 |-> Decoded(hits[i])])
               /\ outPos' = 0
               /\ comp' = data
               /\ Error

GivenUp == ~Calls /\ UNCHANGED vars

Read ==
  \/ \E k \in BufSizes : ServeBuffered(k) \/ FillAndServe(k)
  \/ ReadExhausted \/ TooFew
  \/ \E e \in ErrorsAfter : SourceFails(e)

Next == Read \/ GivenUp

\* The caller keeps calling until it has given up, also after Ok(0), at which
\* read_to_end would stop.
Spec == Init /\ [][Next]_vars /\ WF_vars(Read)

-----------------------------------------------------------------------------
(* Properties                                                              *)

Pieces == ({0} \cup Blocks) \X (1 .. Units)

\* Every variable has its type.
TypeOK ==
  /\ input \in Inputs
  /\ pos \in 0 .. input.size
  /\ comp \in Seq({Junk} \cup 0 .. input.size - 1)
  /\ eof \in BOOLEAN
  /\ out \in Seq(Pieces) /\ outPos \in 0 .. Len(out)
  /\ delivered \in Seq(Pieces)
  /\ reply \in {"none", "bytes", "zero", "error"}
  /\ failures \in 0 .. Retries + 1

\* From the start of a block to the start of the next or the end of the file.
Span(b) ==
  (IF b + 1 \in Blocks THEN First(b + 1) ELSE input.size * ByteBits) - First(b)

\* Wherever a full chunk ends, the next block but one has already begun: there
\* are blocks, from behind the header on, and each fits a chunk with all that
\* follows it and the window of the scan.
Steady ==
  /\ Blocks # {} /\ First(1) = HeaderSize * ByteBits
  /\ \A b \in Blocks : Span(b) + Window * ByteBits <= ChunkSize * ByteBits

\* No call failed, no magic occurs by coincidence, and the file is complete.
Clean ==
  /\ failures = 0 /\ input.fakes = {}
  /\ \A b \in Blocks : input.blocks[b].end <= input.size * ByteBits

\* Up to the first call that fails, read() keeps the promise of Read for a
\* complete file: the output in order, nothing twice, no byte with an error,
\* and Ok(0) only at the end.
Promise == INSTANCE ReadContract WITH whole <- Whole
KeepsPromise ==
  Promise!Init /\ [][Clean /\ Steady => Promise!Next]_(Promise!vars)

\* The blocks decoded so far.
BlocksDone == (Len(delivered) + Len(out) - outPos) \div Units

\* Between two calls comp_buf is all that was read from some bit on, and no
\* block not decoded yet begins before it: draining loses no block.
KeepsUndecoded ==
  Clean =>
    /\ comp # <<>> => comp = Bytes(pos - Len(comp), pos)
    /\ BlocksDone + 1 \in Blocks => First(BlocksDone + 1) \div ByteBits >= pos - Len(comp)

\* Memory is bounded: behind a call comp_buf holds the compressed bytes of the
\* next block and no more, however large the file.
BufferBounded ==
  Clean /\ Steady =>
    \/ eof /\ comp = <<>>
    \/ /\ BlocksDone + 1 \in Blocks
       /\ (Len(comp) - 1) * ByteBits < Span(BlocksDone + 1) + Window * ByteBits

\* A caller that goes on reading behind Ok(0), too, receives the whole file, even
\* where Ok(0) came too early, unless a call failed.
AllArrives == <>(delivered = Whole \/ ~Clean)

\* "return Ok(0); // EOF": zero bytes mean that the output is complete.
ZeroIsEof == reply = "zero" => delivered = Whole
=============================================================================
