----------------------------- MODULE SliceRead -----------------------------
(***************************************************************************)
(* ParallelBz2Read (src/reader.rs): an implementation of Read over a whole *)
(* buffer.  new() finds all boundaries; a read() that finds its buffer     *)
(* used up decodes the next batch of blocks on the threads of par_map.     *)
(*                                                                         *)
(* A piece of output is what a block decodes to; a call copies whole       *)
(* pieces.  phase is "idle" between two calls and "batch" in fill_batch.   *)
(***************************************************************************)
EXTENDS ParallelDecompress

CONSTANTS
  BatchSize,   \* BATCH_SIZE
  BufSizes,    \* lengths, in pieces, of the buffers read() is called with
  Retries      \* failed calls after which the caller still tries again

ASSUME SliceAssumption ==
  /\ {BatchSize} \cup BufSizes \subseteq Nat \ {0}
  /\ Retries \in Nat

VARIABLES
  starts,     \* boundaries, a field of the reader
  nextBlock,  \* next_block
  buf,        \* buf
  bufPos,     \* buf_pos
  delivered,  \* the pieces the caller has received
  reply,      \* the last answer: "none", "bytes", "zero", "error"
  failures    \* calls that failed so far

readVars == <<starts, nextBlock, buf, bufPos, delivered, reply, failures>>
allVars == <<vars, readVars>>

Missing == -1

Unread ==
  /\ nextBlock = 0 /\ buf = <<>> /\ bufPos = 0
  /\ delivered = <<>> /\ reply = "none" /\ failures = 0

SliceInit ==
  /\ input \in Inputs /\ n = 1
  /\ phase = "idle" /\ boundaries = <<>>
  /\ answer = [ok |-> FALSE, blocks |-> <<>>]
  /\ starts = Sorted(FindAllBlocks(Buffer(input, Data)))
  /\ MapInit /\ Unread

\* Faulty variant: the last piece is never reached.
CopyOutShort(units, from, k) ==
  LET m == Min({k, Len(units) - from - 1}) IN
  /\ delivered' = delivered \o SubSeq(units, from + 1, from + m)
  /\ bufPos' = from + m
  /\ reply' = IF m > 0 THEN "bytes" ELSE "zero"

\* Copying up to k pieces of units, from the given one on, to the caller.
CopyOut(units, from, k) ==
  LET m == Min({k, Len(units) - from}) IN
  /\ delivered' = delivered \o SubSeq(units, from + 1, from + m)
  /\ bufPos' = from + m
  /\ reply' = IF m > 0 THEN "bytes" ELSE "zero"

Remaining == Len(starts) - nextBlock
BatchEnd == nextBlock + Min({Remaining, BatchSize})

Calls == phase = "idle" /\ failures <= Retries
Fills == Calls /\ bufPos >= Len(buf)

ReadBuffered(k) ==
  /\ Calls /\ bufPos < Len(buf)
  /\ CopyOut(buf, bufPos, k)
  /\ UNCHANGED <<vars, nextBlock, buf, failures, starts>>

\* Faulty variant: buf_pos is not reset.
ReadAtEndKeepsPos ==
  /\ Fills /\ Remaining = 0
  /\ buf' = <<>>
  /\ reply' = "zero"
  /\ UNCHANGED <<vars, nextBlock, bufPos, delivered, failures, starts>>

ReadAtEnd ==
  /\ Fills /\ Remaining = 0
  /\ buf' = <<>> /\ bufPos' = 0
  /\ reply' = "zero"
  /\ UNCHANGED <<vars, nextBlock, delivered, failures, starts>>

FillBatch ==
  /\ Fills /\ Remaining > 0
  /\ Call(DecodeJob(SubSeq(starts, nextBlock + 1, BatchEnd)))
  /\ phase' = "batch"
  /\ UNCHANGED <<input, n, boundaries, answer, readVars>>

\* Faulty variant: only the first block of the batch is looked at.
FailedFirst == result[1] = {}

Failed == \E i \in DOMAIN result : result[i] = {}
PieceOf(value) == IF value = {} THEN Missing ELSE Min(value)

\* Faulty variant: the batch that failed is taken for done.
BatchFailsForGood ==
  /\ phase = "batch" /\ status = "returned" /\ Failed
  /\ reply' = "error" /\ failures' = failures + 1
  /\ nextBlock' = BatchEnd
  /\ phase' = "idle"
  /\ UNCHANGED <<input, n, boundaries, answer, mapVars, buf, bufPos, delivered, starts>>

\* next_block stays, so that the next call decodes the same batch again.
BatchFails ==
  /\ phase = "batch" /\ status = "returned" /\ Failed
  /\ reply' = "error" /\ failures' = failures + 1
  /\ phase' = "idle"
  /\ UNCHANGED <<input, n, boundaries, answer, mapVars, nextBlock, buf, bufPos, delivered, starts>>

BatchServes(k) ==
  /\ phase = "batch" /\ status = "returned" /\ ~Failed
  /\ buf' = [i \in DOMAIN result |-> PieceOf(result[i])]
  /\ nextBlock' = BatchEnd
  /\ CopyOut(buf', 0, k)
  /\ phase' = "idle"
  /\ UNCHANGED <<input, n, boundaries, answer, mapVars, failures, starts>>

BatchPanics ==
  /\ phase = "batch" /\ status = "panicked"
  /\ phase' = "panicked"
  /\ UNCHANGED <<input, n, boundaries, answer, mapVars, readVars>>

ReadStep ==
  \/ \E k \in BufSizes : ReadBuffered(k) \/ BatchServes(k)
  \/ ReadAtEnd \/ FillBatch \/ BatchFails \/ BatchPanics

ThreadsRun == MapStep /\ UNCHANGED <<mainVars, readVars>>

\* The caller gives up, or unwinds.
ReadEnded ==
  /\ phase = "panicked" \/ (phase = "idle" /\ ~Calls)
  /\ UNCHANGED allVars

SliceNext == ReadStep \/ ThreadsRun \/ ReadEnded

\* The caller keeps calling until it has given up.
SliceFairness ==
  /\ WF_allVars(ReadStep)
  /\ WF_allVars(Join /\ UNCHANGED <<mainVars, readVars>>)
  /\ \A t \in Threads : WF_allVars(ThreadStep(t) /\ UNCHANGED <<mainVars, readVars>>)

SliceSafeSpec == SliceInit /\ [][SliceNext]_allVars
SliceSpec == SliceSafeSpec /\ SliceFairness

-----------------------------------------------------------------------------
(* Properties                                                              *)

SliceTypeOK ==
  /\ nextBlock \in 0 .. Len(starts)
  /\ buf \in Seq(Blocks \cup {Rubbish}) /\ bufPos \in 0 .. Len(buf)
  /\ delivered \in Seq(Blocks \cup {Rubbish})
  /\ reply \in {"none", "bytes", "zero", "error"}
  /\ failures \in 0 .. Retries + 1

\* What the boundaries decode to one after the other.
Pieces == [i \in DOMAIN starts |-> PieceOf(Decode(starts[i]))]

\* read() keeps the promise of Read for every file, damaged or not, and also
\* towards a caller that tries again after an error: the output in order,
\* nothing twice, no byte with an error, Ok(0) only when all was delivered.
Promise == INSTANCE ReadContract WITH whole <- Pieces
SliceKeepsPromise == Promise!Spec

\* A batch of which a block is damaged delivers nothing: no piece of it nor
\* of a later batch ever reaches the caller.
DamageStops ==
  \A i \in DOMAIN starts : Decode(starts[i]) = {} =>
    Len(delivered) <= ((i - 1) \div BatchSize) * BatchSize

\* A caller that goes on reading an intact file receives its end.
SliceArrives ==
  [](phase = "idle" /\ Intact => <>(delivered = [b \in Blocks |-> b] /\ reply = "zero"))
=============================================================================
