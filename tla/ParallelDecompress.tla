------------------------- MODULE ParallelDecompress -------------------------
(***************************************************************************)
(* decompress_parallel (src/parallel.rs): find_all_blocks_parallel maps    *)
(* the parts of the buffer to the magics they hold, the union of which is  *)
(* mapped to decoded blocks.  Both maps run on the threads of par_map.     *)
(*                                                                         *)
(* What decode_block makes of a magic that starts no complete block is the *)
(* fate the file gives to its bit: "error", "rubbish" or "panic".          *)
(***************************************************************************)
EXTENDS FileBuffer, ParMap, SequencesExt

CONSTANTS
  Parallelism,  \* values of available_parallelism() considered
  Inputs        \* the files considered, with the field fate

ASSUME ParallelismAssumption == Parallelism \subseteq Nat \ {0}

ASSUME FilesAssumption == \A f \in Inputs : WellFormed(f)

VARIABLES
  input,       \* data
  n,           \* n_threads
  phase,       \* "scan", "merge", "decode", "assemble", "done", "panicked"
  boundaries,  \* the boundaries found
  answer       \* what was returned: [ok, blocks]

mainVars == <<input, n, phase, boundaries, answer>>
vars == <<mainVars, mapVars>>

Blocks == DOMAIN input.blocks
Data == Bytes(0, input.size)

Rubbish == 0

\* decode_block at bit start: the set of its block, or {} for an error.
Decode(start) ==
  LET hit == BlockAt(input, Data, start)
  IN  IF hit = {} /\ input.fate[start] # "error" THEN {Rubbish} ELSE hit
Panics(start) == BlockAt(input, Data, start) = {} /\ input.fate[start] = "panic"

DecodeJob(starts) ==
  [values |-> [i \in DOMAIN starts |-> Decode(starts[i])],
   panics |-> {i \in DOMAIN starts : Panics(starts[i])}]

Init ==
  /\ input \in Inputs /\ n \in Parallelism
  /\ phase = "scan" /\ boundaries = <<>>
  /\ answer = [ok |-> FALSE, blocks |-> <<>>]
  /\ MapInit

\* One thread, or a short buffer: the serial scan.
ScanSerially ==
  /\ phase = "scan"
  /\ input.size < 2 * Window \/ n = 1
  /\ \E buf \in {Buffer(input, Data)} : boundaries' = Sorted(FindAllBlocks(buf))
  /\ phase' = "decode"
  /\ UNCHANGED <<input, n, answer, mapVars>>

ScanParts ==
  /\ phase = "scan"
  /\ input.size >= 2 * Window /\ n > 1
  /\ \E buf \in {Buffer(input, Data)} :
       Call([values |-> [i \in 1 .. n |-> ScanPart(buf, n, i - 1)], panics |-> {}])
  /\ phase' = "merge"
  /\ UNCHANGED <<input, n, boundaries, answer>>

\* Faulty variant: what two parts both found is not deduplicated.
MergeTwice ==
  /\ phase = "merge" /\ status = "returned"
  /\ boundaries' = FlattenSeq([i \in DOMAIN result |-> Sorted(result[i])])
  /\ phase' = "decode"
  /\ UNCHANGED <<input, n, answer, mapVars>>

\* Concatenated, sorted and deduplicated.
Merge ==
  /\ phase = "merge" /\ status = "returned"
  /\ boundaries' = Sorted(UNION {result[i] : i \in DOMAIN result})
  /\ phase' = "decode"
  /\ UNCHANGED <<input, n, answer, mapVars>>

NoBlocks ==
  /\ phase = "decode" /\ boundaries = <<>>
  /\ answer' = [ok |-> TRUE, blocks |-> <<>>]
  /\ phase' = "done"
  /\ UNCHANGED <<input, n, boundaries, mapVars>>

DecodeAll ==
  /\ phase = "decode" /\ boundaries # <<>>
  /\ \E j \in {DecodeJob(boundaries)} : Call(j)
  /\ phase' = "assemble"
  /\ UNCHANGED <<input, n, boundaries, answer>>

\* Any error is the answer; otherwise the outputs in the order of boundaries.
Assemble ==
  /\ phase = "assemble" /\ status = "returned"
  /\ answer' = IF \E i \in DOMAIN result : result[i] = {}
               THEN [ok |-> FALSE, blocks |-> <<>>]
               ELSE [ok |-> TRUE, blocks |-> [i \in DOMAIN result |-> Min(result[i])]]
  /\ phase' = "done"
  /\ UNCHANGED <<input, n, boundaries, mapVars>>

Unwind ==
  /\ phase \in {"merge", "assemble"} /\ status = "panicked"
  /\ phase' = "panicked"
  /\ UNCHANGED <<input, n, boundaries, answer, mapVars>>

MainStep == ScanSerially \/ ScanParts \/ Merge \/ NoBlocks \/ DecodeAll
            \/ Assemble \/ Unwind

Finished == phase \in {"done", "panicked"} /\ UNCHANGED vars

Next == MainStep \/ (MapStep /\ UNCHANGED mainVars) \/ Finished

\* The operating system schedules every thread.
Fairness ==
  /\ WF_vars(MainStep) /\ WF_vars(Join /\ UNCHANGED mainVars)
  /\ \A t \in Threads : WF_vars(ThreadStep(t) /\ UNCHANGED mainVars)

Spec == Init /\ [][Next]_vars /\ Fairness

-----------------------------------------------------------------------------
(* Properties                                                              *)

\* Every variable has its type.
TypeOK ==
  /\ n \in Parallelism
  /\ phase \in {"scan", "merge", "decode", "assemble", "idle", "batch", "done", "panicked"}
  /\ boundaries \in Seq(0 .. input.size * ByteBits)
  /\ answer.ok \in BOOLEAN /\ answer.blocks \in Seq(Blocks \cup {Rubbish})
  /\ next \in 1 .. Len(job.values) + WorkerCount + 1
  /\ thread \in [Threads -> {"claim", "busy", "done", "panicked"}]
  /\ item \in [Threads -> 0 .. Len(job.values)]
  /\ DOMAIN slots = Indexes
  /\ status \in {"idle", "running", "returned", "panicked"}

Scanned == phase \in {"decode", "assemble", "done"}

\* "producing the identical boundary set" (parallel.rs:38): the parts find what
\* the serial scan finds, wherever the cuts fall.
IdenticalBoundaries ==
  Scanned => boundaries = Sorted(FindAllBlocks(Buffer(input, Data)))

\* A window holds the magic wherever its strides began; closer to the end they
\* see it or not, depending on the byte they began at.
InSight(m) == m + Window * ByteBits <= input.size * ByteBits

\* Of magics that overlap a scan sees the one or the other, depending on where
\* it began.
MagicsOverlap ==
  \E m, o \in Buffer(input, Data).marks : m < o /\ o < m + MagicBits

\* The boundaries are magics, in order and each once, and no magic is missed
\* wherever the parts are cut, but one that overlaps another that was found or
\* one in the last bytes of the buffer.  Of the serial scan they differ in such
\* magics only.
NoMagicMissed ==
  Scanned =>
    LET buf == Buffer(input, Data)
        found == ToSet(boundaries)
        serial == FindAllBlocks(buf)
    IN  /\ boundaries = Sorted(found) /\ found \subseteq buf.marks
        /\ \A m \in buf.marks :
             InSight(m) => \E o \in found : o <= m /\ m < o + MagicBits
        /\ ~MagicsOverlap =>
             \A m \in (found \ serial) \cup (serial \ found) : ~InSight(m)

\* A complete file without a magic by coincidence decompresses to its blocks
\* in order, whatever the threads do.
Intact == input.fakes = {} /\ \A b \in Blocks : input.blocks[b].end < input.size * ByteBits
IntactDecompresses ==
  /\ Intact /\ phase = "done" =>
       answer = [ok |-> TRUE, blocks |-> [b \in Blocks |-> b]]
  /\ Intact => phase # "panicked"

\* A file cut short at any byte gives an error, a panic, or whole blocks from
\* the first on; a block that is not there is never made up, except from the
\* one that is cut.
OkIsPrefix ==
  phase = "done" /\ answer.ok /\ input.fakes = {} =>
    \A i \in DOMAIN answer.blocks :
      answer.blocks[i] = i \/ (answer.blocks[i] = Rubbish /\ i = Len(answer.blocks))

\* Every call comes to an end.
Finishes == <>(phase \in {"done", "panicked", "idle"})
=============================================================================
