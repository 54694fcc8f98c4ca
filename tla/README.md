# lbzip2-rs in TLA+

A model-checked and partly proved description of the parallel bzip2 decompressor
of this repository: how it cuts a compressed file into pieces, hands them to
threads, and puts the output together again. Paths are relative to the
repository root (`src/par.rs` is its `src/` directory).

To repeat the checks, with the TLA+ tools on the path:

    tlc -workers 2 -config MCPipeline_pipeline.cfg MCPipeline
    tlapm PipelineProofs.tla

## 1. Inventory

| Component | Code | State | Operations | What makes it correct |
|---|---|---|---|---|
| Pipeline of the `lbunzip2` binary | `src/bin/lbunzip2.rs` | six ring slots, five bounded channels, `in_flight`, `next_write_id`, `chunk_id` | reader, main, n workers, collector, writer threads; shutdown by dropping senders, then join | no slot is reused while a worker reads it through a raw pointer; output in order and complete; no deadlock; no lost slot; a failure does not look like success |
| Carry loop | `src/bin/lbunzip2.rs:293-401`, `src/chunk.rs` | `carry`, position in the file | carry + read, `split_chunk`, `decode_segment` | every block decoded once, none lost between chunks, carry fits its headroom |
| Block scanner | `src/block_scan.rs` | none | `find_next_block`, `find_all_blocks`, `find_all_blocks_parallel`, `find_quick_boundary`, `split_boundaries_parallel` | parallel scan finds what the serial scan finds; no magic lost at a cut |
| `StreamingBz2Read` | `src/reader.rs:20-193` | `comp_buf`, `out_buf`, `out_pos`, `source_eof` | `new`, `read` (with `fill`) | the contract of `Read`; nothing drained before it is decoded; bounded memory |
| `ParallelBz2Read` | `src/reader.rs:195-304` | boundaries, `next_block`, `buf` | `new`, `read` (with `fill_batch`) | the contract of `Read` |
| `par_map` | `src/par.rs` | counter, slots | claim, compute, store, join | values in index order, each computed once, no panic of its own |
| `decompress_parallel` | `src/parallel.rs` | none across calls | scan, decode, assemble | equals the serial decoder on whole files; nothing made up on cut ones |
| Serial decoder | `src/stream.rs` | none | `decompress` | the reference of all others; a cut file does not look complete |
| Segment decoder | `src/chunk.rs:75-141` | none | `decode_segment` | whole blocks of its range and no others, across padding and a second stream's header |
| Block decoder | `src/block.rs` | tables, `tt`, run, output | `decode_block`, `decode_block_into` | what was encoded comes back; no write outside a buffer, no run that overflows, an end for every input |
| Bit reader | `src/bitreader.rs` | `buffer`, `bits_in_buf`, byte position | `refill`, `read_bits`, `peek_bits`, `consume`, `skip`, `position` | every bit once and in order, also in the last eight bytes |
| Huffman tables | `src/huffman.rs` | nodes, fast table | build, decode | the fast table and the tree agree, for all lengths |
| Inverse BWT, move to front | `src/bwt.rs`, `src/mtf.rs` | - | `inverse_bwt`, `MoveToFront` | the walk along `tt` stays inside it |
| Command line, core detection, benches | `src/bin/lbunzip2.rs:29-59, 116-160`, `benches/` | - | I/O and measurement | not modelled |

Interaction in the binary:

    reader --filled--> main --work--> workers --coll--> collector
      ^                  |                   ^             |   |
      |                  +---- NewSlot ------+             |   +--write--> writer
      +------------------ slot_return --------------------+

The library's entry points share the block scanner and `par_map`, which start
threads that live for one call. All decoders end in `block.rs`, which pulls its
bits out of one `BitReader` and its symbols out of the tables of
`huffman.rs`.

Hard behaviours: the raw pointer from work items into slots whose life time
the collector decides; order of NewSlot and results in one channel; a cycle of
bounded channels; shutdown by hang-up; panics of a worker or the writer while
the others run; a chunk that cannot be split; blocks at any bit across any cut;
Ok(0); failed calls that are repeated; buffers whose size is a guess about the
content; a bit buffer that holds more than it counts; pointers inside `tt` that
nothing checks; input of any kind, since no CRC is compared. Every one is listed with its line in
`PROJECT.json`, section `hazards`.

## 2. Modules

| Module | Models | Abstracts |
|---|---|---|
| `OrderedOutput` | the promise: decoded segments in input order, each once (what the loop of `stream.rs` does) | bytes to `<<chunk, segment>>` |
| `Pipeline` | all threads and channels of `lbunzip2`, one action per step between two communications, with panics | the split of a chunk is the input `plan`; a slot is identified with the chunk in it |
| `PipelineInv` | the inductive invariant `IInv` | |
| `PipelineProofs`, `PipelineOutProofs` | theorems about `Pipeline`: types, slots and their way, then the output | |
| `BlockScan` | the scanner and `split_chunk` as functions of the positions of the magic | headers to sound or not |
| `FileBuffer` | files, buffers that hold any sequence of a file's bytes, what decoding at a bit finds | contents of blocks |
| `CarryLoop` | main's loop at the level of bytes and bits | threads (in `Pipeline`) |
| `CarryLoopProofs` | theorems about `CarryLoop` | |
| `ReadContract` | the promise of `std::io::Read` | |
| `StreamingRead` | `StreamingBz2Read`, one action per call of `read` and outcome | a block decodes to `Units` pieces |
| `ParMap` | `par_map`, one action per atomic step of a thread | `f` to its values and panics |
| `ParallelDecompress` | `decompress_parallel` composed with `ParMap`, called twice | contents of blocks |
| `SliceRead` | `ParallelBz2Read`, each `fill_batch` a call of `ParMap` | a block decodes to one piece |
| `StreamingReadProofs` | theorems about `StreamingRead` | |
| `SliceReadProofs` | theorems about `ParMap`, `ParallelDecompress` and `SliceRead` | |
| `BitSource` | the promise of the bit reader: the bits of a slice, one after the other | |
| `BitReader` | the 64-bit buffer of `BitReader` and both ways of refilling | a bit of the buffer to the positions it is the OR of |
| `Huffman` | canonical codes, the tree and the fast table, as closed forms | the order of insertions |
| `BlockDecode` | `block.rs` with `decompress` and `decode_segment` around it, on a `BitReader` | CRCs, prefetch, reuse of buffers |
| `BlockDecodeProofs` | theorems about `BlockDecode` and `BitReader` | |
| `Sorting` | the ascending sequence of a set of numbers | |
| `DataLemmas` | lemmas about numbers, recursive functions, folds, sums, powers of two, ranks, ascending and flattened sequences | |
| `ScanLemmas` | lemmas about what the scanner and `FileBuffer` find in a buffer | |
| `MC*` | instances for TLC | |

How the state corresponds to the code, where it is not a variable of the same
name:

- `Pipeline`: `free` is the length of the `slot_return` channel, `sent - got` of
  the `filled` channel (its capacity `RING_SLOTS` is in the guard of
  `ReaderSend`). `buf[c]` says who owns the slot of chunk `c`: "read" the
  reader, "filled" the channel, "split" main, "queued" the NewSlot message,
  "inflight" the collector's vector, "drain" `flush_completed`, then "recycled"
  or, dropped by unwinding, "freed". `held[w]` is the item of a busy worker.
  `collector` is its place in the code: "recv", "flush" (loop of
  `flush_completed`), "drain" (sending results), "final" (the flush behind the
  loop). A blocking `send` is an action that is not enabled while the channel
  is full, or, in one without capacity, until a receiver waits (`Room`); a `send`
  whose receiver is gone fails as in the code (`expect`, `.ok()` or `let _ =`). A panic or return of main ends the process.
- `CarryLoop`: `carry` and a slot's data are sequences of file offsets. That
  they are consecutive is checked and not assumed: what a scan or a decoder
  finds in a buffer depends on which bytes stand next to each other
  (`Occurrences`, `DecodeSegment`).
- `StreamingRead`: `comp` likewise, with `Junk` for the zeros a failed read
  leaves. What begins with a magic and is no complete block may fail or decode
  to rubbish, since nothing checks a CRC.
- `ParMap`: `slots[i]` is `{}` or the set of the stored value.
- `SliceRead`: `phase` is "idle" between two calls and "batch" inside
  `fill_batch`; the steps of the threads in between are those of `ParMap`. A
  call of `read` that needs no batch is one action.
- `BitReader`: `reader.buffer` keeps all 64 bits, those beyond `bits_in_buf`
  included, and a bit is the set of the slice's positions that were ORed into
  it. A clean bit is a set of one; `ReaderIsSource` fails as soon as a bit comes
  from two places.
- `BlockDecode`: one action per call of the reader with what the code does
  until the next, and `pc` names what is read next. `unrle.links` is `tt` after
  `inverse_bwt`: the byte and what was ORed in above it. "overflow" is a byte
  written behind the Vec of `rle2_decode_alloc`, after which nothing is defined,
  "panic" an index out of bounds or an assertion of `rle2_decode_into`, "error"
  an error of `decompress`; `decode_segment` turns errors into
  an early "done". `Reserved` leaves open whether `Vec::reserve` takes exactly
  what is needed or doubles.

Definitions called "Faulty variant" stand in no specification. Each is a
mistake somebody could make at that place in the code; exchanged for the
definition it precedes, it breaks the property `PROJECT.json` names.

## 3. Runs

### Passing

- **pipeline** (`Pipeline`; two workers, three slots, capacities 2, 3 and 1,
  three inputs of four chunks; workers and writer may panic at any moment).
  `SlotKept` (no work item points into a slot that was given back, until a failed
  write unwinds the collector, see **dangling**), `NoResultLost` (a result
  never overtakes the slot it belongs to), `SlotsConserved` (no path leaks a
  slot), `InvKept` (the inductive invariant `IInv` of the proofs, as long as
  `SlotKept`), `OutputOrdered`, `WritesInOrder` (the file receives what the serial decoder
  writes, in that order: refinement of `OrderedOutput!SafeSpec`), `RecycledInOrder`,
  and `DoneMeansComplete`: a normal end means a complete output, whatever failed
  on the way. Liveness, if nothing fails: `Drains` (the process ends) and `WritesAll`
  (the file receives all of it: the fairness of `OrderedOutput!Spec`). The inputs
  contain chunks with blank segments, a chunk handed back in the middle, an empty last
  chunk and more chunks than slots, so that slots are reused and every channel
  fills up. Deadlock is not checked, as a failure may hang the process (**hang**); without
  one, `Drains` excludes it.
- **carry** (`CarryLoop`; 1, 4, 8 and 12 workers; files of up to about 500
  bytes of the model, that is of one to three chunks). `CarryIsTheRest`,
  `CarryFits` and `AllDecoded` hold where `Roomy` does, `DecodedInOrder` always.
  `Roomy` says that a part of a slot, rounded up, fits the headroom, and that each block with what
  follows it, a header to verify and a window fits a part of a chunk. At these sizes, which
  are those of the code scaled down, 8 workers are the fewest that do. It also asks
  that the blocks begin behind the header: a first block far into the file, or a
  long tail behind the last, makes a chunk without a boundary, which main drops.
  The faults: a file that can be read up to any byte only, since a read error
  is taken for the end; any one block that fails to decode; a magic inside
  any block that passes `quick_verify_block`; and two of these at once. `AllDecoded` then
  bounds the hole: no block in front of the fault is missing, and none that begins
  more than a part of a slot behind it.
- **read** (`StreamingRead`; chunks of 24 bytes with two to five blocks each,
  buffers of 1 and 3 pieces, sources that fail, callers that try again once).
  `KeepsPromise`: up to the first failure (behind it, nothing is claimed of what a
  caller receives that tries again) every step is a step of
  `ReadContract`, where every block, with what follows it and a window, fits
  a chunk and the first stands right behind the header (`Steady`).
  `KeepsUndecoded` (nothing is drained that was not decoded), `BufferBounded`
  (in files as those of `Steady`), and `AllArrives`: a caller that goes on
  reading after Ok(0), which `read_to_end` does not (see **eof**), receives the
  whole file even where Ok(0) came too early. Neither
  bound holds without what is said there about the end: a long tail behind the
  last block, or before the first, is read and kept as a whole. The
  files include one cut inside its last block, at each byte (`CutFiles`).
- **threads** (`ParallelDecompress` and `SliceRead` on three threads; 1, 2, 3
  and 5 parts; whole files, false magics, and a file cut off at every byte; a
  behaviour is one call of `decompress_parallel` or the life of a
  `ParallelBz2Read` with batches of two blocks, buffers of 1 and 3 pieces and a
  caller that tries again once). A block that is cut or begins with a false
  magic may fail, decode to rubbish or panic. `ClaimedOnce`, `ResultInOrder`,
  `NoMagicMissed` (the boundaries are magics, in order and each once; every
  magic that a whole window can still hold is among them, or overlaps one that
  is, wherever the parts are cut; and where no two magics overlap, the parallel
  and the serial scan differ only in magics closer to the end, as **parity**
  shows. Of two that overlap, a scan sees the one or the other. The 48 bits of
  the magic overlap themselves by at most three, so that this takes a
  coincidence of 45 bits), `IntactDecompresses`, `OkIsPrefix` (also where the
  scans differ), `Finishes`; for the
  reader `DamageStops` (nothing of a batch with a damaged block is delivered,
  however often the caller tries), `SliceKeepsPromise` (refinement of
  `ReadContract`) and `SliceArrives` (whoever goes on reading has the whole file or
  an error).
- **decode** (`BlockDecode`). Files come from an encoder written down in
  `MCBlockDecode`: runs, sorted rotations, move to front, canonical codes.
  `RoundTrip`: whole files decode to what was encoded, one and two blocks, one and two
  streams, at every alignment, between two boundaries, through `decompress`
  and `decode_segment`; or else the blocks in front are right, and the text of
  the next is longer than the room for it: a quarter more than the block in
  `decompress`, than any block in `decode_segment`. The inputs contain both
  (`FullVecs`, `LongRuns`), the subject of **room**. `CutIsNoticed`: of a file cut at any byte,
  `decode_segment` returns whole blocks and `decompress` an error.
  `DecodeTypeOK`, `PointersInRange`, `RunsBounded` and `Ends` also with any one
  bit flipped: no index leaves its table, and a damaged file comes to an end.
  `TablesDecode`: for all lengths 0 to 4 of four symbols that a prefix code can
  have, complete or not, the fast table gives what the tree gives and is never
  written outside; of all lengths, those panic at that write (`PastTable`) whose
  short codes alone are more than a prefix code can have, and no others. `ReaderIsSource`: the reader implements `BitSource`,
  in the decoder and under any sequence of calls.

### Disagreements with what the repository says

- **dropped**: a chunk with a single boundary is dropped by main, although
  `chunk.rs:34` reserves `None` for data without a boundary and `chunk.rs:12`
  has the caller carry the rest. With one worker this is every chunk but the
  last.
- **headroom**: with four workers the carry is a quarter of a chunk, more than
  `CARRY_HEADROOM`; the assertion at `lbunzip2.rs:313` fires. At the real
  sizes this concerns 2 to 6 workers from the first chunk, and 7 once the carry
  of the chunk before adds to the next.
- **dangling**: when the writer fails, the collector's panic frees slots that
  workers read, against the safety comment at `lbunzip2.rs:89`.
- **hang**: after a panic in a worker main never reaches the join that would
  report it; "Wait for pipeline to drain." (`lbunzip2.rs:408`) has no end.
  A failed write can have the same end: the unwound collector has freed the slots it held, the
  reader waits for one, and main, which itself keeps a sender of `slot_return`
  until line 406, for the reader (the run with `Faults = {"write"}`).
- **eof**: `read` returns Ok(0) with the comment "EOF" (`reader.rs:184`) for a
  fill that "needs more data" (`reader.rs:127`).
- **room** (`BlocksFit`): blocks no longer than the header allows, of whole files, do not fit the
  room for their text. TLC stops at the first; with `-continue` it shows both ways. A block of
  long runs decodes to more than the "25%" of `block.rs:371` and `chunk.rs:89`; an
  assertion of `rle2_decode_into` panics, in the binary inside a worker (and
  then see **hang**). And `rle2_decode_alloc` asks for capacity where it writes
  a run, and not where it writes any other byte (`block.rs:293`): after a run that fills the
  Vec to its last byte the next byte is written behind it. `aaaaaaaabcd` is a block of
  8 with a capacity of 10 and a text of 11. So what `block.rs:360` calls "the
  fully decompressed block data" is not defined for `decompress`,
  `decompress_parallel` and both readers; the binary uses `decode_block_into`.
- **parity**: the parallel scan does not always produce "the identical boundary
  set" (`parallel.rs:38`). The window of eight bytes moves by two from the byte a
  search began at, so a magic that begins in the last seven bytes is seen from
  bytes of one parity only, or not at all. An intact file has more than that behind its last magic; of a
  truncated one `decompress_parallel` gives an error or Ok with the blocks in front,
  depending on the number of threads.

### Bounds, and why they are enough

- `Pipeline`: threads interact only through channels and slots. Two workers
  give every order of two results, two segments in a chunk and two chunks in
  flight every order across chunks; a third chunk in flight has no partner it
  does not already have in the second. With fewer slots than chunks each slot
  is used again. Small capacities make every send block in some state. The
  theorems hold without any bound.
- `CarryLoop`, `StreamingRead`, `ParallelDecompress`: a byte has two bits, a
  magic four, the window four bytes moving by two. The relation of the code is
  kept (a window is a magic plus a stride, 64 = 48 + 16; assumption
  `ScanAssumption`), and blocks of odd length start at every bit of a byte. In
  `CarryLoop` a byte of the model stands for about one MB, with 200 to a chunk
  and 32 to the headroom as in the code.
- `BlockDecode` keeps the widths of the code (a buffer of 64 bits, magics of 48,
  all fields of a block's head). Smaller are: four values of a byte (2 ranges of
  2 instead of 16 of 16), 3 symbols to a table instead of 50, so that tables
  change inside short blocks, 2 bits of fast table, so that codes of 1 to 4 bits
  are found by both ways, and blocks of 11. With four values of a byte a run
  counts up to 3 more, so a quarter is passed by long runs here as by those of
  255 in the code. `MaxBlocksize` is 12, above a block, as a run may be.
  The free calls of the reader work on slices of 0, 7 and 13 bytes: no
  refill of eight bytes, none, and one followed by single bytes.
- `Retries` bounds the failed calls a caller makes, `Faults` which threads
  fail.
- Every distance of a magic to the end of a file occurs in **threads** and **parity**, where a
  file is cut at each byte.

### Fairness

Weak fairness of every thread of `Pipeline` and `ParallelDecompress`: the
threads are operating system threads that block only in `send`, `recv` and
`join`, and an enabled one is scheduled sooner or later. The mutex around the
work channel needs no stronger assumption, because an item taken by any worker
is progress and a worker that finds the channel closed leaves. No fairness for panics or
I/O errors. `StreamingRead` assumes a caller that goes on calling, and so does `SliceRead`, with
the threads of `par_map` as above. This is more than `read_to_end` does, which
stops at the first Ok(0): that it would receive everything is `ZeroIsEof` and false
for `StreamingBz2Read` (run **eof**), while `ParallelBz2Read` gives zero bytes only at the end
(`SliceKeepsPromise`); `CarryLoop` that main goes on, `BlockDecode` that the
decoding thread does.

## 4. Proofs

With these every safety property of the runs **pipeline**, **read** and
**threads** is proved for any number of threads, slots, capacities, files and
buffers, with workers that panic, a writer that fails and sources that fail; of **decode** those that say
what no input may make the decoder do, and that the tables of a code are right; of **carry** all.

### The pipeline

All theorems hold with workers that panic and a writer that fails, for any number of
workers, none included, and any capacities. What a failed write destroys limits how far
the invariants reach and not what is promised of the output: `IInv` and `FlowInv` hold
until the collector is unwound (`InvUntilUnwound`, `FlowUntilUnwound`), `OutInv` and
`EndInv` until the writer panics (`OutUntilPanic`). Beyond that point each theorem has an
argument of its own. Only `SlotIntact` is lost, as **dangling** shows, and so it and `IInv` have two
statements. Each invariant contains the one before:

- `PipelineProofs!TypeCorrect`: `SafeSpec => []TypeOK`, one step per action.
- `PipelineProofs!SlotNeverRecycledEarly` (`SlotKept`) and
  `InvariantHolds` (`InvKept`). `SlotIntact` alone is not inductive: that
  a chunk whose `done_count` is full has no work item left follows only from
  counting. Call an item in the work channel, in a worker's hands, or its result
  in the collector channel a token. The invariant `IInv` says that tokens are
  unique (`TokensUnique`), that a token's result is still missing (`TokensOK`),
  that results not yet posted are missing (`UnpostedEmpty`), that `done_count`
  is the number of results present (`DoneCounts`), and that `chunk_id` tells
  chunks apart (`IdsUnique`), so that a result is counted for its own chunk.
  Then a full count leaves no token and no segment to post
  (`FullIsComplete`), and the slot may go. `DownstreamAlive` says that the
  collector has not been unwound: both hold as long as this does, and always
  if no write fails (`NoWriteFault`), the second statement of each.
- `PipelineProofs!ResultsFindTheirSlot` (`NoResultLost`) and
  `SlotsNeverLost` (`SlotsConserved`). `FlowInv` adds where chunks can be
  (`Stages`), that a NewSlot stands before the results of its chunk in the
  collector's channel (`QueueOrdered`), and that whatever has a token is queued
  or in flight (`ResultsAwaited`). An unwound collector has dropped its channel, and
  nobody sends on it any more (`UnwoundIsEmpty`).
- `PipelineOutProofs!OutputIsOrdered` (`OutputOrdered`), `PipelineIsSerial`
  (`WritesInOrder`, the refinement of `OrderedOutput!SafeSpec`) and
  `SlotsRecycledInOrder` (`RecycledInOrder`). `OutInv` adds that chunks leave in
  the order of `next_write_id` (`TurnsKept`), one at a time (`DrainsOne`), with
  their own results (`ResultsOwn`), and that file and write channel together
  are exactly what was passed on so far (`OutIsPassed`). A writer that panics takes the end
  of this with it and writes nothing more, so the file stays a beginning of the serial output
  (`PanicKeepsOrder`). The collector does not notice until it sends: what it drains meanwhile is
  still the slot of `next_write_id` (`DrainTurn`), as `FlowInv` lasts longer than `OutInv`.
- `PipelineOutProofs!NormalEndIsComplete` (`DoneMeansComplete`). `EndInv` adds
  that threads leave in the order of the hang-ups (`ThreadsLast`), that ids are
  dense (`IdsDense`), and that every segment posted has its token, its result,
  or a worker that panicked (`Accounted`): then nothing is in flight at a normal
  end. Main returns only after it joined a writer that had not panicked (`DoneIsJoined`), so that
  the invariant holds then.

### The streaming reader

- `StreamingReadProofs!UndecodedKept` (`KeepsUndecoded`), `MemoryBounded`
  (`BufferBounded`), `StreamKeepsPromise` (`KeepsPromise`) and
  `StreamTypeCorrect`, for every file, chunk, buffer and failure of the source.
  The invariant is `StreamInv`: for some number of blocks decoded, `out_buf` and
  the caller have their output (`InPlace`); `comp_buf` is the stretch of the
  file that begins behind their magics (`Held`); there is no further block
  if, and only if, the source is exhausted (`AtEnd`); and the next block begins
  in `comp_buf`, which holds little beyond it (`Ahead`). The crucial step is that a
  magic found in the buffer, whatever bit it begins at, is that of the
  next block (`ScanLemmas`), so that what is drained ends where this
  block ends.

### The carry loop

- `CarryLoopProofs!CarryTypeCorrect` (`TypeOK`) and `NothingDecodedTwice`
  (`DecodedInOrder`), for every file, number of workers, chunk and headroom,
  also where chunks are dropped, blocks fail or false magics cut blocks in two. `DecodedInOrder` alone says
  nothing about what the carry brings into the next slot. `OrderInv` adds that the carry
  holds ascending bytes of the file, read before, and that it begins with the byte of a magic behind
  everything decoded (`CarriedOver`). A slot is then ascending, too, if not
  consecutive, since a dropped chunk leaves a gap: so what the scan finds from
  left to right is ordered in the file (`ShiftsGrow`, `OccurrenceIs`), a segment's
  blocks are in front of the next one's (`SegmentInOrder`), and no magic of
  the slot is that of a block decoded before (`NothingTwice`), as a byte in which
  a magic begins holds the beginning of no other (`MagicsApart`).
- `CarryLoopProofs!NothingLostBetweenChunks` (`CarryIsTheRest`) and
  `AssertionHolds` (`CarryFits`), where `Roomy` holds. `RestInv` adds to `OrderInv` that
  the carry is the file from some byte on and begins with the first magic there, which is
  that of the next block if nothing is damaged (`CarriedFrom`). A slot is then a stretch of
  the file (`SlotRead`). That the loop keeps this needs a boundary behind
  the last of the `n - 1` nominal cuts: the search that begins there finds one (`LastFound`,
  from `ScanLemmas!FindQuick`), because under `Roomy` a block begins in the last part with room
  for what is verified of it. So no slot but the last is dropped (`FullCut`, `RestReject`),
  and what is carried on is at most the last part, which fits the headroom (`CutLeaves`).
  Between the starts of two blocks `decode_segment` yields the blocks in between
  (`SegmentRun`), and all segments together one run without a gap (`FlatRuns`).
- `CarryLoopProofs!NothingElseIsMissing` (`AllDecoded`), where `Roomy` holds, for
  all blocks that fail, all false magics that pass for a block and all ends of a file. `AllInv`
  adds that the carry begins with a block or with such a magic, and that every block in front
  of it is decoded or behind a harm (`AllSettled`). The step is `CutReach`: from the
  start of a block to the last boundary in front of it is no more than a part of
  the slot, as the search that begins with this part would have found the block. The segment
  with this boundary decodes the block, or a block in front of it there fails, or the boundary is
  false (`SlotSettles`). A block that a false boundary cuts off from its slot
  begins in front of the boundary and ends behind it (`AcceptSettles`); and what the end of the
  file leaves in a slot that is dropped is too short for a block (`RejectSettles`, `EndSettles`).

### The threads of one call

- `SliceReadProofs!ParMapCorrect` (`ResultInOrder`) and `ClaimsAreUnique`
  (`ClaimedOnce`): for every number of threads and every sequence
  of calls, `par_map` returns the values in index order or panics because `f`
  did, and no item is computed twice. The invariant: what the counter has
  passed is stored, being computed, or panicked; what it has not is untouched;
  a thread leaves only when the counter is past the end.
- `SliceReadProofs!PartsMissNoMagic` (`NoMagicMissed`),
  `IntactFilesDecompress` (`IntactDecompresses`), `OkGivesPrefix` (`OkIsPrefix`)
  and `ParallelTypeCorrect`, for files cut off at any byte. That parts which
  overlap by a window miss nothing is a statement about positions, `ScanLemmas!PartsMissNothing`:
  a search that begins at or in front of a magic stops there or at one before it,
  whatever the strides, if a whole window fits behind the magic (`ScanCovers`); so every part covers
  the magics from its first bit on up to its end, and the parts cover the buffer (`PartsCover`).
  Closer to the end nothing of the kind holds. `OkIsPrefix` needs less there: all but the last
  one of the magics of blocks have a window behind them, as no block is shorter, so that
  either scan finds the first blocks without a gap (`FoundWithoutFakes`). The
  invariant `ParInv` carries what the threads found from the scan to the
  decoding.
- `SliceReadProofs!SliceImplementsRead` (`SliceKeepsPromise`): for every file,
  batch, buffer and number of threads, `ParallelBz2Read` hands over the blocks in
  order, each once, and zero bytes only at the end, also to a caller that tries
  again after errors. It builds on the invariant of `ParMap`: a batch that
  came back has the values of its own boundaries. `DamageNeverDelivered`
  (`DamageStops`) and `SliceTypeCorrect` (`SliceTypeOK`) follow from the same invariant.

### The decoder

- `BlockDecodeProofs!ReaderImplementsSource` (`ReaderIsSource`): the invariant is
  that each of the 64 bits of the buffer, beyond the count too, is empty or the
  bit of the slice that belongs at this place, so that an OR at the same place
  changes nothing. For slices of any length and all sequences of calls.
- `BlockDecodeProofs!RunsNeverOverflow` (`RunsBounded`): the power of a run is at
  most one more than the run, so that the check after each symbol bounds both.
  For all inputs and block sizes; at the real ones it keeps them in a u32.
- `BlockDecodeProofs!NoPointerLeaves` (`PointersInRange`) and
  `DecodeTypeCorrect` (`DecodeTypeOK`): no index leaves its table, whatever the
  bits are, and the only write that leaves a buffer is the one of **room**. `DecodeInv` says that the counts are those of the bytes in `tt`;
  from this the links that `inverse_bwt` writes are the ranks of the
  bytes, so a permutation, although nothing checks that the input
  was the transform of anything.
- `BlockDecodeProofs!TablesAgree` (`TablesDecode`): for all lengths, the filling leaves a fast
  table, of any width, if and only if the codes that fit its index alone are more than a prefix code can
  have (`ShortFills`); and for the lengths of every prefix code that a block can hold (`Kraft`), complete
  or not, the table tells of every index what the walk of the tree tells, and every code leads
  to its symbol. A symbol takes `2^(20 - length)` of the words of 20 bits, and its code, moved to
  20 bits, is the sum of the shares of the symbols before it; so a code fits its length
  (`CodesAreShort`) and none begins with another (`NoPrefix`). A number is its bits
  (`DataLemmas!BitsTell`), so the paths of the tree and the indices of the table, which are
  numbers, say the same (`PathIs`). `Pow2` is a recursive function
  because the provers know nothing of `^`. Decoded lengths are 1 to 20; that of unused symbols, 0,
  which `from_lengths` would skip, only TLC looks at.

### Assumptions

The named ASSUMEs on constants, which TLC evaluates in the runs. Those on files
(`WellFormed`, and `FilesAssumption` of the modules that read them) say that blocks stand one
behind the other; that none is shorter than the scanner's window of eight bytes,
as a magic, a CRC, a bit and a pointer of 24 bits are read of each (in `CarryLoop` also than a magic
and the 73 bits `quick_verify_block` reads behind it, which end with the 16 bits of the symbol map
that `decode_block` reads, too); that a header, of
four bytes, is shorter than the window; that what is `forged` is one of the file's false magics; and that the file has one, as `new` and main
return an error otherwise. `MagicsApart` of `CarryLoop` says that two magics, false ones
included, never begin within a byte of each other: the 48 bits, moved by 1 to 7,
do not match themselves.

### Only model-checked

- Liveness (`Drains`, `WritesAll`, `AllArrives`, `SliceArrives`,
  `Finishes`, `Ends`): fairness and ENABLED are out of the prover's reach.
- `RoundTrip` and `CutIsNoticed`: what the decoder computes for an encoder's output. The
  encoder is not in the repository: the files are an input of `BlockDecode`, and only
  `MCBlockDecode` says which ones an encoder writes. A proof would have to be about an
  encoder and the theory that the inverse transform undoes the sorted rotations.

## 5. Not modelled, and why

- I/O errors of the reader thread as such: `read_chunk` takes them for the end
  of the file, and so do the models. In `Pipeline` the last chunk may be any
  chunk, in `CarryLoop` a file ends at any byte.
- A split for no worker, in `CarryLoop`: with `LBZIP2_THREADS=0` `split_boundaries_parallel` finds
  nothing, as with one worker, so that main drops every chunk but the last (**dropped**). The channels
  have capacity 0 and `work` has no receiver: if the last chunk has a boundary, main panics at its
  first send, and otherwise the program ends normally with an empty output. `Pipeline` has this case,
  and its theorems include it (`Workers` may be empty, `WorkCap` and `CollCap` zero), but what they
  call complete is what main planned, and a dropped chunk is not planned.
- In the modules above `BlockDecode`, that `decode_block` may write behind its Vec (**room**): they take
  its answers as right.
- The content of blocks in the modules above `BlockDecode`: CRCs are read and
  never compared by the code, so whether rubbish is noticed is left open
  wherever damaged data is decoded.
- What a block that fails in `CarryLoop` writes when it decodes to rubbish
  instead of an error: no block more is lost by that, and the rubbish is not
  followed.
- Of the bit reader: skipping 64 bits and more (the callers skip at most 7),
  `remaining` and the iterator, which only calls `read_bit`.
- `split_boundaries` has no caller; `next_byte` and `read_from_tt` only tests.
- Prefetch, and the pool of one buffer per thread, which is cleared when taken.
- The check of a file's first four bytes, messages, timing, sysfs, benches.

## 6. Plan

Done: everything the inventory names but command line and benches, and a proof of every
safety property the runs check, with the two exceptions of section 4 ("Only model-checked").

Left: what an encoder's output decodes to for blocks of any length (`RoundTrip`), which needs an
encoder as a specification of its own and a theory of the inverse transform in `DataLemmas`.
