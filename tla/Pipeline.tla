------------------------------ MODULE Pipeline ------------------------------
(***************************************************************************)
(* The threads of the lbunzip2 binary (src/bin/lbunzip2.rs) and the five   *)
(* bounded channels between them.                                          *)
(*                                                                         *)
(*   reader --filled--> main --work--> workers --coll--> collector         *)
(*     ^                  |                   ^             |   |          *)
(*     |                  +---- NewSlot ------+             |   +--> writer *)
(*     +------------------ slot_return --------------------+               *)
(*                                                                         *)
(* A chunk is one successful filling of a ring slot by the reader, counted *)
(* from 1; the last chunk is the one whose read came up short.  A chunk    *)
(* occupies exactly one slot, so the slot is identified with the chunk     *)
(* that fills it, and slots in the slot_return channel are only counted.   *)
(* The result of splitting (chunk.rs, module CarryLoop) is an input here:  *)
(* plan[c] is the sequence of segments that chunk c is decoded in, empty   *)
(* when main hands the slot straight back.                                 *)
(***************************************************************************)
EXTENDS Integers, Sequences, FiniteSets

CONSTANTS
  Workers,     \* the worker threads, none with LBZIP2_THREADS=0
  RingSlots,   \* RING_SLOTS: slots in the pool
  WorkCap,     \* capacity of the work channel, n_workers * 2 in the code
  CollCap,     \* capacity of the collector channel, n_workers * 4
  WriteCap,    \* capacity of the write channel, RING_SLOTS
  Plans,       \* the inputs considered
  Faults       \* which threads may panic: "write" (I/O error), "decode"

ASSUME WorkersAssumption == IsFiniteSet(Workers)
ASSUME CapacityAssumption ==
  /\ RingSlots \in Nat \ {0} /\ WriteCap \in Nat \ {0}
  /\ WorkCap \in Nat /\ CollCap \in Nat
ASSUME PlansAssumption == Plans \subseteq (Seq(Seq({"data", "blank"})) \ {<<>>})
ASSUME FaultsAssumption == Faults \subseteq {"write", "decode"}

VARIABLES
  plan,       \* the input: for every chunk its segments (never changes)
  free,       \* number of slots waiting in slot_return
  reader,     \* "recv", "read" (holding a slot), "done"
  sent,       \* chunks the reader has put into the filled channel
  got,        \* chunks main has taken out of it
  buf,        \* where the slot of each chunk is
  main,       \* "recv", "announce", "post", "join", "done", "panicked"
  nextSeg,    \* the segment main posts next
  chunkId,    \* main's chunk_id counter
  id,         \* the chunk_id each accepted chunk was given
  work,       \* the work channel
  worker,     \* "idle", "busy", "exited", "panicked"
  held,       \* the item a busy worker decodes
  coll,       \* the collector channel: NewSlot and Result messages
  collector,  \* "recv", "flush", "drain", "final", "exited", "panicked"
  results,    \* InFlightSlot.results: 0 or the chunk the output was decoded from
  done,       \* InFlightSlot.done_count
  nextWrite,  \* next_write_id
  drained,    \* the chunk being flushed and the next of its results to send
  write,      \* the write channel
  writer,     \* "run", "exited", "panicked"
  written     \* what reached the output file

mainVars == <<main, nextSeg, chunkId, id>>
readerVars == <<reader, sent>>
workerVars == <<worker, held>>
collVars == <<collector, results, done, nextWrite, drained>>
writerVars == <<writer, written>>
vars == <<plan, free, buf, got, readerVars, mainVars, work, workerVars,
          coll, collVars, write, writerVars>>

Chunks == 1 .. Len(plan)
Segs(c) == 1 .. Len(plan[c])
Last == Len(plan)
NoItem == [id |-> 0, chunk |-> 0, seg |-> 0]

\* A panic of main, or its return, ends the process and every other thread.
Running == main \notin {"done", "panicked"}
MainSends == main \in {"recv", "announce", "post"}   \* its senders not dropped
WorkerGone(w) == worker[w] \in {"exited", "panicked"}
CollGone == collector \in {"exited", "panicked"}
WriterGone == writer \in {"exited", "panicked"}

\* What a sender waits for: room in the channel or, in a channel without any
\* capacity, a receiver that waits.
Room(channel, capacity, waiting) ==
  Len(channel) < capacity \/ (capacity = 0 /\ channel = <<>> /\ waiting)

Init ==
  /\ plan \in Plans
  /\ free = RingSlots
  /\ reader = "recv" /\ sent = 0 /\ got = 0
  /\ buf = [c \in Chunks |-> "none"]
  /\ main = "recv" /\ nextSeg = 1 /\ chunkId = 0 /\ id = [c \in Chunks |-> 0]
  /\ work = <<>>
  /\ worker = [w \in Workers |-> "idle"] /\ held = [w \in Workers |-> NoItem]
  /\ coll = <<>>
  /\ collector = "recv"
  /\ results = [c \in Chunks |-> [s \in Segs(c) |-> 0]]
  /\ done = [c \in Chunks |-> 0]
  /\ nextWrite = 0 /\ drained = [chunk |-> 0, seg |-> 1]
  /\ write = <<>>
  /\ writer = "run" /\ written = <<>>

\* Faulty variant: the slot is dropped.
ReturnNothing == UNCHANGED free

\* Sending a slot to slot_return; once the reader has left, the send fails
\* and the slot is dropped.
ReturnSlot ==
  \/ reader = "done" /\ UNCHANGED free
  \/ reader # "done" /\ free < RingSlots /\ free' = free + 1

-----------------------------------------------------------------------------
(* Reader: slot_return.recv, fill the slot, filled.send.  The filled       *)
(* channel has room for every slot of the pool.                            *)

ReaderTake ==
  /\ Running /\ reader = "recv" /\ free > 0
  /\ free' = free - 1
  /\ buf' = [buf EXCEPT ![sent + 1] = "read"]
  /\ reader' = "read"
  /\ UNCHANGED <<plan, got, sent, mainVars, work, workerVars, coll, collVars,
                 write, writerVars>>

\* Faulty variant: the reader does not stop behind the short read.
ReaderSendForever ==
  /\ Running /\ reader = "read" /\ sent - got < RingSlots
  /\ sent' = sent + 1
  /\ buf' = [buf EXCEPT ![sent + 1] = "filled"]
  /\ reader' = "recv"
  /\ UNCHANGED <<plan, free, got, mainVars, work, workerVars, coll, collVars,
                 write, writerVars>>

\* The short read is the last one: the reader leaves and its receiver of
\* slot_return, with every slot waiting there, is dropped.
ReaderSend ==
  /\ Running /\ reader = "read" /\ sent - got < RingSlots
  /\ sent' = sent + 1
  /\ buf' = [buf EXCEPT ![sent + 1] = "filled"]
  /\ \/ sent' # Last /\ reader' = "recv" /\ UNCHANGED free
     \/ sent' = Last /\ reader' = "done" /\ free' = 0
  /\ UNCHANGED <<plan, got, mainVars, work, workerVars, coll, collVars,
                 write, writerVars>>

-----------------------------------------------------------------------------
(* Main: carry, split, announce the slot to the collector, post its        *)
(* segments, then drop the senders and join everybody.                     *)

\* A chunk that splits: its slot is kept for the NewSlot message.
MainAccept ==
  /\ main = "recv" /\ got < sent
  /\ plan[got + 1] # <<>>
  /\ got' = got + 1
  /\ buf' = [buf EXCEPT ![got + 1] = "split"]
  /\ id' = [id EXCEPT ![got + 1] = chunkId]
  /\ main' = "announce"
  /\ UNCHANGED <<plan, free, readerVars, nextSeg, chunkId, work, workerVars,
                 coll, collVars, write, writerVars>>

\* No boundary, or an empty last read with no carry: the slot goes back.
MainReject ==
  /\ main = "recv" /\ got < sent
  /\ plan[got + 1] = <<>>
  /\ got' = got + 1
  /\ buf' = [buf EXCEPT ![got + 1] = "recycled"]
  /\ ReturnSlot
  /\ main' = IF got + 1 = Last THEN "join" ELSE "recv"
  /\ UNCHANGED <<plan, readerVars, nextSeg, chunkId, id, work, workerVars,
                 coll, collVars, write, writerVars>>

MainAnnounce ==
  /\ main = "announce" /\ ~CollGone /\ Room(coll, CollCap, collector = "recv")
  /\ coll' = Append(coll, [kind |-> "slot", id |-> id[got], chunk |-> got, seg |-> 0])
  /\ buf' = [buf EXCEPT ![got] = "queued"]
  /\ nextSeg' = 1
  /\ main' = "post"
  /\ UNCHANGED <<plan, free, got, readerVars, chunkId, id, work, workerVars,
                 collVars, write, writerVars>>

MainPost ==
  /\ main = "post" /\ nextSeg <= Len(plan[got])
  /\ \E w \in Workers : ~WorkerGone(w)
  /\ Room(work, WorkCap, \E w \in Workers : worker[w] = "idle")
  /\ work' = Append(work, [id |-> id[got], chunk |-> got, seg |-> nextSeg])
  /\ nextSeg' = nextSeg + 1
  /\ UNCHANGED <<plan, free, buf, got, readerVars, main, chunkId, id, workerVars,
                 coll, collVars, write, writerVars>>

\* Faulty variant: chunk_id is not counted up.
MainPostedSameId ==
  /\ main = "post" /\ nextSeg > Len(plan[got])
  /\ main' = IF got = Last THEN "join" ELSE "recv"
  /\ UNCHANGED <<plan, free, buf, got, readerVars, nextSeg, chunkId, id, work,
                 workerVars, coll, collVars, write, writerVars>>

MainPosted ==
  /\ main = "post" /\ nextSeg > Len(plan[got])
  /\ chunkId' = chunkId + 1
  /\ main' = IF got = Last THEN "join" ELSE "recv"
  /\ UNCHANGED <<plan, free, buf, got, readerVars, nextSeg, id, work, workerVars,
                 coll, collVars, write, writerVars>>

\* Every receiver of a channel main sends on is gone, or a joined thread
\* panicked: expect() panics, and the process with it.  The handles of the
\* workers are joined in some order, here in any.
MainPanic ==
  /\ \/ main = "announce" /\ CollGone
     \/ main = "post" /\ nextSeg <= Len(plan[got]) /\ \A w \in Workers : WorkerGone(w)
     \/ main = "join" /\ \E w \in Workers : worker[w] = "panicked"
     \/ /\ main = "join" /\ \A w \in Workers : WorkerGone(w)
        /\ collector = "panicked" \/ (collector = "exited" /\ writer = "panicked")
  /\ main' = "panicked"
  /\ UNCHANGED <<plan, free, buf, got, readerVars, nextSeg, chunkId, id, work,
                 workerVars, coll, collVars, write, writerVars>>

\* Faulty variant: how the workers ended is ignored.
MainJoinLenient ==
  /\ main = "join"
  /\ \A w \in Workers : WorkerGone(w)
  /\ collector = "exited" /\ reader = "done" /\ writer = "exited"
  /\ main' = "done"
  /\ UNCHANGED <<plan, free, buf, got, readerVars, nextSeg, chunkId, id, work,
                 workerVars, coll, collVars, write, writerVars>>

MainJoin ==
  /\ main = "join"
  /\ \A w \in Workers : worker[w] = "exited"
  /\ collector = "exited" /\ reader = "done" /\ writer = "exited"
  /\ main' = "done"
  /\ UNCHANGED <<plan, free, buf, got, readerVars, nextSeg, chunkId, id, work,
                 workerVars, coll, collVars, write, writerVars>>

MainNext == MainAccept \/ MainReject \/ MainAnnounce \/ MainPost \/ MainPosted
            \/ MainPanic \/ MainJoin

-----------------------------------------------------------------------------
(* Workers: one receiver behind a mutex, decode_segment on the raw pointer *)
(* into the slot, the output sent to the collector.                        *)

WorkerTake(w) ==
  /\ Running /\ worker[w] = "idle" /\ work # <<>>
  /\ held' = [held EXCEPT ![w] = Head(work)]
  /\ work' = Tail(work)
  /\ worker' = [worker EXCEPT ![w] = "busy"]
  /\ UNCHANGED <<plan, free, buf, got, readerVars, mainVars, coll, collVars,
                 write, writerVars>>

\* Decode and send.  A failed send is ignored and the output is lost.
WorkerFinish(w) ==
  /\ Running /\ worker[w] = "busy"
  /\ \/ CollGone /\ UNCHANGED coll
     \/ /\ ~CollGone /\ Room(coll, CollCap, collector = "recv")
        /\ coll' = Append(coll, [kind |-> "result", id |-> held[w].id,
                                 chunk |-> held[w].chunk, seg |-> held[w].seg])
  /\ worker' = [worker EXCEPT ![w] = "idle"]
  /\ held' = [held EXCEPT ![w] = NoItem]
  /\ UNCHANGED <<plan, free, buf, got, readerVars, mainVars, work, collVars,
                 write, writerVars>>

WorkerExit(w) ==
  /\ Running /\ worker[w] = "idle" /\ work = <<>> /\ ~MainSends
  /\ worker' = [worker EXCEPT ![w] = "exited"]
  /\ UNCHANGED <<plan, free, buf, got, readerVars, mainVars, work, held, coll,
                 collVars, write, writerVars>>

\* An assertion or an index of block.rs, bwt.rs or huffman.rs fails.
WorkerPanic(w) ==
  /\ Running /\ worker[w] = "busy" /\ "decode" \in Faults
  /\ worker' = [worker EXCEPT ![w] = "panicked"]
  /\ held' = [held EXCEPT ![w] = NoItem]
  /\ UNCHANGED <<plan, free, buf, got, readerVars, mainVars, work, coll,
                 collVars, write, writerVars>>

WorkerRuns(w) == WorkerTake(w) \/ WorkerFinish(w) \/ WorkerExit(w)

-----------------------------------------------------------------------------
(* Collector: register slots, store results, and after every message flush *)
(* the slot whose turn it is, if it is complete.                           *)

CollNewSlot ==
  /\ Running /\ collector = "recv" /\ coll # <<>> /\ Head(coll).kind = "slot"
  /\ coll' = Tail(coll)
  /\ buf' = [buf EXCEPT ![Head(coll).chunk] = "inflight"]
  /\ collector' = "flush"
  /\ UNCHANGED <<plan, free, got, readerVars, mainVars, work, workerVars,
                 results, done, nextWrite, drained, write, writerVars>>

InFlightWith(i) == {c \in Chunks : buf[c] = "inflight" /\ id[c] = i}

\* apply_result finds the slot by chunk_id and ignores a result without one.
CollResult ==
  /\ Running /\ collector = "recv" /\ coll # <<>> /\ Head(coll).kind = "result"
  /\ coll' = Tail(coll)
  /\ \/ InFlightWith(Head(coll).id) = {} /\ UNCHANGED <<results, done>>
     \/ \E c \in InFlightWith(Head(coll).id) :
          /\ results' = [results EXCEPT ![c][Head(coll).seg] = Head(coll).chunk]
          /\ done' = [done EXCEPT ![c] = @ + 1]
  /\ collector' = "flush"
  /\ UNCHANGED <<plan, free, buf, got, readerVars, mainVars, work, workerVars,
                 nextWrite, drained, write, writerVars>>

\* Faulty variant: the collector leaves while workers still send.
CollHangupEarly ==
  /\ Running /\ collector = "recv" /\ coll = <<>>
  /\ ~MainSends
  /\ collector' = "final"
  /\ UNCHANGED <<plan, free, buf, got, readerVars, mainVars, work, workerVars,
                 coll, results, done, nextWrite, drained, write, writerVars>>

\* Every sender is gone and the channel is empty: one more flush, then exit.
CollHangup ==
  /\ Running /\ collector = "recv" /\ coll = <<>>
  /\ ~MainSends /\ \A w \in Workers : WorkerGone(w)
  /\ collector' = "final"
  /\ UNCHANGED <<plan, free, buf, got, readerVars, mainVars, work, workerVars,
                 coll, results, done, nextWrite, drained, write, writerVars>>

\* Faulty variants: one result short, no result needed, in any order.
ReadyOneShort == {c \in InFlightWith(nextWrite) : done[c] + 1 >= Len(plan[c])}
ReadyAtOnce == InFlightWith(nextWrite)
ReadyAnyOrder == {c \in Chunks : buf[c] = "inflight" /\ done[c] >= Len(plan[c])}

Ready == {c \in InFlightWith(nextWrite) : done[c] >= Len(plan[c])}

\* Faulty variant: the first result is skipped.
FlushStartSecond ==
  /\ Running /\ collector \in {"flush", "final"}
  /\ \E c \in Ready :
       /\ buf' = [buf EXCEPT ![c] = "drain"]
       /\ drained' = [chunk |-> c, seg |-> 2]
  /\ collector' = "drain"
  /\ UNCHANGED <<plan, free, got, readerVars, mainVars, work, workerVars, coll,
                 results, done, nextWrite, write, writerVars>>

FlushStart ==
  /\ Running /\ collector \in {"flush", "final"}
  /\ \E c \in Ready :
       /\ buf' = [buf EXCEPT ![c] = "drain"]
       /\ drained' = [chunk |-> c, seg |-> 1]
  /\ collector' = "drain"
  /\ UNCHANGED <<plan, free, got, readerVars, mainVars, work, workerVars, coll,
                 results, done, nextWrite, write, writerVars>>

FlushEnd ==
  /\ Running /\ collector \in {"flush", "final"} /\ Ready = {}
  /\ collector' = IF collector = "flush" THEN "recv" ELSE "exited"
  /\ UNCHANGED <<plan, free, buf, got, readerVars, mainVars, work, workerVars,
                 coll, results, done, nextWrite, drained, write, writerVars>>

\* A missing result and an empty output are skipped without a message.
Skipped(c, s) == results[c][s] # 0 => plan[results[c][s]][s] = "blank"

FlushSkip ==
  /\ Running /\ collector = "drain" /\ drained.seg <= Len(plan[drained.chunk])
  /\ Skipped(drained.chunk, drained.seg)
  /\ drained' = [drained EXCEPT !.seg = @ + 1]
  /\ UNCHANGED <<plan, free, buf, got, readerVars, mainVars, work, workerVars,
                 coll, collector, results, done, nextWrite, write, writerVars>>

FlushSend ==
  /\ Running /\ collector = "drain" /\ drained.seg <= Len(plan[drained.chunk])
  /\ ~Skipped(drained.chunk, drained.seg)
  /\ ~WriterGone /\ Len(write) < WriteCap
  /\ write' = Append(write, <<results[drained.chunk][drained.seg], drained.seg>>)
  /\ drained' = [drained EXCEPT !.seg = @ + 1]
  /\ UNCHANGED <<plan, free, buf, got, readerVars, mainVars, work, workerVars,
                 coll, collector, results, done, nextWrite, writerVars>>

\* Faulty variant: the slot is recycled before its last result is sent.
FlushRecycleSooner ==
  /\ Running /\ collector = "drain" /\ drained.seg >= Len(plan[drained.chunk])
  /\ ReturnSlot
  /\ buf' = [buf EXCEPT ![drained.chunk] = "recycled"]
  /\ nextWrite' = nextWrite + 1
  /\ collector' = "flush"
  /\ UNCHANGED <<plan, got, readerVars, mainVars, work, workerVars, coll,
                 results, done, drained, write, writerVars>>

FlushRecycle ==
  /\ Running /\ collector = "drain" /\ drained.seg > Len(plan[drained.chunk])
  /\ ReturnSlot
  /\ buf' = [buf EXCEPT ![drained.chunk] = "recycled"]
  /\ nextWrite' = nextWrite + 1
  /\ collector' = "flush"
  /\ UNCHANGED <<plan, got, readerVars, mainVars, work, workerVars, coll,
                 results, done, drained, write, writerVars>>

\* The writer is gone: expect("send to writer") unwinds the collector, which
\* frees the slot it drains, every slot in flight and every queued NewSlot.
CollPanic ==
  /\ Running /\ collector = "drain" /\ drained.seg <= Len(plan[drained.chunk])
  /\ ~Skipped(drained.chunk, drained.seg)
  /\ WriterGone
  /\ collector' = "panicked"
  /\ buf' = [c \in Chunks |-> IF buf[c] \in {"queued", "inflight", "drain"}
                              THEN "freed" ELSE buf[c]]
  /\ coll' = <<>>
  /\ UNCHANGED <<plan, free, got, readerVars, mainVars, work, workerVars,
                 results, done, nextWrite, drained, write, writerVars>>

CollNext == CollNewSlot \/ CollResult \/ CollHangup \/ FlushStart \/ FlushEnd
            \/ FlushSkip \/ FlushSend \/ FlushRecycle \/ CollPanic

-----------------------------------------------------------------------------
(* Writer: write what arrives, in order, until the collector hangs up.     *)

WriterWrite ==
  /\ Running /\ writer = "run" /\ write # <<>>
  /\ written' = Append(written, Head(write))
  /\ write' = Tail(write)
  /\ UNCHANGED <<plan, free, buf, got, readerVars, mainVars, work, workerVars,
                 coll, collVars, writer>>

\* Faulty variant: the writer takes an empty channel for a closed one.
WriterExitIdle ==
  /\ Running /\ writer = "run" /\ write = <<>>
  /\ writer' = "exited"
  /\ UNCHANGED <<plan, free, buf, got, readerVars, mainVars, work, workerVars,
                 coll, collVars, write, written>>

WriterExit ==
  /\ Running /\ writer = "run" /\ write = <<>> /\ CollGone
  /\ writer' = "exited"
  /\ UNCHANGED <<plan, free, buf, got, readerVars, mainVars, work, workerVars,
                 coll, collVars, write, written>>

\* create, write_all or flush fails and expect() panics.
WriterPanic ==
  /\ Running /\ writer = "run" /\ "write" \in Faults
  /\ writer' = "panicked"
  /\ write' = <<>>
  /\ UNCHANGED <<plan, free, buf, got, readerVars, mainVars, work, workerVars,
                 coll, collVars, written>>

-----------------------------------------------------------------------------
\* The process has ended.
Ended == ~Running /\ UNCHANGED vars

Next ==
  \/ ReaderTake \/ ReaderSend
  \/ MainNext
  \/ \E w \in Workers : WorkerRuns(w) \/ WorkerPanic(w)
  \/ CollNext
  \/ WriterWrite \/ WriterExit \/ WriterPanic
  \/ Ended

\* Every thread that can take a step is eventually scheduled; nothing makes
\* a failure happen.
Fairness ==
  /\ WF_vars(ReaderTake \/ ReaderSend)
  /\ WF_vars(MainNext)
  /\ \A w \in Workers : WF_vars(WorkerRuns(w))
  /\ WF_vars(CollNext)
  /\ WF_vars(WriterWrite \/ WriterExit)

SafeSpec == Init /\ [][Next]_vars
Spec == SafeSpec /\ Fairness

-----------------------------------------------------------------------------
(* Properties                                                              *)

Outstanding == {work[i] : i \in DOMAIN work}
               \cup {held[w] : w \in {v \in Workers : worker[v] = "busy"}}

Items == [id : Nat, chunk : Chunks, seg : Nat \ {0}]
Messages == [kind : {"slot", "result"}, id : Nat, chunk : Chunks, seg : Nat]

\* Every variable has its type.
TypeOK ==
  /\ plan \in Plans
  /\ free \in 0 .. RingSlots
  /\ reader \in {"recv", "read", "done"}
  /\ sent \in 0 .. Last /\ got \in 0 .. Last
  /\ buf \in [Chunks -> {"none", "read", "filled", "split", "queued",
                         "inflight", "drain", "recycled", "freed"}]
  /\ main \in {"recv", "announce", "post", "join", "done", "panicked"}
  /\ nextSeg \in Nat \ {0}
  /\ chunkId \in Nat
  /\ id \in [Chunks -> Nat]
  /\ work \in Seq(Items)
  /\ worker \in [Workers -> {"idle", "busy", "exited", "panicked"}]
  /\ held \in [Workers -> Items \cup {NoItem}]
  /\ coll \in Seq(Messages)
  /\ collector \in {"recv", "flush", "drain", "final", "exited", "panicked"}
  /\ DOMAIN results = Chunks
  /\ \A c \in Chunks : results[c] \in [Segs(c) -> Chunks \cup {0}]
  /\ done \in [Chunks -> Nat]
  /\ nextWrite \in Nat
  /\ drained \in [chunk : 0 .. Last, seg : Nat \ {0}]
  /\ write \in Seq(Chunks \X (Nat \ {0}))
  /\ writer \in {"run", "exited", "panicked"}
  /\ written \in Seq(Chunks \X (Nat \ {0}))

\* The safety comment of WorkItem: the slot a work item points into is alive
\* and not yet recycled as long as a worker holds the item or may take it.
SlotIntact ==
  \A item \in Outstanding : buf[item.chunk] \in {"queued", "inflight"}

\* The same until a failed write has unwound the collector.
SlotKept == collector # "panicked" => SlotIntact

\* What the file and the write channel hold is the productive segments of
\* the input in order, from the first, with none missing in between.
Order == INSTANCE OrderedOutput WITH plan <- plan, out <- written \o write
OutputOrdered ==
  LET o == written \o write IN
  /\ \A i, j \in DOMAIN o : i < j => Order!Precedes(o[i], o[j])
  /\ \A i \in DOMAIN o : \A s \in Order!Productive(plan) :
       Order!Precedes(s, o[i]) => \E j \in DOMAIN o : o[j] = s

\* A result never reaches the collector before the slot it belongs to, so
\* apply_result never drops one.
NoResultLost ==
  \A i \in DOMAIN coll : coll[i].kind = "result" =>
    \/ buf[coll[i].chunk] = "inflight"
    \/ \E j \in 1 .. i - 1 : coll[j].kind = "slot" /\ coll[j].chunk = coll[i].chunk

\* While the reader needs slots none is lost: each of the pool is waiting in
\* slot_return or holds a chunk on its way through the pipeline.
SlotsConserved ==
  reader # "done" /\ collector # "panicked" =>
    free + Cardinality({c \in Chunks : buf[c] \notin {"none", "recycled"}}) = RingSlots

\* A run that ends without a panic has written every productive segment,
\* whatever failed on the way.
DoneMeansComplete ==
  main = "done" =>
    {written[i] : i \in DOMAIN written} = Order!Productive(plan)

\* A slot leaves the collector only when it is its turn and after a writer
\* that still runs was handed every productive segment of its chunk.
RecycledInOrder ==
  [][\A c \in Chunks : buf[c] = "drain" /\ buf'[c] = "recycled" =>
       /\ id[c] = nextWrite
       /\ writer # "panicked" =>
            \A s \in Segs(c) : plan[c][s] = "data" =>
              \E i \in DOMAIN (written \o write) : (written \o write)[i] = <<c, s>>]_vars

\* "Wait for pipeline to drain": the process always comes to an end.
Terminates == <>(main \in {"done", "panicked"})

\* Without failures it ends normally.
Failed == writer = "panicked" \/ \E w \in Workers : worker[w] = "panicked"
Drains == <>(main = "done" \/ Failed)

\* The file receives what the serial decoder would write, in that order, and
\* without failures all of it.
Serial == INSTANCE OrderedOutput WITH plan <- plan, out <- written
WritesInOrder == Serial!SafeSpec
WritesAll == <>Failed \/ Serial!Fairness
=============================================================================
