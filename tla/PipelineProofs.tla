--------------------------- MODULE PipelineProofs ---------------------------
(***************************************************************************)
(* The pipeline, for every number of workers, every capacity, every input  *)
(* and every fault, in three parts.                                        *)
(*                                                                         *)
(*   1. Type correctness.                                                  *)
(*   2. Unless the writer fails and makes the collector panic, no work     *)
(*      item ever points into a slot that was handed back to the reader:   *)
(*      the safety comment of WorkItem.  IInv (module PipelineInv) implies *)
(*      it, and every step but the collector's panic keeps it.             *)
(*   3. No result reaches the collector before its slot does, and no slot  *)
(*      of the pool is lost.  Both rest on where the slot of each chunk is *)
(*      (Stages) and on the order of the collector's channel               *)
(*      (QueueOrdered).                                                    *)
(***************************************************************************)
EXTENDS PipelineInv, FiniteSetTheorems, TLAPS

LEMMA PlanFacts ==
  ASSUME plan \in Plans
  PROVE  /\ Last \in Nat \ {0}
         /\ \A c \in Chunks : Len(plan[c]) \in Nat
         /\ plan \in Seq(Seq({"data", "blank"}))
  BY PlansAssumption DEF Last, Chunks

\* The initial states have their types, whatever the input.
LEMMA InitType == Init => TypeInv
<1> SUFFICES ASSUME Init PROVE TypeInv
  OBVIOUS
<1>1. plan \in Plans
  BY DEF Init
<1>2. TypeOK
  BY <1>1, PlanFacts, CapacityAssumption
  DEF Init, TypeOK, Chunks, Segs, Last, NoItem
<1> QED
  BY <1>1, <1>2, PlanFacts DEF Init, TypeInv, Busy

\* What depends on the plan alone does not change with it.
LEMMA PlanFrame ==
  ASSUME plan' = plan
  PROVE  /\ Last' = Last /\ Chunks' = Chunks /\ \A c : Segs(c)' = Segs(c)
         /\ Items' = Items /\ Messages' = Messages
  BY DEF Last, Chunks, Segs, Items, Messages

\* The counters on their own.
LEMMA CounterTypes ==
  ASSUME TypeInv
  PROVE  /\ free \in 0 .. RingSlots /\ RingSlots \in Nat /\ Last \in Nat
         /\ sent \in 0 .. Last /\ got \in 0 .. Last /\ got <= sent
         /\ reader # "done" => sent < Last
         /\ ReturnSlot => free' \in 0 .. RingSlots
<1>1. /\ free \in 0 .. RingSlots /\ sent \in 0 .. Last /\ got \in 0 .. Last /\ got <= sent
      /\ reader # "done" => sent < Last
  BY DEF TypeInv, TypeOK
<1>2. RingSlots \in Nat /\ Last \in Nat
  BY CapacityAssumption, PlanFacts DEF TypeInv, TypeOK
<1> QED
  BY <1>1, <1>2 DEF ReturnSlot

LEMMA TypeReader ==
  ASSUME TypeInv, ReaderTake \/ ReaderSend
  PROVE  TypeInv'
<1>0. /\ free \in 0 .. RingSlots /\ RingSlots \in Nat /\ Last \in Nat
      /\ sent \in 0 .. Last /\ got \in 0 .. Last /\ got <= sent
      /\ reader # "done" => sent < Last
      /\ ReturnSlot => free' \in 0 .. RingSlots
  BY CounterTypes
<1> USE PlanFacts, CapacityAssumption DEF TypeInv, TypeOK
<1>1. CASE ReaderTake
  <2>1. plan' = plan /\ Chunks = 1 .. Last
    BY <1>1 DEF ReaderTake, Chunks, Last
  <2>2. free' \in 0 .. RingSlots /\ sent < Last
    BY <1>1 DEF ReaderTake
  <2>3. QED
    BY <1>1, <2>1, <2>2, PlanFrame
    DEF ReaderTake, Busy, mainVars, workerVars, collVars, writerVars
<1>2. CASE ReaderSend
  <2>1. plan' = plan /\ Chunks = 1 .. Last
    BY <1>2 DEF ReaderSend, Chunks, Last
  <2>2. free' \in 0 .. RingSlots /\ sent' \in 0 .. Last /\ got <= sent'
        /\ (reader' # "done" => sent' < Last)
    <3>1. /\ reader = "read" /\ sent' = sent + 1
          /\ \/ sent' # Last /\ reader' = "recv" /\ free' = free
             \/ sent' = Last /\ reader' = "done" /\ free' = 0
      BY <1>2 DEF ReaderSend
    <3> QED
      BY ONLY <1>0, <3>1
  <2>3. QED
    BY <1>2, <2>1, <2>2, PlanFrame
    DEF ReaderSend, Busy, mainVars, workerVars, collVars, writerVars
<1> QED
  BY <1>1, <1>2
LEMMA TypeMain ==
  ASSUME TypeInv, MainAccept \/ MainReject \/ MainAnnounce \/ MainPost \/ MainPosted \/ MainPanic \/ MainJoin
  PROVE  TypeInv'
<1>0. /\ free \in 0 .. RingSlots /\ RingSlots \in Nat /\ Last \in Nat
      /\ sent \in 0 .. Last /\ got \in 0 .. Last /\ got <= sent
      /\ reader # "done" => sent < Last
      /\ ReturnSlot => free' \in 0 .. RingSlots
  BY CounterTypes
<1>8. id \in [Chunks -> Nat] /\ (main \in {"announce", "post"} => got >= 1) /\ Chunks = 1 .. Last
  BY DEF TypeInv, TypeOK, Chunks, Last
<1> USE PlanFacts, CapacityAssumption DEF TypeInv, TypeOK
<1>1. CASE MainAccept
  <2>1. plan' = plan /\ Chunks = 1 .. Last
    BY <1>1 DEF MainAccept, Chunks, Last
  <2>2. got' \in 0 .. Last /\ got' <= sent /\ got' >= 1
    BY <1>1 DEF MainAccept
  <2> QED
    BY <1>1, <2>1, <2>2, PlanFrame
    DEF MainAccept, Busy, mainVars, readerVars, workerVars, collVars, writerVars
<1>2. CASE MainReject
  <2>1. plan' = plan /\ Chunks = 1 .. Last
    BY <1>2 DEF MainReject, Chunks, Last
  <2>2. got' \in 0 .. Last /\ got' <= sent
    BY <1>2 DEF MainReject
  <2>4. free' \in 0 .. RingSlots
    BY ONLY <1>0, <1>2 DEF MainReject
  <2>3. main' \in {"recv", "join"}
    BY <1>2 DEF MainReject
  <2> QED
    BY <1>2, <2>1, <2>2, <2>3, <2>4, PlanFrame
    DEF MainReject, Busy, mainVars, readerVars, workerVars, collVars, writerVars
<1>3. CASE MainAnnounce
  <2>1. plan' = plan /\ Chunks = 1 .. Last
    BY <1>3 DEF MainAnnounce, Chunks, Last
  <2>2. coll' \in Seq(Messages)
    <3>1. got \in Chunks /\ id[got] \in Nat
      BY ONLY <1>0, <1>8, <1>3 DEF MainAnnounce
    <3>2. [kind |-> "slot", id |-> id[got], chunk |-> got, seg |-> 0] \in Messages
      BY <3>1 DEF Messages
    <3> QED
      BY <1>3, <3>2 DEF MainAnnounce
  <2>3. /\ main = "announce" /\ main' = "post" /\ nextSeg' = 1
        /\ buf' = [buf EXCEPT ![got] = "queued"]
        /\ UNCHANGED <<plan, free, got, reader, sent, chunkId, id, work, worker, held,
                       collector, results, done, nextWrite, drained, write, writer, written>>
    BY <1>3 DEF MainAnnounce, readerVars, workerVars, collVars, writerVars
  <2>4. TypeOK'
    <3>1. /\ Last' = Last /\ Chunks' = Chunks /\ Items' = Items /\ Messages' = Messages
          /\ \A c : Segs(c)' = Segs(c)
      BY <2>1, PlanFrame
    <3>2. buf' \in [Chunks -> {"none", "read", "filled", "split", "queued", "inflight", "drain",
                               "recycled", "freed"}]
      BY <2>3
    <3>3. /\ DOMAIN results' = Chunks'
          /\ \A c \in Chunks' : results'[c] \in [Segs(c)' -> Chunks' \cup {0}]
      BY <2>3, <3>1
    <3>4. /\ plan' \in Plans /\ free' \in 0 .. RingSlots
          /\ reader' \in {"recv", "read", "done"}
          /\ sent' \in 0 .. Last' /\ got' \in 0 .. Last'
          /\ main' \in {"recv", "announce", "post", "join", "done", "panicked"}
          /\ nextSeg' \in Nat \ {0} /\ chunkId' \in Nat /\ id' \in [Chunks' -> Nat]
      BY <2>3, <3>1
    <3>5. /\ work' \in Seq(Items')
          /\ worker' \in [Workers -> {"idle", "busy", "exited", "panicked"}]
          /\ held' \in [Workers -> Items' \cup {NoItem}]
      BY <2>3, <3>1
    <3>6. /\ collector' \in {"recv", "flush", "drain", "final", "exited", "panicked"}
          /\ done' \in [Chunks' -> Nat] /\ nextWrite' \in Nat
          /\ drained' \in [chunk : 0 .. Last', seg : Nat \ {0}]
      BY <2>3, <3>1
    <3>7. /\ write' \in Seq(Chunks' \X (Nat \ {0})) /\ writer' \in {"run", "exited", "panicked"}
          /\ written' \in Seq(Chunks' \X (Nat \ {0}))
      BY <2>3, <3>1
    <3> QED
      BY ONLY <2>2, <3>1, <3>2, <3>3, <3>4, <3>5, <3>6, <3>7 DEF TypeOK
  <2>5. got >= 1 /\ Busy' = Busy /\ Items' = Items
    BY <2>1, <2>3, PlanFrame DEF Busy
  <2> QED
    BY <2>1, <2>3, <2>4, <2>5, PlanFrame
<1>4. CASE MainPost
  <2>1. plan' = plan /\ Chunks = 1 .. Last
    BY <1>4 DEF MainPost, Chunks, Last
  <2>2. nextSeg' \in Nat \ {0}
    BY <1>4 DEF MainPost
  <2>3. [id |-> id[got], chunk |-> got, seg |-> nextSeg] \in Items
    <3>1. got \in Chunks /\ nextSeg \in Nat \ {0}
      BY <1>4, <2>1 DEF MainPost
    <3>2. id[got] \in Nat
      BY <3>1
    <3> QED
      BY <3>1, <3>2 DEF Items
  <2>4. work' \in Seq(Items)
    BY <1>4, <2>3 DEF MainPost
  <2> QED
    BY <1>4, <2>1, <2>2, <2>4, PlanFrame
    DEF MainPost, Busy, mainVars, readerVars, workerVars, collVars, writerVars
<1>5. CASE MainPosted
  <2>1. plan' = plan /\ Chunks = 1 .. Last
    BY <1>5 DEF MainPosted, Chunks, Last
  <2> QED
    BY <1>5, <2>1, PlanFrame, SMTT(60)
    DEF MainPosted, Busy, mainVars, readerVars, workerVars, collVars, writerVars
<1>6. CASE MainPanic
  <2>1. plan' = plan /\ Chunks = 1 .. Last
    BY <1>6 DEF MainPanic, Chunks, Last
  <2> QED
    BY <1>6, <2>1, PlanFrame
    DEF MainPanic, Busy, mainVars, readerVars, workerVars, collVars, writerVars
<1>7. CASE MainJoin
  <2>1. plan' = plan /\ Chunks = 1 .. Last
    BY <1>7 DEF MainJoin, Chunks, Last
  <2> QED
    BY <1>7, <2>1, PlanFrame
    DEF MainJoin, Busy, mainVars, readerVars, workerVars, collVars, writerVars
<1> QED
  BY <1>1, <1>2, <1>3, <1>4, <1>5, <1>6, <1>7

LEMMA TypeWorker ==
  ASSUME TypeInv, NEW w \in Workers,
         WorkerTake(w)
         \/ WorkerFinish(w)
         \/ WorkerExit(w)
         \/ WorkerPanic(w)
  PROVE  TypeInv'
<1> USE PlanFacts, CapacityAssumption DEF TypeInv, TypeOK
<1>1. CASE WorkerTake(w)
  <2>1. plan' = plan /\ Chunks = 1 .. Last
    BY <1>1 DEF WorkerTake, Chunks, Last
  <2>2. Head(work) \in Items /\ work' \in Seq(Items)
    BY <1>1 DEF WorkerTake
  <2>3. held' \in [Workers -> Items \cup {NoItem}] /\ \A v \in Busy' : held'[v] \in Items
    BY <1>1, <2>2 DEF WorkerTake, Busy
  <2> QED
    BY <1>1, <2>1, <2>2, <2>3, PlanFrame, SMTT(60)
    DEF WorkerTake, Busy, mainVars, readerVars, workerVars, collVars, writerVars
<1>2. CASE WorkerFinish(w)
  <2>1. plan' = plan /\ Chunks = 1 .. Last
    BY <1>2 DEF WorkerFinish, Chunks, Last
  <2>2. held[w] \in Items
    BY <1>2 DEF WorkerFinish, Busy
  <2>3. coll' \in Seq(Messages)
    <3>1. [kind |-> "result", id |-> held[w].id, chunk |-> held[w].chunk,
           seg |-> held[w].seg] \in Messages
      BY <2>2 DEF Items, Messages
    <3>2. CASE UNCHANGED coll
      BY <3>2
    <3>3. CASE coll' = Append(coll, [kind |-> "result", id |-> held[w].id,
                                     chunk |-> held[w].chunk, seg |-> held[w].seg])
      BY <3>1, <3>3
    <3> QED
      BY <1>2, <3>2, <3>3 DEF WorkerFinish
  <2>4. held' \in [Workers -> Items \cup {NoItem}] /\ \A v \in Busy' : held'[v] \in Items
    BY <1>2, <2>2 DEF WorkerFinish, Busy
  <2> QED
    BY <1>2, <2>1, <2>2, <2>3, <2>4, PlanFrame
    DEF WorkerFinish, Busy, mainVars, readerVars, workerVars, collVars, writerVars
<1>3. CASE WorkerExit(w)
  <2>1. plan' = plan /\ Chunks = 1 .. Last
    BY <1>3 DEF WorkerExit, Chunks, Last
  <2> QED
    BY <1>3, <2>1, PlanFrame
    DEF WorkerExit, Busy, mainVars, readerVars, workerVars, collVars, writerVars
<1>4. CASE WorkerPanic(w)
  <2>1. plan' = plan /\ Chunks = 1 .. Last
    BY <1>4 DEF WorkerPanic, Chunks, Last
  <2>2. held' \in [Workers -> Items \cup {NoItem}] /\ \A v \in Busy' : held'[v] \in Items
    BY <1>4 DEF WorkerPanic, Busy
  <2> QED
    BY <1>4, <2>1, <2>2, PlanFrame
    DEF WorkerPanic, Busy, mainVars, readerVars, workerVars, collVars, writerVars
<1> QED
  BY <1>1, <1>2, <1>3, <1>4

LEMMA DrainedNext ==
  ASSUME TypeInv, collector = "drain", drained' = [drained EXCEPT !.seg = @ + 1]
  PROVE  drained' \in [chunk : 0 .. Last, seg : Nat \ {0}] /\ drained'.chunk >= 1
<1>1. drained \in [chunk : 0 .. Last, seg : Nat \ {0}] /\ drained.chunk >= 1
  BY DEF TypeInv, TypeOK
<1>2. drained' = [chunk |-> drained.chunk, seg |-> drained.seg + 1]
  BY <1>1
<1> QED
  BY <1>1, <1>2

LEMMA TypeCollector ==
  ASSUME TypeInv, CollNewSlot
         \/ CollResult
         \/ CollHangup
         \/ FlushStart
         \/ FlushEnd
         \/ FlushSkip
         \/ FlushSend
         \/ FlushRecycle
         \/ CollPanic
  PROVE  TypeInv'
<1> USE PlanFacts, CapacityAssumption DEF TypeInv, TypeOK
<1>1. CASE CollNewSlot
  <2>1. plan' = plan /\ Chunks = 1 .. Last
    BY <1>1 DEF CollNewSlot, Chunks, Last
  <2>2. coll' \in Seq(Messages)
    BY <1>1 DEF CollNewSlot
  <2> QED
    BY <1>1, <2>1, <2>2, PlanFrame
    DEF CollNewSlot, Busy, mainVars, readerVars, workerVars, collVars, writerVars
<1>2. CASE CollResult
  <2>1. plan' = plan /\ Chunks = 1 .. Last
    BY <1>2 DEF CollResult, Chunks, Last
  <2>2. coll' \in Seq(Messages) /\ Head(coll) \in Messages
    BY <1>2, SMTT(60) DEF CollResult
  <2>5. Head(coll).chunk \in Chunks
    BY <2>2 DEF Messages
  <2>3. /\ DOMAIN results' = Chunks
        /\ \A c \in Chunks : results'[c] \in [Segs(c) -> Chunks \cup {0}]
    <3>1. CASE UNCHANGED results
      BY <3>1
    <3>2. ASSUME NEW c \in Chunks,
                 results' = [results EXCEPT ![c][Head(coll).seg] = Head(coll).chunk]
          PROVE  /\ DOMAIN results' = Chunks
                 /\ \A d \in Chunks : results'[d] \in [Segs(d) -> Chunks \cup {0}]
      <4>1. results[c] \in [Segs(c) -> Chunks \cup {0}]
        OBVIOUS
      <4>2. [results[c] EXCEPT ![Head(coll).seg] = Head(coll).chunk]
              \in [Segs(c) -> Chunks \cup {0}]
        BY <4>1, <2>5
      <4> QED
        BY <3>2, <4>2
    <3> QED
      BY <1>2, <3>1, <3>2 DEF CollResult, InFlightWith
  <2>4. done' \in [Chunks -> Nat]
    <3>1. CASE UNCHANGED done
      BY <3>1
    <3>2. ASSUME NEW c \in Chunks, done' = [done EXCEPT ![c] = @ + 1]
          PROVE  done' \in [Chunks -> Nat]
      BY <3>2
    <3> QED
      BY <1>2, <3>1, <3>2 DEF CollResult, InFlightWith
  <2> QED
    BY <1>2, <2>1, <2>2, <2>3, <2>4, PlanFrame
    DEF CollResult, Busy, mainVars, readerVars, workerVars, collVars, writerVars
<1>3. CASE CollHangup
  <2>1. plan' = plan /\ Chunks = 1 .. Last
    BY <1>3 DEF CollHangup, Chunks, Last
  <2> QED
    BY <1>3, <2>1, PlanFrame
    DEF CollHangup, Busy, mainVars, readerVars, workerVars, collVars, writerVars
<1>4. CASE FlushStart
  <2>1. plan' = plan /\ Chunks = 1 .. Last
    BY <1>4 DEF FlushStart, Chunks, Last
  <2>2. drained' \in [chunk : 0 .. Last, seg : Nat \ {0}] /\ drained'.chunk >= 1
    BY <1>4, <2>1 DEF FlushStart, Ready, InFlightWith
  <2>3. buf' \in [Chunks -> {"none", "read", "filled", "split", "queued",
               "inflight", "drain", "recycled", "freed"}]
    BY <1>4 DEF FlushStart
  <2> QED
    BY <1>4, <2>1, <2>2, <2>3, PlanFrame
    DEF FlushStart, Busy, mainVars, readerVars, workerVars, collVars, writerVars
<1>5. CASE FlushEnd
  <2>1. plan' = plan /\ Chunks = 1 .. Last
    BY <1>5 DEF FlushEnd, Chunks, Last
  <2>2. collector' \in {"recv", "exited"}
    BY <1>5 DEF FlushEnd
  <2> QED
    BY <1>5, <2>1, <2>2, PlanFrame
    DEF FlushEnd, Busy, mainVars, readerVars, workerVars, collVars, writerVars
<1>6. CASE FlushSkip
  <2>1. plan' = plan /\ Chunks = 1 .. Last
    BY <1>6 DEF FlushSkip, Chunks, Last
  <2>2. drained' \in [chunk : 0 .. Last, seg : Nat \ {0}] /\ drained'.chunk >= 1
    BY <1>6, DrainedNext DEF FlushSkip
  <2> QED
    BY <1>6, <2>1, <2>2, PlanFrame
    DEF FlushSkip, Busy, mainVars, readerVars, workerVars, collVars, writerVars
<1>7. CASE FlushSend
  <2>1. plan' = plan /\ Chunks = 1 .. Last
    BY <1>7 DEF FlushSend, Chunks, Last
  <2>3. drained.chunk \in Chunks /\ drained.seg \in Nat \ {0}
    BY <1>7, <2>1 DEF FlushSend
  <2>2. drained' \in [chunk : 0 .. Last, seg : Nat \ {0}] /\ drained'.chunk >= 1
    BY <1>7, DrainedNext DEF FlushSend
  <2>6. drained.seg \in Segs(drained.chunk)
    <3>1. drained.seg <= Len(plan[drained.chunk])
      BY <1>7 DEF FlushSend
    <3>2. Len(plan[drained.chunk]) \in Nat
      BY <2>3
    <3> QED
      BY <2>3, <3>1, <3>2 DEF Segs
  <2>4. results[drained.chunk][drained.seg] \in Chunks
    BY <1>7, <2>3, <2>6 DEF FlushSend, Skipped
  <2>5. write' \in Seq(Chunks \X (Nat \ {0}))
    <3>1. <<results[drained.chunk][drained.seg], drained.seg>> \in Chunks \X (Nat \ {0})
      BY <2>3, <2>4
    <3> QED
      BY <1>7, <3>1 DEF FlushSend
  <2> QED
    BY <1>7, <2>1, <2>2, <2>3, <2>4, <2>5, PlanFrame
    DEF FlushSend, Busy, mainVars, readerVars, workerVars, collVars, writerVars
<1>8. CASE FlushRecycle
  <2>1. plan' = plan /\ Chunks = 1 .. Last
    BY <1>8 DEF FlushRecycle, Chunks, Last
  <2>2. free' \in 0 .. RingSlots
    BY <1>8 DEF FlushRecycle, ReturnSlot
  <2>3. nextWrite' \in Nat
    BY <1>8 DEF FlushRecycle
  <2> QED
    BY <1>8, <2>1, <2>2, <2>3, PlanFrame
    DEF FlushRecycle, Busy, mainVars, readerVars, workerVars, collVars, writerVars
<1>9. CASE CollPanic
  <2>1. plan' = plan /\ Chunks = 1 .. Last
    BY <1>9 DEF CollPanic, Chunks, Last
  <2>2. coll' \in Seq(Messages)
    BY <1>9 DEF CollPanic
  <2>3. buf' \in [Chunks -> {"none", "read", "filled", "split", "queued",
               "inflight", "drain", "recycled", "freed"}]
    BY <1>9 DEF CollPanic
  <2> QED
    BY <1>9, <2>1, <2>2, <2>3, PlanFrame
    DEF CollPanic, Busy, mainVars, readerVars, workerVars, collVars, writerVars
<1> QED
  BY <1>1, <1>2, <1>3, <1>4, <1>5, <1>6, <1>7, <1>8, <1>9

LEMMA TypeWriter ==
  ASSUME TypeInv, WriterWrite
         \/ WriterExit
         \/ WriterPanic
  PROVE  TypeInv'
<1> USE PlanFacts, CapacityAssumption DEF TypeInv, TypeOK
<1>1. CASE WriterWrite
  <2>1. plan' = plan /\ Chunks = 1 .. Last
    BY <1>1 DEF WriterWrite, Chunks, Last
  <2>2. Head(write) \in Chunks \X (Nat \ {0}) /\ write' \in Seq(Chunks \X (Nat \ {0}))
    <3>1. write \in Seq(Chunks \X (Nat \ {0})) /\ write # <<>> /\ write' = Tail(write)
      BY <1>1 DEF WriterWrite
    <3> DEFINE S == Chunks \X (Nat \ {0})
    <3> HIDE DEF S
    <3>2. write \in Seq(S) => Head(write) \in S /\ Tail(write) \in Seq(S)
      BY ONLY <3>1
    <3> QED
      BY <3>1, <3>2 DEF S
  <2>3. written' \in Seq(Chunks \X (Nat \ {0}))
    BY <1>1, <2>2 DEF WriterWrite
  <2> QED
    BY <1>1, <2>1, <2>2, <2>3, PlanFrame
    DEF WriterWrite, Busy, mainVars, readerVars, workerVars, collVars, writerVars
<1>2. CASE WriterExit
  <2>1. plan' = plan /\ Chunks = 1 .. Last
    BY <1>2 DEF WriterExit, Chunks, Last
  <2> QED
    BY <1>2, <2>1, PlanFrame
    DEF WriterExit, Busy, mainVars, readerVars, workerVars, collVars, writerVars
<1>3. CASE WriterPanic
  <2>1. plan' = plan /\ Chunks = 1 .. Last
    BY <1>3 DEF WriterPanic, Chunks, Last
  <2>2. /\ write' = <<>> /\ writer' = "panicked"
        /\ UNCHANGED <<plan, free, buf, got, reader, sent, main, nextSeg, chunkId, id, work,
                       worker, held, coll, collector, results, done, nextWrite, drained, written>>
    BY <1>3 DEF WriterPanic, mainVars, readerVars, workerVars, collVars
  <2>3. /\ Last' = Last /\ Chunks' = Chunks /\ Items' = Items /\ Messages' = Messages
        /\ Busy' = Busy /\ \A c : Segs(c)' = Segs(c)
    BY <2>1, <2>2, PlanFrame DEF Busy
  <2>4. write' \in Seq(Chunks \X (Nat \ {0}))
    BY <2>2
  <2> QED
    BY ONLY TypeInv, <2>2, <2>3, <2>4 DEF TypeInv, TypeOK
<1> QED
  BY <1>1, <1>2, <1>3

LEMMA TypeUnchanged ==
  ASSUME TypeInv, UNCHANGED vars
  PROVE  TypeInv'
<1>1. plan' = plan
  BY DEF vars
<1> QED
  BY <1>1, PlanFrame DEF TypeInv, TypeOK, Busy, vars, mainVars, readerVars,
     workerVars, collVars, writerVars

LEMMA TypeStep == TypeInv /\ [Next]_vars => TypeInv'
  BY TypeReader, TypeMain, TypeWorker, TypeCollector, TypeWriter, TypeUnchanged
  DEF Next, MainNext, CollNext, WorkerRuns, Ended

\* Every variable of the pipeline keeps its type, for every number of
\* workers, every capacity, every input and every set of faults.
THEOREM TypeCorrect == SafeSpec => []TypeOK
<1>1. TypeInv => TypeOK
  BY DEF TypeInv
<1> QED
  BY InitType, TypeStep, <1>1, PTL DEF SafeSpec

-----------------------------------------------------------------------------
(* Part 2: slots and the pointers into them.                               *)

\* The types the steps below need, without the rest of TypeOK.
LEMMA Types ==
  ASSUME TypeInv
  PROVE  /\ sent \in Nat /\ got \in Nat /\ got <= sent /\ Last \in Nat
         /\ Chunks = 1 .. Last /\ got <= Last
         /\ nextSeg \in Nat /\ chunkId \in Nat /\ id \in [Chunks -> Nat]
         /\ DOMAIN buf = Chunks /\ DOMAIN results = Chunks /\ DOMAIN done = Chunks
         /\ \A c \in Chunks : Len(plan[c]) \in Nat
         /\ \A c \in Chunks : results[c] \in [Segs(c) -> Chunks \cup {0}]
         /\ done \in [Chunks -> Nat]
         /\ work \in Seq(Items) /\ coll \in Seq(Messages)
         /\ \A w \in Busy : held[w] \in Items
         /\ collector = "drain" => drained.chunk \in Chunks
<1>1. drained \in [chunk : 0 .. Last, seg : Nat \ {0}]
      /\ (collector = "drain" => drained.chunk >= 1)
  BY DEF TypeInv, TypeOK
<1>2. Last \in Nat /\ Chunks = 1 .. Last
  BY PlanFacts DEF TypeInv, TypeOK, Chunks, Last
<1>3. collector = "drain" => drained.chunk \in Chunks
  BY <1>1, <1>2
<1> QED
  BY <1>3, PlanFacts DEF TypeInv, TypeOK, Chunks, Last

LEMMA PresentFinite ==
  ASSUME TypeInv, NEW c \in Chunks
  PROVE  /\ IsFiniteSet(Present(c)) /\ Cardinality(Present(c)) \in Nat
         /\ IsFiniteSet(Segs(c)) /\ Cardinality(Segs(c)) = Len(plan[c])
<1>1. IsFiniteSet(Segs(c)) /\ Cardinality(Segs(c)) = Len(plan[c])
  <2>1. Len(plan[c]) \in Nat
    BY Types
  <2> DEFINE n == Len(plan[c])
  <2>3. 1 \in Int /\ n \in Int
    BY <2>1
  <2> HIDE DEF n
  <2>2. IsFiniteSet(1 .. n) /\ Cardinality(1 .. n) = IF 1 > n THEN 0 ELSE n - 1 + 1
    BY <2>3, FS_Interval
  <2> QED
    BY <2>1, <2>2 DEF Segs, n
<1>2. Present(c) \subseteq Segs(c)
  BY DEF Present
<1> QED
  BY <1>1, <1>2, FS_Subset, FS_CardinalityType

\* A slot whose count is full has all its results.
LEMMA FullIsComplete ==
  ASSUME TypeInv, DoneCounts, NEW c \in Chunks, done[c] >= Len(plan[c])
  PROVE  \A s \in Segs(c) : results[c][s] # 0
<1>1. Present(c) \subseteq Segs(c)
  BY DEF Present
<1>2. Cardinality(Present(c)) <= Cardinality(Segs(c))
  BY <1>1, PresentFinite, FS_Subset
<1>3. Cardinality(Present(c)) = Cardinality(Segs(c))
  BY <1>2, PresentFinite, Types DEF DoneCounts
<1>4. Present(c) = Segs(c)
  BY <1>1, <1>3, PresentFinite, FS_Subset
<1> QED
  BY <1>4 DEF Present

\* One more result raises the count by one.
LEMMA PresentGrows ==
  ASSUME TypeInv, plan' = plan, NEW c \in Chunks, NEW s \in Segs(c), results[c][s] = 0,
         NEW x \in Chunks, results' = [results EXCEPT ![c][s] = x]
  PROVE  /\ Cardinality(Present(c)') = Cardinality(Present(c)) + 1
         /\ \A d \in Chunks \ {c} : Present(d)' = Present(d)
<1>1. Segs(c)' = Segs(c) /\ \A d \in Chunks : Segs(d)' = Segs(d)
  BY PlanFrame
<1>2. x # 0
  BY Types
<1>3. \A d \in Chunks \ {c} : results'[d] = results[d]
  BY Types
<1>4. \A t \in Segs(c) : results'[c][t] = IF t = s THEN x ELSE results[c][t]
  BY Types
<1>5. Present(c)' = Present(c) \cup {s}
  BY <1>1, <1>2, <1>4 DEF Present
<1>6. s \notin Present(c)
  BY DEF Present
<1>7. Cardinality(Present(c) \cup {s}) = Cardinality(Present(c)) + 1
  BY <1>6, PresentFinite, FS_AddElement
<1>8. \A d \in Chunks \ {c} : Present(d)' = Present(d)
  BY <1>1, <1>3 DEF Present
<1> QED
  BY <1>5, <1>7, <1>8

\* Tokens and results do not depend on where the slots are.
LEMMA TokensFrame ==
  ASSUME IInv, UNCHANGED <<plan, got, mainVars, work, workerVars, coll, results, done>>
  PROVE  /\ UnpostedEmpty' /\ TokensOK' /\ TokensUnique' /\ IdsUnique' /\ DoneCounts'
         /\ Outstanding' = Outstanding /\ Busy' = Busy
         /\ \A c : Announced(c)' <=> Announced(c)
<1>1. UNCHANGED <<plan, got, main, nextSeg, chunkId, id, work, worker, held, coll,
                  results, done>>
  BY DEF mainVars, workerVars
<1>2. Chunks' = Chunks /\ \A c : Segs(c)' = Segs(c)
  BY <1>1, PlanFrame
<1>3. UnpostedEmpty'
  BY <1>1, <1>2 DEF IInv, UnpostedEmpty, Unposted
<1>4. TokensOK'
  BY <1>1, <1>2 DEF IInv, TokensOK, TokenOK, Unposted, Busy, Returning
<1>5. TokensUnique'
  BY <1>1 DEF IInv, TokensUnique, Same, Busy, Returning
<1>6. IdsUnique'
  BY <1>1, <1>2 DEF IInv, IdsUnique
<1>7. DoneCounts'
  BY <1>1, <1>2 DEF IInv, DoneCounts, Present
<1> QED
  BY <1>1, <1>3, <1>4, <1>5, <1>6, <1>7 DEF Outstanding, Busy, Announced

\* Outstanding items are tokens of announced chunks.
LEMMA OutstandingTokens ==
  ASSUME IInv, NEW t \in Outstanding
  PROVE  /\ t.chunk \in Chunks /\ t.chunk <= got /\ t.seg \in Segs(t.chunk)
         /\ results[t.chunk][t.seg] = 0
         /\ buf[t.chunk] \in {"queued", "inflight"}
<1>1. t \in Items
  BY Types DEF IInv, Outstanding, Busy
<1>2. TokenOK(t)
  BY DEF IInv, Outstanding, TokensOK, Busy
<1> QED
  BY <1>1, <1>2 DEF Items, TokenOK, IInv, SlotIntact
\* Steps that touch neither tokens nor results: what is left to show is
\* where the slots are and who is alive.
LEMMA FrameStep ==
  ASSUME IInv, TypeInv',
         UNCHANGED <<plan, got, mainVars, work, workerVars, coll, results, done>>,
         DownstreamAlive', DrainedHeld',
         \A c \in Chunks : buf'[c] # buf[c] =>
            /\ buf'[c] \in {"queued", "inflight", "drain"} =>
                 buf[c] \in {"queued", "inflight", "drain"}
            /\ \A t \in Outstanding : t.chunk # c
            /\ main = "post" /\ c = got => nextSeg > Len(plan[got])
  PROVE  IInv'
<1>1. UNCHANGED <<plan, got, main, nextSeg, coll>> /\ Chunks' = Chunks
  BY PlanFrame DEF mainVars
<1>2. SlotIntact'
  BY <1>1, TokensFrame, OutstandingTokens DEF SlotIntact
<1>3. RegisteredAnnounced'
  BY <1>1, TokensFrame DEF IInv, RegisteredAnnounced
<1>4. got \in Chunks \/ main \notin {"announce", "post"}
  BY Types DEF IInv, TypeInv
<1>5. PostingOpen'
  <2>1. CASE main = "post" /\ nextSeg <= Len(plan[got])
    <3>1. buf'[got] = buf[got]
      BY <2>1, <1>4, Types DEF IInv
    <3> QED
      BY <1>1, <2>1, <3>1 DEF IInv, PostingOpen
  <2>2. CASE ~(main = "post" /\ nextSeg <= Len(plan[got]))
    BY <1>1, <2>2 DEF IInv, PostingOpen
  <2> QED
    BY <2>1, <2>2
<1> QED
  BY <1>2, <1>3, <1>5, TokensFrame DEF IInv

\* The reader works on chunks beyond those main has received.
LEMMA InvReader ==
  ASSUME IInv, ReaderTake \/ ReaderSend
  PROVE  IInv'
<1>1. TypeInv /\ TypeInv'
  BY TypeReader DEF IInv
<1>2. UNCHANGED <<plan, got, mainVars, work, workerVars, coll, results, done,
                  collector, drained, writer>>
  BY DEF ReaderTake, ReaderSend, collVars, writerVars
<1>3. \A c \in Chunks : buf'[c] # buf[c] => c > got /\ buf'[c] \in {"read", "filled"}
  BY <1>1, Types DEF ReaderTake, ReaderSend
<1>4. DrainedHeld'
  <2>1. CASE collector = "drain"
    <3>1. drained.chunk \in Chunks
      BY <1>1, <2>1, Types
    <3>2. drained.chunk <= got
      BY <2>1, <3>1 DEF IInv, DrainedHeld, RegisteredAnnounced, Announced
    <3> QED
      BY <1>1, <1>2, <1>3, <3>1, <3>2, Types DEF IInv, DrainedHeld
  <2> QED
    BY <1>2, <2>1 DEF DrainedHeld
<1>5. DownstreamAlive'
  BY <1>2 DEF IInv, DownstreamAlive
<1>6. \A t \in Outstanding : t.chunk <= got
  BY OutstandingTokens
<1> QED
  BY <1>1, <1>2, <1>3, <1>4, <1>5, <1>6, Types, FrameStep

\* Flushing: a complete slot has no token left, and the slot being drained
\* is not one a token points to.
LEMMA InvFlush ==
  ASSUME IInv, FlushStart \/ FlushEnd \/ FlushSkip \/ FlushSend \/ FlushRecycle
               \/ CollHangup
  PROVE  IInv'
<1> USE DEF IInv
<1>1. TypeInv'
  BY TypeCollector
<1>2. UNCHANGED <<plan, got, mainVars, work, workerVars, coll, results, done, writer>>
  BY DEF FlushStart, FlushEnd, FlushSkip, FlushSend, FlushRecycle, CollHangup,
     collVars, writerVars
<1>3. DownstreamAlive'
  BY <1>2 DEF DownstreamAlive, FlushStart, FlushEnd, FlushSkip, FlushSend,
     FlushRecycle, CollHangup
<1>4. CASE FlushStart
  <2>1. PICK c \in Ready : /\ buf' = [buf EXCEPT ![c] = "drain"]
                           /\ drained' = [chunk |-> c, seg |-> 1]
    BY <1>4 DEF FlushStart
  <2>2. c \in Chunks /\ buf[c] = "inflight" /\ done[c] >= Len(plan[c])
    BY <2>1 DEF Ready, InFlightWith
  <2>3. \A s \in Segs(c) : results[c][s] # 0
    BY <2>2, FullIsComplete
  <2>4. \A t \in Outstanding : t.chunk # c
    BY <2>3, OutstandingTokens
  <2>5. main = "post" /\ c = got => nextSeg > Len(plan[got])
    <3>1. SUFFICES ASSUME main = "post", c = got, nextSeg <= Len(plan[got]) PROVE FALSE
      BY <2>2, Types
    <3>2. nextSeg \in Segs(c)
      BY <2>2, <3>1 DEF Segs, TypeInv, TypeOK
    <3>3. results[c][nextSeg] = 0
      BY <2>2, <3>1, <3>2, Types DEF UnpostedEmpty, Unposted
    <3> QED
      BY <2>3, <3>2, <3>3
  <2>6. DrainedHeld'
    BY <2>1, <2>2, Types DEF DrainedHeld
  <2> QED
    BY <1>1, <1>2, <1>3, <2>1, <2>2, <2>4, <2>5, <2>6, Types, FrameStep
<1>5. CASE FlushEnd \/ FlushSkip \/ FlushSend \/ CollHangup
  <2>1. buf' = buf /\ DrainedHeld'
    <3>1. CASE FlushEnd \/ CollHangup
      BY <3>1 DEF FlushEnd, CollHangup, DrainedHeld
    <3>2. CASE FlushSkip \/ FlushSend
      <4>1. drained' = [drained EXCEPT !.seg = @ + 1] /\ UNCHANGED <<collector, buf>>
        BY <3>2 DEF FlushSkip, FlushSend
      <4>2. drained \in [chunk : 0 .. Last, seg : Nat \ {0}]
        BY DEF TypeInv, TypeOK
      <4>3. drained'.chunk = drained.chunk
        BY <4>1, <4>2
      <4> QED
        BY <4>1, <4>3 DEF DrainedHeld
    <3> QED
      BY <1>5, <3>1, <3>2
  <2> QED
    BY <1>1, <1>2, <1>3, <2>1, FrameStep
<1>6. CASE FlushRecycle
  <2>1. collector = "drain" /\ collector' = "flush"
        /\ buf' = [buf EXCEPT ![drained.chunk] = "recycled"]
    BY <1>6 DEF FlushRecycle
  <2>2. drained.chunk \in Chunks /\ buf[drained.chunk] = "drain"
    BY <2>1, Types DEF DrainedHeld
  <2>3. \A t \in Outstanding : t.chunk # drained.chunk
    BY <2>2, OutstandingTokens
  <2>4. main = "post" /\ drained.chunk = got => nextSeg > Len(plan[got])
    BY <2>2, Types DEF PostingOpen
  <2>5. DrainedHeld'
    BY <2>1 DEF DrainedHeld
  <2> QED
    BY <1>1, <1>2, <1>3, <2>1, <2>2, <2>3, <2>4, <2>5, Types, FrameStep
<1> QED
  BY <1>4, <1>5, <1>6

\* The writer leaves after the collector, unless it fails.
LEMMA InvWriter ==
  ASSUME IInv, WriterWrite \/ WriterExit \/ WriterPanic
  PROVE  IInv'
<1>1. TypeInv'
  BY TypeWriter DEF IInv
<1>2. UNCHANGED <<plan, got, mainVars, work, workerVars, coll, results, done,
                  collector, drained, buf>>
  BY DEF WriterWrite, WriterExit, WriterPanic, collVars
<1>3. DownstreamAlive'
  BY <1>2 DEF IInv, DownstreamAlive, WriterWrite, WriterExit, WriterPanic, CollGone
<1>4. DrainedHeld'
  BY <1>2 DEF IInv, DrainedHeld
<1> QED
  BY <1>1, <1>2, <1>3, <1>4, FrameStep

\* The collector panics by CollPanic alone.
LEMMA CollPanicOnly ==
  ASSUME [Next]_vars, collector # "panicked", ~CollPanic
  PROVE  collector' # "panicked"
  BY DEF Next, MainNext, CollNext, ReaderTake, ReaderSend, MainAccept, MainReject, MainAnnounce,
     MainPost, MainPosted, MainPanic, MainJoin, WorkerRuns, WorkerTake, WorkerFinish, WorkerExit,
     WorkerPanic, CollNewSlot, CollResult, CollHangup, FlushStart, FlushEnd, FlushSkip, FlushSend,
     FlushRecycle, WriterWrite, WriterExit, WriterPanic, Ended, vars, collVars

\* Nothing follows the collector's panic.
LEMMA CollPanicIsLast ==
  /\ CollPanic => collector' = "panicked"
  /\ collector = "panicked" /\ [Next]_vars => collector' = "panicked"
<1>1. CollPanic => collector' = "panicked"
  BY DEF CollPanic
<1>2. ASSUME collector = "panicked", [Next]_vars PROVE collector' = "panicked"
  BY <1>2 DEF Next, MainNext, CollNext, ReaderTake, ReaderSend, MainAccept, MainReject, MainAnnounce,
     MainPost, MainPosted, MainPanic, MainJoin, WorkerRuns, WorkerTake, WorkerFinish, WorkerExit,
     WorkerPanic, CollNewSlot, CollResult, CollHangup, FlushStart, FlushEnd, FlushSkip, FlushSend,
     FlushRecycle, CollPanic, WriterWrite, WriterExit, WriterPanic, Ended, vars, collVars
<1> QED
  BY <1>1, <1>2

\* Every token belongs to a chunk main has received.
LEMMA TokenChunks ==
  ASSUME IInv
  PROVE  /\ \A i \in DOMAIN work : work[i] \in Items /\ work[i].chunk \in Chunks
         /\ \A w \in Busy : held[w] \in Items /\ held[w].chunk \in Chunks
         /\ \A i \in DOMAIN coll : coll[i] \in Messages /\ coll[i].chunk \in Chunks
<1>1. \A i \in DOMAIN work : work[i] \in Items
  BY Types DEF IInv
<1>2. \A w \in Busy : held[w] \in Items
  BY Types DEF IInv
<1>3. \A i \in DOMAIN coll : coll[i] \in Messages
  BY Types DEF IInv
<1> QED
  BY <1>1, <1>2, <1>3 DEF Items, Messages

\* Receiving a chunk moves the line between split and unsplit chunks by one;
\* everything registered, drained or pointed to is below it.
LEMMA InvReceive ==
  ASSUME IInv, TypeInv', main = "recv", got < sent, got' = got + 1,
         UNCHANGED <<plan, nextSeg, chunkId, work, worker, held, coll, collector, writer,
                     results, done, drained>>,
         buf' = [buf EXCEPT ![got + 1] = IF main' = "announce" THEN "split" ELSE "recycled"],
         \/ main' = "announce" /\ plan[got + 1] # <<>>
            /\ id' = [id EXCEPT ![got + 1] = chunkId]
         \/ main' \in {"recv", "join"} /\ plan[got + 1] = <<>> /\ id' = id
  PROVE  IInv'
<1> USE DEF IInv
<1>1. Chunks' = Chunks /\ \A c : Segs(c)' = Segs(c)
  BY PlanFrame
<1>2. got + 1 \in Chunks
  BY Types DEF TypeInv, TypeOK
<1>3. \A c \in Chunks : c # got + 1 => buf'[c] = buf[c] /\ id'[c] = id[c]
  BY Types
<1>4. DownstreamAlive'
  BY DEF DownstreamAlive
<1>5. RegisteredAnnounced'
  BY <1>1, <1>2, Types, TokenChunks DEF RegisteredAnnounced, Announced
<1>6. PostingOpen'
  BY DEF PostingOpen
<1>7. DrainedHeld'
  <2>1. CASE collector = "drain"
    <3>1. drained.chunk \in Chunks /\ drained.chunk <= got
      BY <2>1, Types DEF DrainedHeld, RegisteredAnnounced, Announced
    <3> QED
      BY <1>3, <3>1, Types DEF DrainedHeld
  <2> QED
    BY <2>1 DEF DrainedHeld
<1>8. UnpostedEmpty'
  BY <1>1, Types DEF UnpostedEmpty, Unposted
<1>9. \A t : t.chunk \in Chunks /\ TokenOK(t) => TokenOK(t)'
  BY <1>1, <1>3, Types DEF TokenOK, Unposted
<1>10. TokensOK'
  BY <1>9, TokenChunks DEF TokensOK, Busy, Returning
<1>11. TokensUnique'
  BY DEF TokensUnique, Same, Busy, Returning
<1>12. IdsUnique'
  <2>6. got \in Nat /\ Chunks \subseteq Nat
    BY Types
  <2>1. \A c \in Chunks : c <= got' /\ c # got + 1 => c <= got /\ id'[c] = id[c]
    BY <1>3, <2>6
  <2>2. \A c \in Chunks : c <= got /\ plan[c] # <<>> => id[c] < chunkId
    BY DEF IdsUnique
  <2>3. \A c, d \in Chunks :
          c < d /\ d <= got /\ plan[c] # <<>> /\ plan[d] # <<>> => id[c] < id[d]
    BY DEF IdsUnique
  <2>4. CASE main' = "announce" /\ plan[got + 1] # <<>>
             /\ id' = [id EXCEPT ![got + 1] = chunkId]
    <3>1. id'[got + 1] = chunkId
      BY <1>2, <2>4, Types
    <3>2. \A c \in Chunks : c < got' /\ plan'[c] # <<>> => id'[c] < chunkId'
      BY <2>1, <2>2, <2>6
    <3>3. \A c, d \in Chunks : c < d /\ d <= got' /\ plan'[c] # <<>> /\ plan'[d] # <<>>
                               => id'[c] < id'[d]
      BY <2>1, <2>3, <3>1, <3>2, <2>6
    <3> QED
      BY <1>1, <2>4, <3>1, <3>2, <3>3 DEF IdsUnique
  <2>5. CASE main' \in {"recv", "join"} /\ plan[got + 1] = <<>> /\ id' = id
    <3>1. \A c \in Chunks : c <= got' /\ plan'[c] # <<>> => c <= got
      BY <2>1, <2>5
    <3>2. \A c \in Chunks : c <= got' /\ plan'[c] # <<>> => id'[c] < chunkId'
      BY <2>2, <2>5, <3>1
    <3>3. \A c, d \in Chunks : c < d /\ d <= got' /\ plan'[c] # <<>> /\ plan'[d] # <<>>
                               => id'[c] < id'[d]
      BY <2>3, <2>5, <3>1
    <3> QED
      BY <1>1, <2>5, <3>2, <3>3 DEF IdsUnique
  <2> QED
    BY <2>4, <2>5
<1>13. DoneCounts'
  BY <1>1 DEF DoneCounts, Present
<1>14. SlotIntact'
  <2>1. Outstanding' = Outstanding
    BY DEF Outstanding
  <2>2. \A t \in Outstanding : buf'[t.chunk] = buf[t.chunk]
    BY <1>3, OutstandingTokens, Types
  <2> QED
    BY <2>1, <2>2 DEF SlotIntact
<1> QED
  BY <1>4, <1>5, <1>6, <1>7, <1>8, <1>10, <1>11, <1>12, <1>13, <1>14

LEMMA InvAcceptReject ==
  ASSUME IInv, MainAccept \/ MainReject
  PROVE  IInv'
<1>1. TypeInv'
  BY TypeMain DEF IInv
<1> QED
  BY <1>1, InvReceive
  DEF MainAccept, MainReject, readerVars, workerVars, collVars, writerVars

\* Announcing: the NewSlot message is no token, and tokens belong to earlier
\* chunks.
LEMMA InvAnnounce ==
  ASSUME IInv, MainAnnounce
  PROVE  IInv'
<1> USE DEF IInv
<1> DEFINE m == [kind |-> "slot", id |-> id[got], chunk |-> got, seg |-> 0]
<1>1. TypeInv'
  BY TypeMain
<1>2. /\ main = "announce" /\ main' = "post" /\ nextSeg' = 1
      /\ coll' = Append(coll, m) /\ buf' = [buf EXCEPT ![got] = "queued"]
      /\ UNCHANGED <<plan, got, chunkId, id, work, worker, held, collector, writer,
                     results, done, drained>>
  BY DEF MainAnnounce, readerVars, workerVars, collVars, writerVars
<1>3. Chunks' = Chunks /\ \A c : Segs(c)' = Segs(c)
  BY <1>2, PlanFrame
<1>4. got \in Chunks
  BY <1>2, Types DEF TypeInv
<1>5. /\ Len(coll') = Len(coll) + 1 /\ coll'[Len(coll) + 1] = m
      /\ \A i \in DOMAIN coll : coll'[i] = coll[i]
      /\ DOMAIN coll' = DOMAIN coll \cup {Len(coll) + 1}
  BY <1>2, Types
<1>6. Returning' = Returning /\ \A i \in Returning : coll'[i] = coll[i] /\ i \in DOMAIN coll
  BY <1>5, Types DEF Returning
<1>7. Busy' = Busy /\ Outstanding' = Outstanding
  BY <1>2 DEF Busy, Outstanding
<1>8. \A c \in Chunks : Announced(c) => c <= got /\ plan[c] # <<>> /\ c # got
  BY <1>2 DEF Announced
<1>9. got <= got /\ plan[got] # <<>>
  BY <1>2, Types DEF PostingOpen
<1>10. DownstreamAlive'
  BY <1>2 DEF DownstreamAlive
<1>11. RegisteredAnnounced'
  <2>1. \A c \in Chunks : buf'[c] \in {"queued", "inflight", "drain"} =>
          c <= got /\ plan[c] # <<>>
    <3>1. \A c \in Chunks : c = got \/ buf'[c] = buf[c]
      BY <1>2, Types
    <3> QED
      BY <1>8, <1>9, <3>1 DEF RegisteredAnnounced
  <2>2. \A i \in DOMAIN coll' : coll'[i].chunk <= got /\ plan[coll'[i].chunk] # <<>>
    <3>1. \A i \in DOMAIN coll : coll[i].chunk \in Chunks /\ Announced(coll[i].chunk)
      BY TokenChunks DEF RegisteredAnnounced
    <3>2. coll'[Len(coll) + 1].chunk = got
      BY <1>5
    <3> QED
      BY <1>5, <1>8, <1>9, <3>1, <3>2
  <2> QED
    BY <1>2, <1>3, <2>1, <2>2 DEF RegisteredAnnounced, Announced
<1>12. PostingOpen'
  BY <1>2, <1>4, Types DEF PostingOpen
<1>13. DrainedHeld'
  <2>1. CASE collector = "drain"
    <3>1. drained.chunk \in Chunks /\ drained.chunk # got
      BY <1>2, <2>1, Types DEF DrainedHeld, RegisteredAnnounced, Announced
    <3> QED
      BY <1>2, <3>1, Types DEF DrainedHeld
  <2> QED
    BY <1>2, <2>1 DEF DrainedHeld
<1>14. UnpostedEmpty'
  BY <1>2, <1>3 DEF UnpostedEmpty, Unposted
<1>15. \A t : t.chunk \in Chunks /\ TokenOK(t) => TokenOK(t)'
  BY <1>2, <1>3 DEF TokenOK, Unposted
<1>16. TokensOK'
  BY <1>2, <1>6, <1>7, <1>15, TokenChunks DEF TokensOK
<1>17. TokensUnique'
  BY <1>2, <1>6, <1>7 DEF TokensUnique, Same
<1>18. IdsUnique'
  BY <1>2, <1>3 DEF IdsUnique
<1>19. DoneCounts'
  BY <1>2, <1>3 DEF DoneCounts, Present
<1>20. SlotIntact'
  BY <1>2, <1>4, <1>7, OutstandingTokens, Types DEF SlotIntact
<1> QED
  BY <1>1, <1>10, <1>11, <1>12, <1>13, <1>14, <1>16, <1>17, <1>18, <1>19, <1>20

\* Posting: the new item is the token of a segment that had none.
LEMMA InvPost ==
  ASSUME IInv, MainPost
  PROVE  IInv'
<1> USE DEF IInv
<1>0. PICK t : t = [id |-> id[got], chunk |-> got, seg |-> nextSeg]
  OBVIOUS
<1>1. TypeInv'
  BY TypeMain
<1>2. /\ main = "post" /\ nextSeg <= Len(plan[got]) /\ nextSeg' = nextSeg + 1
      /\ work' = Append(work, t)
      /\ UNCHANGED <<plan, got, main, chunkId, id, worker, held, coll, collector,
                     writer, results, done, drained, buf>>
  BY <1>0 DEF MainPost, readerVars, workerVars, collVars, writerVars
<1>3. Chunks' = Chunks /\ \A c : Segs(c)' = Segs(c)
  BY <1>2, PlanFrame
<1>4. got \in Chunks /\ nextSeg \in Segs(got)
  BY <1>2, Types DEF TypeInv, TypeOK, Segs
<1>5. /\ work'[Len(work) + 1] = t
      /\ \A i \in DOMAIN work : work'[i] = work[i] /\ i # Len(work) + 1
      /\ DOMAIN work' = DOMAIN work \cup {Len(work) + 1}
  BY <1>2, Types
<1>6. Busy' = Busy /\ Returning' = Returning
  BY <1>2 DEF Busy, Returning
<1>7. \A u : TokenOK(u) => TokenOK(u)' /\ ~Same(u, t)
  <2>1. Chunks \subseteq Nat /\ nextSeg \in Nat
    BY Types
  <2>2. \A u : TokenOK(u) => u.seg \in Nat
    BY DEF TokenOK, Segs
  <2> QED
    BY <1>0, <1>2, <1>3, <2>1, <2>2 DEF TokenOK, Unposted, Same
<1>8. TokenOK(t)'
  <2>1. results[got][nextSeg] = 0
    BY <1>2, <1>4, Types DEF UnpostedEmpty, Unposted
  <2> QED
    BY <1>0, <1>2, <1>3, <1>4, <2>1, Types DEF TokenOK, Unposted
<1>9. UnpostedEmpty'
  <2>1. \A c \in Chunks : \A s \in Segs(c) : s \in Nat
    BY DEF Segs
  <2> QED
    BY <1>2, <1>3, <2>1, Types DEF UnpostedEmpty, Unposted
<1>10. TokensOK'
  <2>1. \A i \in DOMAIN work' : TokenOK(work[i])'
    BY <1>5, <1>7, <1>8 DEF TokensOK
  <2>2. \A w \in Busy' : TokenOK(held[w])'
    BY <1>2, <1>6, <1>7 DEF TokensOK
  <2>3. \A i \in Returning' : TokenOK(coll[i])'
    BY <1>2, <1>6, <1>7 DEF TokensOK
  <2> QED
    BY <2>1, <2>2, <2>3 DEF TokensOK
<1>11. TokensUnique'
  <2>1. /\ \A i \in DOMAIN work : ~Same(work[i], t) /\ ~Same(t, work[i])
        /\ \A w \in Busy : ~Same(t, held[w])
        /\ \A i \in Returning : ~Same(t, coll[i])
    BY <1>7 DEF TokensOK, Same
  <2> QED
    BY <1>2, <1>5, <1>6, <2>1 DEF TokensUnique, Same
<1>12. IdsUnique'
  BY <1>2, <1>3 DEF IdsUnique
<1>13. DoneCounts'
  BY <1>2, <1>3 DEF DoneCounts, Present
<1>14. SlotIntact'
  <2>1. Outstanding' \subseteq Outstanding \cup {t}
    BY <1>2, <1>5, <1>6 DEF Outstanding, Busy
  <2>2. t.chunk = got /\ buf[got] \in {"queued", "inflight"}
    BY <1>0, <1>2 DEF PostingOpen
  <2> QED
    BY <1>2, <2>1, <2>2 DEF SlotIntact
<1>15. DownstreamAlive' /\ DrainedHeld' /\ PostingOpen'
  BY <1>2, Types DEF DownstreamAlive, DrainedHeld, PostingOpen
<1>16. RegisteredAnnounced'
  BY <1>2, <1>3 DEF RegisteredAnnounced, Announced
<1> QED
  BY <1>1, <1>9, <1>10, <1>11, <1>12, <1>13, <1>14, <1>15, <1>16

\* Main moves on, or stops.
LEMMA InvMove ==
  ASSUME IInv, MainPosted \/ MainPanic \/ MainJoin
  PROVE  IInv'
<1> USE DEF IInv
<1>1. TypeInv'
  BY TypeMain
<1>2. /\ UNCHANGED <<plan, got, nextSeg, id, work, worker, held, coll, collector, writer,
                     results, done, drained, buf>>
      /\ \/ /\ main = "post" /\ nextSeg > Len(plan[got])
            /\ main' \in {"recv", "join"} /\ chunkId' = chunkId + 1
         \/ main' \in {"panicked", "done"}
  BY DEF MainPosted, MainPanic, MainJoin, readerVars, workerVars, collVars, writerVars
<1>3. Chunks' = Chunks /\ \A c : Segs(c)' = Segs(c)
  BY <1>2, PlanFrame
<1>4. Busy' = Busy /\ Returning' = Returning /\ Outstanding' = Outstanding
  BY <1>2 DEF Busy, Returning, Outstanding
<1>5. UnpostedEmpty'
  BY <1>2, <1>3 DEF UnpostedEmpty, Unposted
<1>6. \A u : TokenOK(u) => TokenOK(u)'
  BY <1>2, <1>3 DEF TokenOK, Unposted
<1>7. TokensOK'
  BY <1>2, <1>4, <1>6 DEF TokensOK
<1>8. TokensUnique'
  BY <1>2, <1>4 DEF TokensUnique, Same
<1>9. IdsUnique'
  <2>1. got \in Nat /\ Chunks \subseteq Nat /\ chunkId \in Nat /\ id \in [Chunks -> Nat]
    BY Types
  <2>2. \A c, d \in Chunks :
          c < d /\ d <= got /\ plan[c] # <<>> /\ plan[d] # <<>> => id[c] < id[d]
    BY DEF IdsUnique
  <2>3. ASSUME main = "post", chunkId' = chunkId + 1
        PROVE  \A c \in Chunks : c <= got /\ plan[c] # <<>> => id[c] < chunkId'
    BY <2>1, <2>3 DEF IdsUnique
  <2> QED
    BY <1>2, <1>3, <2>2, <2>3 DEF IdsUnique
<1>10. DoneCounts'
  BY <1>2, <1>3 DEF DoneCounts, Present
<1>11. SlotIntact' /\ DownstreamAlive' /\ DrainedHeld' /\ PostingOpen'
  BY <1>2, <1>4 DEF SlotIntact, DownstreamAlive, DrainedHeld, PostingOpen
<1>12. RegisteredAnnounced'
  BY <1>2, <1>3 DEF RegisteredAnnounced, Announced
<1> QED
  BY <1>1, <1>5, <1>7, <1>8, <1>9, <1>10, <1>11, <1>12

\* A worker's step leaves results, slots and main alone: what is left to
\* show is about the tokens.
LEMMA WorkerFrame ==
  ASSUME IInv, TypeInv', NEW w \in Workers, WorkerRuns(w) \/ WorkerPanic(w)
  PROVE  /\ UnpostedEmpty' /\ IdsUnique' /\ DoneCounts' /\ DownstreamAlive'
         /\ DrainedHeld' /\ PostingOpen'
         /\ \A u : TokenOK(u) => TokenOK(u)'
         /\ UNCHANGED <<plan, buf, got, main>> /\ Chunks' = Chunks
<1> USE DEF IInv
<1>1. UNCHANGED <<plan, buf, got, main, nextSeg, chunkId, id, collector, results, done,
                  drained, writer>>
  BY DEF WorkerRuns, WorkerTake, WorkerFinish, WorkerExit, WorkerPanic, mainVars,
     collVars, writerVars
<1>2. Chunks' = Chunks /\ \A c : Segs(c)' = Segs(c)
  BY <1>1, PlanFrame
<1>3. UnpostedEmpty' /\ \A u : TokenOK(u) => TokenOK(u)'
  BY <1>1, <1>2 DEF UnpostedEmpty, TokenOK, Unposted
<1>4. IdsUnique' /\ DoneCounts'
  BY <1>1, <1>2 DEF IdsUnique, DoneCounts, Present
<1>5. DownstreamAlive' /\ DrainedHeld' /\ PostingOpen'
  BY <1>1 DEF DownstreamAlive, DrainedHeld, PostingOpen
<1> QED
  BY <1>1, <1>2, <1>3, <1>4, <1>5

\* A token moves from the channel to the worker that takes it.
LEMMA InvTake ==
  ASSUME IInv, NEW w \in Workers, WorkerTake(w)
  PROVE  IInv'
<1> USE DEF IInv
<1>0. PICK t : t = Head(work)
  OBVIOUS
<1>1. TypeInv'
  BY TypeWorker
<1>10. WorkerRuns(w)
  BY DEF WorkerRuns
<1>2. /\ worker[w] = "idle" /\ work # <<>> /\ work' = Tail(work)
      /\ held' = [held EXCEPT ![w] = t] /\ worker' = [worker EXCEPT ![w] = "busy"]
      /\ UNCHANGED coll
  BY <1>0 DEF WorkerTake
<1>3. /\ 1 \in DOMAIN work /\ work[1] = t
      /\ \A i \in DOMAIN work' : i + 1 \in DOMAIN work /\ i + 1 # 1 /\ work'[i] = work[i + 1]
      /\ \A i, j \in DOMAIN work' : i # j => i + 1 # j + 1
  BY <1>0, <1>2, Types
<1>4. /\ w \notin Busy /\ Busy' = Busy \cup {w}
      /\ held'[w] = t /\ \A v \in Busy : held'[v] = held[v]
  BY <1>2 DEF Busy, TypeInv, TypeOK
<1>5. Returning' = Returning /\ \A i \in Returning : coll'[i] = coll[i]
  BY <1>2 DEF Returning
<1>6. TokensOK'
  <2>1. \A i \in DOMAIN work' : TokenOK(work[i])'
    BY <1>3, <1>1, <1>10, WorkerFrame DEF TokensOK
  <2>2. \A v \in Busy' : TokenOK(held[v])'
    BY <1>3, <1>4, <1>1, <1>10, WorkerFrame DEF TokensOK
  <2>3. \A i \in Returning' : TokenOK(coll[i])'
    BY <1>5, <1>1, <1>10, WorkerFrame DEF TokensOK
  <2> QED
    BY <2>1, <2>2, <2>3 DEF TokensOK
<1>7. TokensUnique'
  <2>1. /\ \A i, j \in DOMAIN work' : i # j => ~Same(work'[i], work'[j])
        /\ \A i \in DOMAIN work' : ~Same(work'[i], t)
        /\ \A i \in DOMAIN work', v \in Busy : ~Same(work'[i], held[v])
        /\ \A i \in DOMAIN work', j \in Returning : ~Same(work'[i], coll[j])
        /\ \A v \in Busy : ~Same(t, held[v]) /\ ~Same(held[v], t)
        /\ \A j \in Returning : ~Same(t, coll[j])
    BY <1>3 DEF TokensUnique, Same
  <2> QED
    BY <1>4, <1>5, <2>1 DEF TokensUnique, Same
<1>8. SlotIntact'
  <2>1. Outstanding' \subseteq Outstanding
    BY <1>3, <1>4 DEF Outstanding, Busy
  <2> QED
    BY <2>1, <1>1, <1>10, WorkerFrame DEF SlotIntact
<1>9. RegisteredAnnounced'
  BY <1>2, <1>1, <1>10, WorkerFrame DEF RegisteredAnnounced, Announced
<1> QED
  BY <1>1, <1>6, <1>7, <1>8, <1>9, <1>10, WorkerFrame

\* A worker gives its token up: it exits or panics, or its result is lost.
LEMMA InvDrop ==
  ASSUME IInv, TypeInv', NEW w \in Workers, WorkerRuns(w) \/ WorkerPanic(w),
         UNCHANGED <<work, coll>>,
         Busy' \subseteq Busy, \A v \in Busy' : held'[v] = held[v]
  PROVE  IInv'
<1> USE DEF IInv
<1>1. Returning' = Returning
  BY DEF Returning
<1>2. TokensOK'
  <2>1. \A i \in DOMAIN work' : TokenOK(work[i])'
    BY WorkerFrame DEF TokensOK
  <2>2. \A v \in Busy' : TokenOK(held[v])'
    BY WorkerFrame DEF TokensOK
  <2>3. \A i \in Returning' : TokenOK(coll[i])'
    BY <1>1, WorkerFrame DEF TokensOK
  <2> QED
    BY <2>1, <2>2, <2>3 DEF TokensOK
<1>3. TokensUnique'
  BY <1>1 DEF TokensUnique, Same
<1>4. SlotIntact'
  <2>1. Outstanding' \subseteq Outstanding
    BY DEF Outstanding, Busy
  <2> QED
    BY <2>1, WorkerFrame DEF SlotIntact
<1>5. RegisteredAnnounced'
  BY WorkerFrame DEF RegisteredAnnounced, Announced
<1> QED
  BY <1>2, <1>3, <1>4, <1>5, WorkerFrame

\* The token of a finished segment moves into the collector channel.
LEMMA InvFinish ==
  ASSUME IInv, NEW w \in Workers, WorkerFinish(w)
  PROVE  IInv'
<1> USE DEF IInv
<1>0. PICK t : t = [kind |-> "result", id |-> held[w].id, chunk |-> held[w].chunk,
                    seg |-> held[w].seg]
  OBVIOUS
<1>1. TypeInv' /\ WorkerRuns(w)
  BY TypeWorker DEF WorkerRuns
<1>2. /\ worker[w] = "busy" /\ UNCHANGED work
      /\ held' = [held EXCEPT ![w] = NoItem] /\ worker' = [worker EXCEPT ![w] = "idle"]
      /\ UNCHANGED coll \/ coll' = Append(coll, t)
  BY <1>0 DEF WorkerFinish
<1>3. /\ w \in Busy /\ Busy' = Busy \ {w} /\ \A v \in Busy' : held'[v] = held[v]
  BY <1>2 DEF Busy, TypeInv, TypeOK
<1>4. CASE UNCHANGED coll
  BY <1>1, <1>2, <1>3, <1>4, InvDrop
<1>5. CASE coll' = Append(coll, t)
  <2>1. /\ DOMAIN coll' = DOMAIN coll \cup {Len(coll) + 1}
        /\ coll'[Len(coll) + 1] = t
        /\ \A i \in DOMAIN coll : coll'[i] = coll[i] /\ i # Len(coll) + 1
    BY <1>5, Types
  <2>2. /\ Returning' = Returning \cup {Len(coll) + 1}
        /\ \A i \in Returning : coll'[i] = coll[i] /\ i # Len(coll) + 1
    BY <1>0, <2>1 DEF Returning
  <2>3. TokenOK(t) /\ Same(t, held[w])
    BY <1>0, <1>3 DEF TokensOK, TokenOK, Unposted, Same
  <2>4. TokensOK'
    <3>1. \A i \in DOMAIN work' : TokenOK(work[i])'
      BY <1>1, <1>2, WorkerFrame DEF TokensOK
    <3>2. \A v \in Busy' : TokenOK(held[v])'
      BY <1>1, <1>3, WorkerFrame DEF TokensOK
    <3>3. \A i \in Returning' : TokenOK(coll[i])'
      BY <1>1, <2>1, <2>2, <2>3, WorkerFrame DEF TokensOK
    <3> QED
      BY <3>1, <3>2, <3>3 DEF TokensOK
  <2>5. TokensUnique'
    <3>1. /\ \A i \in DOMAIN work : ~Same(work[i], t)
          /\ \A v \in Busy' : ~Same(held[v], t)
          /\ \A j \in Returning : ~Same(t, coll[j]) /\ ~Same(coll[j], t)
      BY <1>3, <2>3 DEF TokensUnique, Same
    <3> QED
      BY <1>2, <1>3, <2>1, <2>2, <3>1 DEF TokensUnique, Same
  <2>6. SlotIntact'
    <3>1. Outstanding' \subseteq Outstanding
      BY <1>2, <1>3 DEF Outstanding, Busy
    <3> QED
      BY <1>1, <3>1, WorkerFrame DEF SlotIntact
  <2>7. RegisteredAnnounced'
    <3>1. Announced(t.chunk)
      <4>1. held[w].chunk \in Chunks /\ buf[held[w].chunk] \in {"queued", "inflight"}
        BY <1>2, <1>3, TokenChunks DEF SlotIntact, Outstanding, Busy
      <4> QED
        BY <1>0, <4>1 DEF RegisteredAnnounced
    <3>2. UNCHANGED <<plan, buf, got, main>> /\ Chunks' = Chunks
      BY <1>1, WorkerFrame
    <3>3. \A i \in DOMAIN coll' : coll'[i] = t \/ (i \in DOMAIN coll /\ coll'[i] = coll[i])
      BY <2>1
    <3> QED
      BY <3>1, <3>2, <3>3 DEF RegisteredAnnounced, Announced
  <2> QED
    BY <1>1, <2>4, <2>5, <2>6, <2>7, WorkerFrame
<1> QED
  BY <1>2, <1>4, <1>5

LEMMA InvWorker ==
  ASSUME IInv, NEW w \in Workers, WorkerRuns(w) \/ WorkerPanic(w)
  PROVE  IInv'
<1>1. TypeInv'
  BY TypeWorker DEF IInv, WorkerRuns
<1>2. CASE WorkerExit(w) \/ WorkerPanic(w)
  BY <1>1, <1>2, InvDrop DEF WorkerExit, WorkerPanic, WorkerRuns, Busy, IInv, TypeInv, TypeOK
<1> QED
  BY <1>2, InvTake, InvFinish DEF WorkerRuns

\* Receiving a message shifts the collector channel by one.
LEMMA CollTail ==
  ASSUME IInv, coll # <<>>, coll' = Tail(coll)
  PROVE  /\ 1 \in DOMAIN coll /\ coll[1] = Head(coll)
         /\ \A i \in DOMAIN coll' : i + 1 \in DOMAIN coll /\ coll'[i] = coll[i + 1]
         /\ \A i \in Returning' : /\ i + 1 \in Returning /\ i + 1 # 1
                                  /\ coll'[i] = coll[i + 1]
         /\ \A i, j \in Returning' : i # j => i + 1 # j + 1
<1>1. coll \in Seq(Messages)
  BY Types DEF IInv
<1>2. /\ 1 \in DOMAIN coll /\ coll[1] = Head(coll)
      /\ \A i \in DOMAIN coll' : /\ i + 1 \in DOMAIN coll /\ coll'[i] = coll[i + 1]
                                /\ i \in Nat \ {0}
  BY <1>1
<1> QED
  BY <1>2 DEF Returning

LEMMA UniqueTail ==
  ASSUME IInv, coll # <<>>, coll' = Tail(coll), UNCHANGED <<work, worker, held>>
  PROVE  TokensUnique'
<1>1. TokensUnique /\ Busy' = Busy
  BY DEF IInv, Busy
<1>2. /\ \A i \in Returning' : i + 1 \in Returning /\ coll'[i] = coll[i + 1]
      /\ \A i, j \in Returning' : i # j => i + 1 # j + 1
  BY CollTail
<1>3. \A i, j \in Returning' : i # j => ~Same(coll'[i], coll'[j])
  BY <1>1, <1>2 DEF TokensUnique
<1>4. \A i \in DOMAIN work, j \in Returning' : ~Same(work[i], coll'[j])
  BY <1>1, <1>2 DEF TokensUnique
<1>5. \A w \in Busy, j \in Returning' : ~Same(held[w], coll'[j])
  BY <1>1, <1>2 DEF TokensUnique
<1>6. work' = work /\ held' = held /\ Busy' = Busy
  BY <1>1
<1>7. /\ \A i, j \in DOMAIN work : i # j => ~Same(work[i], work[j])
      /\ \A w, v \in Busy : w # v => ~Same(held[w], held[v])
      /\ \A i \in DOMAIN work, w \in Busy : ~Same(work[i], held[w])
  BY <1>1 DEF TokensUnique
<1> QED
  BY ONLY <1>3, <1>4, <1>5, <1>6, <1>7 DEF TokensUnique, Same

\* Registering a slot.
LEMMA InvNewSlot ==
  ASSUME IInv, CollNewSlot
  PROVE  IInv'
<1> USE DEF IInv
<1>0. PICK c : c = Head(coll).chunk
  OBVIOUS
<1>1. TypeInv'
  BY TypeCollector
<1>2. /\ coll # <<>> /\ coll' = Tail(coll) /\ collector = "recv" /\ collector' = "flush"
      /\ buf' = [buf EXCEPT ![c] = "inflight"]
      /\ UNCHANGED <<plan, got, main, nextSeg, chunkId, id, work, worker, held,
                     results, done, writer>>
  BY <1>0 DEF CollNewSlot, mainVars, workerVars, writerVars
<1>3. Chunks' = Chunks /\ \A d : Segs(d)' = Segs(d)
  BY <1>2, PlanFrame
<1>4. Busy' = Busy /\ Outstanding' = Outstanding
  BY <1>2 DEF Busy, Outstanding
<1>5. c \in Chunks /\ Announced(c)
  BY <1>0, <1>2, CollTail, TokenChunks DEF RegisteredAnnounced
<1>6. \A d \in Chunks : buf'[d] = buf[d] \/ (d = c /\ buf'[d] = "inflight")
  BY <1>2, Types
<1>7. UnpostedEmpty' /\ \A u : TokenOK(u) => TokenOK(u)'
  BY <1>2, <1>3 DEF UnpostedEmpty, TokenOK, Unposted
<1>8. TokensOK'
  <2>1. \A i \in DOMAIN work' : TokenOK(work[i])'
    BY <1>2, <1>7 DEF TokensOK
  <2>2. \A v \in Busy' : TokenOK(held[v])'
    BY <1>2, <1>4, <1>7 DEF TokensOK
  <2>3. \A i \in Returning' : TokenOK(coll[i])'
    BY <1>2, <1>7, CollTail DEF TokensOK
  <2> QED
    BY <2>1, <2>2, <2>3 DEF TokensOK
<1>9. TokensUnique'
  BY <1>2, UniqueTail
<1>10. IdsUnique' /\ DoneCounts'
  BY <1>2, <1>3 DEF IdsUnique, DoneCounts, Present
<1>11. DownstreamAlive' /\ DrainedHeld'
  BY <1>2 DEF DownstreamAlive, DrainedHeld
<1>12. PostingOpen'
  <2>1. main \in {"announce", "post"} => got \in Chunks
    BY Types DEF TypeInv
  <2> QED
    BY <1>2, <1>6, <2>1 DEF PostingOpen
<1>13. RegisteredAnnounced'
  <2>1. \A i \in DOMAIN coll' : Announced(coll'[i].chunk)
    BY <1>2, CollTail DEF RegisteredAnnounced
  <2>2. \A d \in Chunks : buf'[d] \in {"queued", "inflight", "drain"} => Announced(d)
    BY <1>5, <1>6 DEF RegisteredAnnounced
  <2> QED
    BY <1>2, <1>3, <2>1, <2>2 DEF RegisteredAnnounced, Announced
<1>14. SlotIntact'
  BY <1>4, <1>6, OutstandingTokens DEF SlotIntact
<1> QED
  BY <1>1, <1>7, <1>8, <1>9, <1>10, <1>11, <1>12, <1>13, <1>14

\* Storing a result: it lands in the slot of its own chunk, where it was
\* still missing.
LEMMA InvResult ==
  ASSUME IInv, CollResult
  PROVE  IInv'
<1> USE DEF IInv
<1>0. PICK t : t = Head(coll)
  OBVIOUS
<1>1. TypeInv'
  BY TypeCollector
<1>2. /\ coll # <<>> /\ coll' = Tail(coll) /\ collector = "recv" /\ collector' = "flush"
      /\ t.kind = "result"
      /\ UNCHANGED <<plan, got, main, nextSeg, chunkId, id, work, worker, held, buf, writer>>
      /\ \/ UNCHANGED <<results, done>>
         \/ \E c \in InFlightWith(t.id) :
              /\ results' = [results EXCEPT ![c][t.seg] = t.chunk]
              /\ done' = [done EXCEPT ![c] = @ + 1]
  BY <1>0 DEF CollResult, mainVars, workerVars, writerVars
<1>3. Chunks' = Chunks /\ \A d : Segs(d)' = Segs(d)
  BY <1>2, PlanFrame
<1>4. Busy' = Busy /\ Outstanding' = Outstanding
  BY <1>2 DEF Busy, Outstanding
<1>5. 1 \in Returning /\ coll[1] = t
  BY <1>0, <1>2, CollTail DEF Returning
<1>6. TokenOK(t) /\ t.chunk \in Chunks /\ t.seg \in Segs(t.chunk)
  BY <1>5, TokenChunks DEF TokensOK, TokenOK, Returning
<1>7. plan[t.chunk] # <<>>
  <2>1. Announced(t.chunk)
    BY <1>5 DEF RegisteredAnnounced, Returning
  <2> QED
    BY <2>1 DEF Announced
<1>8. \/ UNCHANGED <<results, done>>
      \/ /\ results' = [results EXCEPT ![t.chunk][t.seg] = t.chunk]
         /\ done' = [done EXCEPT ![t.chunk] = @ + 1]
  <2>1. SUFFICES ASSUME NEW c \in InFlightWith(t.id) PROVE c = t.chunk
    BY <1>2
  <2>2. c \in Chunks /\ id[c] = id[t.chunk] /\ c <= got /\ plan[c] # <<>>
    BY <1>6, <2>1 DEF InFlightWith, TokenOK, RegisteredAnnounced, Announced
  <2>3. \A b, d \in Chunks :
          b < d /\ d <= got /\ plan[b] # <<>> /\ plan[d] # <<>> => id[b] < id[d]
    BY DEF IdsUnique
  <2>4. t.chunk <= got /\ t.chunk \in Nat /\ c \in Nat /\ id[c] \in Nat
    BY <1>6, <2>2, Types DEF TokenOK
  <2> QED
    BY <1>6, <1>7, <2>2, <2>3, <2>4
<1>9. results[t.chunk][t.seg] = 0 /\ ~Unposted(t.chunk, t.seg)
  BY <1>6 DEF TokenOK
<1>10. \A c \in Chunks : \A s \in Segs(c) :
         results'[c][s] = results[c][s] \/ (c = t.chunk /\ s = t.seg)
  BY <1>6, <1>8, Types, SMTT(60)
<1>11. UnpostedEmpty'
  <2>1. \A c \in Chunks : \A s \in Segs(c) : Unposted(c, s) => results'[c][s] = 0
    BY <1>9, <1>10 DEF UnpostedEmpty
  <2> QED
    BY <1>2, <1>3, <2>1 DEF UnpostedEmpty, Unposted
<1>12. \A u : TokenOK(u) /\ u.chunk \in Chunks /\ ~Same(u, t) => TokenOK(u)'
  <2>1. SUFFICES ASSUME NEW u, TokenOK(u), u.chunk \in Chunks, ~Same(u, t)
                 PROVE  TokenOK(u)'
    OBVIOUS
  <2>2. results'[u.chunk][u.seg] = 0
    BY <1>10, <2>1 DEF TokenOK, Same
  <2> QED
    BY <1>2, <1>3, <2>1, <2>2 DEF TokenOK, Unposted
<1>13. TokensOK'
  <2>1. \A i \in DOMAIN work' : TokenOK(work[i])'
    BY <1>2, <1>5, <1>12, TokenChunks DEF TokensOK, TokensUnique
  <2>2. \A v \in Busy' : TokenOK(held[v])'
    BY <1>2, <1>4, <1>5, <1>12, TokenChunks DEF TokensOK, TokensUnique
  <2>3. \A i \in Returning' : TokenOK(coll[i])'
    <3>1. \A i \in Returning' : /\ TokenOK(coll'[i]) /\ coll'[i].chunk \in Chunks
                               /\ ~Same(coll'[i], t)
      BY <1>2, <1>5, CollTail, TokenChunks DEF TokensOK, TokensUnique, Returning
    <3> QED
      BY <1>12, <3>1
  <2> QED
    BY <2>1, <2>2, <2>3 DEF TokensOK
<1>14. TokensUnique'
  BY <1>2, UniqueTail
<1>15. DoneCounts'
  <2>1. CASE UNCHANGED <<results, done>>
    BY <1>3, <2>1 DEF DoneCounts, Present
  <2>2. CASE /\ results' = [results EXCEPT ![t.chunk][t.seg] = t.chunk]
             /\ done' = [done EXCEPT ![t.chunk] = @ + 1]
    <3>1. /\ Cardinality(Present(t.chunk)') = Cardinality(Present(t.chunk)) + 1
          /\ \A d \in Chunks \ {t.chunk} : Present(d)' = Present(d)
      BY <1>2, <1>6, <1>9, <2>2, PresentGrows
    <3>2. done'[t.chunk] = done[t.chunk] + 1
          /\ \A d \in Chunks \ {t.chunk} : done'[d] = done[d]
      BY <1>6, <2>2, Types
    <3> QED
      BY <1>3, <1>6, <3>1, <3>2 DEF DoneCounts
  <2> QED
    BY <1>8, <2>1, <2>2
<1>16. IdsUnique'
  BY <1>2, <1>3 DEF IdsUnique
<1>17. DownstreamAlive' /\ DrainedHeld' /\ PostingOpen' /\ SlotIntact'
  BY <1>2, <1>4 DEF DownstreamAlive, DrainedHeld, PostingOpen, SlotIntact
<1>18. RegisteredAnnounced'
  <2>1. \A i \in DOMAIN coll' : Announced(coll'[i].chunk)
    BY <1>2, CollTail DEF RegisteredAnnounced
  <2> QED
    BY <1>2, <1>3, <2>1 DEF RegisteredAnnounced, Announced
<1> QED
  BY <1>1, <1>11, <1>13, <1>14, <1>15, <1>16, <1>17, <1>18

LEMMA InvStutter ==
  ASSUME IInv, UNCHANGED vars
  PROVE  IInv'
<1>1. TypeInv'
  BY TypeUnchanged DEF IInv
<1>2. UNCHANGED <<plan, got, mainVars, work, workerVars, coll, results, done, buf,
                  collector, drained, writer>>
  BY DEF vars, collVars, writerVars
<1>3. DownstreamAlive' /\ DrainedHeld'
  BY <1>2 DEF IInv, DownstreamAlive, DrainedHeld
<1> QED
  BY <1>1, <1>2, <1>3, FrameStep

LEMMA InvInit == Init => IInv
<1> SUFFICES ASSUME Init PROVE IInv
  OBVIOUS
<1>1. TypeInv
  BY InitType
<1>2. Busy = {} /\ Returning = {} /\ Outstanding = {}
  BY DEF Init, Busy, Returning, Outstanding
<1>3. \A c \in Chunks : \A s \in Segs(c) : results[c][s] = 0
  BY DEF Init
<1>4. DoneCounts
  <2>1. \A c \in Chunks : Present(c) = {} /\ done[c] = 0
    BY <1>3 DEF Init, Present
  <2> QED
    BY <2>1, FS_EmptySet DEF DoneCounts
<1>5. IdsUnique /\ RegisteredAnnounced /\ PostingOpen
  BY <1>1, Types DEF Init, IdsUnique, RegisteredAnnounced, PostingOpen
<1>6. TokensOK /\ TokensUnique /\ SlotIntact
  BY <1>2 DEF Init, TokensOK, TokensUnique, SlotIntact
<1> QED
  BY <1>1, <1>3, <1>4, <1>5, <1>6
  DEF Init, IInv, DownstreamAlive, DrainedHeld, UnpostedEmpty

LEMMA InvStep == IInv /\ [Next]_vars /\ collector' # "panicked" => IInv'
<1> SUFFICES ASSUME IInv, [Next]_vars, collector' # "panicked" PROVE IInv'
  OBVIOUS
<1>1. CASE ReaderTake \/ ReaderSend
  BY <1>1, InvReader
<1>2. CASE MainNext
  BY <1>2, InvAcceptReject, InvAnnounce, InvPost, InvMove DEF MainNext
<1>3. CASE \E w \in Workers : WorkerRuns(w) \/ WorkerPanic(w)
  BY <1>3, InvWorker
<1>4. CASE CollNext
  BY <1>4, InvNewSlot, InvResult, InvFlush, CollPanicIsLast DEF CollNext
<1>5. CASE WriterWrite \/ WriterExit \/ WriterPanic
  BY <1>5, InvWriter
<1>6. CASE Ended \/ UNCHANGED vars
  BY <1>6, InvStutter DEF Ended
<1> QED
  BY <1>1, <1>2, <1>3, <1>4, <1>5, <1>6 DEF Next

LEMMA InvUntilUnwound == SafeSpec => []InvKept
<1>1. Init => InvKept
  BY InvInit DEF InvKept
<1>2. InvKept /\ [Next]_vars => InvKept'
  BY InvStep, CollPanicIsLast DEF InvKept
<1> QED
  BY <1>1, <1>2, PTL DEF SafeSpec

\* A writer that fails is the only reason for the collector to panic.
NoWriteFault == "write" \notin Faults

Healthy == /\ writer # "panicked" /\ collector # "panicked"
           /\ writer = "exited" => collector = "exited"
LEMMA StaysHealthy == NoWriteFault => (SafeSpec => []Healthy)
<1> SUFFICES ASSUME NoWriteFault PROVE SafeSpec => []Healthy
  OBVIOUS
<1>1. Init => Healthy
  BY DEF Init, Healthy
<1>2. Healthy /\ [Next]_vars => Healthy'
  BY DEF Healthy, NoWriteFault, WriterGone, CollGone, Next, MainNext, CollNext, ReaderTake, ReaderSend,
     MainAccept, MainReject, MainAnnounce, MainPost, MainPosted, MainPanic, MainJoin, WorkerRuns,
     WorkerTake, WorkerFinish, WorkerExit, WorkerPanic, CollNewSlot, CollResult, CollHangup,
     FlushStart, FlushEnd, FlushSkip, FlushSend, FlushRecycle, CollPanic, WriterWrite, WriterExit,
     WriterPanic, Ended, vars, collVars, writerVars
<1> QED
  BY <1>1, <1>2, PTL DEF SafeSpec

\* The argument as a whole: where the tokens, the slots and the results are, in
\* every state up to the one in which a failed write unwinds the collector, so
\* in every reachable state if the writer does not fail.
THEOREM InvariantHolds ==
  /\ SafeSpec => []InvKept
  /\ NoWriteFault => (SafeSpec => []IInv)
<1>1. SafeSpec => []InvKept
  BY InvUntilUnwound
<1>2. ASSUME NoWriteFault PROVE SafeSpec => []IInv
  <2>1. Healthy /\ InvKept => IInv
    BY DEF Healthy, InvKept
  <2>2. SafeSpec => []Healthy
    BY <1>2, StaysHealthy
  <2> QED
    BY <2>1, <2>2, <1>1, PTL
<1> QED
  BY <1>1, <1>2

\* Every item a worker decodes or may still take points into a slot that is
\* alive and not yet recycled, until the collector is unwound: the safety
\* comment of WorkItem, for any number of workers, any capacities, any
\* input, and even when workers and the writer panic.  With a writer that
\* does not fail nothing unwinds the collector.
THEOREM SlotNeverRecycledEarly ==
  /\ SafeSpec => []SlotKept
  /\ NoWriteFault => (SafeSpec => []SlotIntact)
<1>1. IInv => SlotIntact
  BY DEF IInv
<1>2. SafeSpec => []SlotKept
  <2>1. InvKept => SlotKept
    BY <1>1 DEF InvKept, SlotKept
  <2> QED
    BY <2>1, InvUntilUnwound, PTL
<1>3. ASSUME NoWriteFault PROVE SafeSpec => []SlotIntact
  <2>1. SafeSpec => []IInv
    BY <1>3, InvariantHolds
  <2> QED
    BY <1>1, <2>1, PTL
<1> QED
  BY <1>2, <1>3

-----------------------------------------------------------------------------
(* Part 3: the flow of slots and results.                                  *)

\* Chunks behind the reader, with the reader and before main.
Unread(c) == c > sent + 1 \/ (c = sent + 1 /\ reader # "read")
Stages ==
  /\ \A c \in Chunks : Unread(c) => buf[c] = "none"
  /\ reader = "read" => buf[sent + 1] = "read"
  /\ \A c \in Chunks : got < c /\ c <= sent => buf[c] = "filled"
  /\ main = "announce" => buf[got] = "split"

\* A slot is queued exactly while its message is in the channel, which holds
\* one for each, in front of the results of its chunk.
SlotAt(q, j, c) == q[j].kind = "slot" /\ q[j].chunk = c
QueueOrdered ==
  /\ \A j \in DOMAIN coll : coll[j].kind = "slot" => buf[coll[j].chunk] = "queued"
  /\ \A i, j \in DOMAIN coll : \A c : SlotAt(coll, i, c) /\ SlotAt(coll, j, c) => i = j
  /\ \A c \in Chunks : buf[c] = "queued" => \E j \in DOMAIN coll : SlotAt(coll, j, c)
  /\ \A i \in DOMAIN coll :
       coll[i].kind = "result" /\ buf[coll[i].chunk] = "queued" =>
         \E j \in 1 .. i - 1 : SlotAt(coll, j, coll[i].chunk)

\* A result on its way back finds its slot, once the slot is registered.
ResultsAwaited == \A i \in Returning : buf[coll[i].chunk] \in {"queued", "inflight"}

FlowInv == IInv /\ Stages /\ QueueOrdered /\ ResultsAwaited /\ SlotsConserved

-----------------------------------------------------------------------------
(* What leaves the parts alone                                             *)

LEMMA StagesFrame ==
  ASSUME IInv, Stages, UNCHANGED <<plan, got, reader, sent>>,
         main' = "announce" => main = "announce",
         \A c \in Chunks : buf'[c] # buf[c] => buf[c] \in {"queued", "inflight", "drain"}
  PROVE  Stages'
<1>1. Chunks' = Chunks /\ \A c : Unread(c)' <=> Unread(c)
  BY PlanFrame DEF Unread
<1>2. got \in Nat /\ sent \in Nat /\ Last \in Nat /\ Chunks = 1 .. Last /\ got <= Last
  BY Types DEF IInv
<1>3. reader = "read" => sent + 1 \in Chunks
  BY <1>2 DEF IInv, TypeInv
<1>4. main = "announce" => got \in Chunks
  BY <1>2 DEF IInv, TypeInv
<1> QED
  BY <1>1, <1>3, <1>4 DEF Stages

LEMMA QueueFrame ==
  ASSUME IInv, QueueOrdered, UNCHANGED <<plan, coll>>,
         \A c \in Chunks : buf'[c] = "queued" <=> buf[c] = "queued"
  PROVE  QueueOrdered'
<1>1. Chunks' = Chunks /\ \A j, c : SlotAt(coll', j, c) <=> SlotAt(coll, j, c)
  BY PlanFrame DEF SlotAt
<1>2. \A i \in DOMAIN coll : coll[i].chunk \in Chunks
  BY TokenChunks
<1> QED
  BY <1>1, <1>2 DEF QueueOrdered, SlotAt

LEMMA AwaitedFrame ==
  ASSUME IInv, ResultsAwaited, coll' = coll,
         \A c \in Chunks : buf[c] \in {"queued", "inflight"} => buf'[c] \in {"queued", "inflight"}
  PROVE  ResultsAwaited'
  BY TokenChunks DEF ResultsAwaited, Returning

\* Chunks that hold a slot.
Holding == {c \in Chunks : buf[c] \notin {"none", "recycled"}}

LEMMA HoldingFinite ==
  ASSUME IInv
  PROVE  IsFiniteSet(Holding) /\ Cardinality(Holding) \in Nat
<1>1. Last \in Nat /\ Chunks = 1 .. Last
  BY Types DEF IInv
<1>2. 1 \in Int /\ Last \in Int
  BY <1>1
<1>3. IsFiniteSet(Chunks)
  BY <1>1, <1>2, FS_Interval
<1> QED
  BY <1>3, FS_Subset, FS_CardinalityType DEF Holding

LEMMA ConservedFrame ==
  ASSUME IInv, SlotsConserved, plan' = plan, free' = free, reader' # "done" => reader # "done",
         \A c \in Chunks : buf'[c] \in {"none", "recycled"} <=> buf[c] \in {"none", "recycled"}
  PROVE  SlotsConserved'
<1>1. Holding' = Holding
  BY PlanFrame DEF Holding
<1>2. collector # "panicked"
  BY DEF IInv, DownstreamAlive
<1> QED
  BY <1>1, <1>2 DEF SlotsConserved, Holding

\* A slot handed back.
LEMMA ConservedReturn ==
  ASSUME IInv, SlotsConserved, plan' = plan, UNCHANGED reader, ReturnSlot, NEW c \in Chunks,
         buf[c] \notin {"none", "recycled"}, buf' = [buf EXCEPT ![c] = "recycled"]
  PROVE  SlotsConserved'
<1>1. DOMAIN buf = Chunks
  BY Types DEF IInv
<1>2. Holding' = Holding \ {c} /\ c \in Holding
  BY <1>1, PlanFrame DEF Holding
<1>3. Cardinality(Holding') = Cardinality(Holding) - 1
  BY <1>2, HoldingFinite, FS_RemoveElement
<1>4. CASE reader = "done"
  BY <1>4 DEF SlotsConserved
<1>5. CASE reader # "done"
  <2>1. free' = free + 1
    BY <1>5 DEF ReturnSlot
  <2>2. free + Cardinality(Holding) = RingSlots
    BY <1>5 DEF SlotsConserved, Holding, IInv, DownstreamAlive
  <2>3. free \in Nat /\ Cardinality(Holding) \in Nat
    BY HoldingFinite, CapacityAssumption DEF IInv, TypeInv, TypeOK
  <2>4. free' + Cardinality(Holding') = RingSlots
    BY <1>3, <2>1, <2>2, <2>3
  <2> QED
    BY <2>4 DEF SlotsConserved, Holding
<1> QED
  BY <1>4, <1>5

-----------------------------------------------------------------------------
(* The actions                                                             *)

LEMMA FlowInit == Init => Stages /\ QueueOrdered /\ ResultsAwaited /\ SlotsConserved
<1> SUFFICES ASSUME Init PROVE Stages /\ QueueOrdered /\ ResultsAwaited /\ SlotsConserved
  OBVIOUS
<1>1. IInv
  BY InvInit
<1>2. Stages
  BY <1>1, Types DEF Init, Stages, Unread, IInv
<1>3. QueueOrdered /\ ResultsAwaited
  BY DEF Init, QueueOrdered, SlotAt, ResultsAwaited, Returning
<1>4. {c \in Chunks : buf[c] \notin {"none", "recycled"}} = {}
  BY DEF Init
<1>5. free + Cardinality({}) = RingSlots
  BY FS_EmptySet, CapacityAssumption DEF Init
<1> QED
  BY <1>2, <1>3, <1>4, <1>5 DEF SlotsConserved

LEMMA FlowTake ==
  ASSUME FlowInv, ReaderTake
  PROVE  Stages' /\ QueueOrdered' /\ ResultsAwaited' /\ SlotsConserved'
<1> USE DEF FlowInv
<1>1. /\ sent \in Nat /\ got \in Nat /\ got <= sent /\ Last \in Nat /\ Chunks = 1 .. Last
      /\ DOMAIN buf = Chunks /\ sent + 1 \in Chunks
  <2>1. reader # "done" => sent < Last
    BY DEF IInv, TypeInv
  <2> QED
    BY <2>1, Types DEF IInv, ReaderTake
<1>2. /\ reader = "recv" /\ reader' = "read" /\ UNCHANGED <<plan, sent, got, main, coll, collector>>
      /\ buf' = [buf EXCEPT ![sent + 1] = "read"] /\ free' = free - 1 /\ free > 0
  BY DEF ReaderTake, mainVars, collVars
<1>3. buf[sent + 1] = "none"
  BY <1>1, <1>2 DEF Stages, Unread
<1>4. Stages'
  <2>1. Chunks' = Chunks
    BY <1>2, PlanFrame
  <2>2. main = "announce" => got \in Chunks /\ got # sent + 1
    BY <1>1 DEF IInv, TypeInv
  <2> QED
    BY <1>1, <1>2, <2>1, <2>2 DEF Stages, Unread
<1>5. QueueOrdered' /\ ResultsAwaited'
  BY <1>1, <1>2, <1>3, QueueFrame, AwaitedFrame
<1>6. SlotsConserved'
  <2>1. Holding' = Holding \cup {sent + 1} /\ sent + 1 \notin Holding
    BY <1>1, <1>2, <1>3, PlanFrame DEF Holding
  <2>2. Cardinality(Holding') = Cardinality(Holding) + 1
    BY <2>1, HoldingFinite, FS_AddElement
  <2>3. free + Cardinality(Holding) = RingSlots
    BY <1>2 DEF SlotsConserved, Holding, IInv, DownstreamAlive
  <2>4. free \in Nat /\ Cardinality(Holding) \in Nat
    BY HoldingFinite, CapacityAssumption DEF IInv, TypeInv, TypeOK
  <2>5. free' + Cardinality(Holding') = RingSlots
    BY <1>2, <2>2, <2>3, <2>4
  <2> QED
    BY <2>5 DEF SlotsConserved, Holding
<1> QED
  BY <1>4, <1>5, <1>6

LEMMA FlowFilled ==
  ASSUME FlowInv, ReaderSend
  PROVE  Stages' /\ QueueOrdered' /\ ResultsAwaited' /\ SlotsConserved'
<1> USE DEF FlowInv
<1>1. /\ sent \in Nat /\ got \in Nat /\ got <= sent /\ Last \in Nat /\ Chunks = 1 .. Last
      /\ DOMAIN buf = Chunks /\ sent + 1 \in Chunks
  <2>1. reader # "done" => sent < Last
    BY DEF IInv, TypeInv
  <2> QED
    BY <2>1, Types DEF IInv, ReaderSend
<1>2. /\ reader = "read" /\ reader' \in {"recv", "done"} /\ sent' = sent + 1
      /\ UNCHANGED <<plan, got, main, coll, collector>>
      /\ buf' = [buf EXCEPT ![sent + 1] = "filled"]
      /\ reader' = "recv" => free' = free
  BY DEF ReaderSend, mainVars, collVars
<1>3. buf[sent + 1] = "read"
  BY <1>2 DEF Stages
<1>4. Stages'
  <2>1. Chunks' = Chunks
    BY <1>2, PlanFrame
  <2>2. main = "announce" => got \in Chunks /\ got # sent + 1
    BY <1>1 DEF IInv, TypeInv
  <2> QED
    BY <1>1, <1>2, <2>1, <2>2 DEF Stages, Unread
<1>5. QueueOrdered' /\ ResultsAwaited'
  BY <1>1, <1>2, <1>3, QueueFrame, AwaitedFrame
<1>6. CASE reader' = "done"
  BY <1>4, <1>5, <1>6 DEF SlotsConserved
<1>7. CASE reader' = "recv"
  <2>1. SlotsConserved'
    BY <1>1, <1>2, <1>3, <1>7, ConservedFrame
  <2> QED
    BY <1>4, <1>5, <2>1
<1> QED
  BY <1>2, <1>6, <1>7

LEMMA FlowReceive ==
  ASSUME FlowInv, MainAccept \/ MainReject
  PROVE  Stages' /\ QueueOrdered' /\ ResultsAwaited' /\ SlotsConserved'
<1> USE DEF FlowInv
<1>1. /\ sent \in Nat /\ got \in Nat /\ Last \in Nat /\ Chunks = 1 .. Last /\ sent <= Last
      /\ DOMAIN buf = Chunks /\ got < sent /\ got + 1 \in Chunks
  <2>1. sent \in 0 .. Last
    BY DEF IInv, TypeInv, TypeOK
  <2> QED
    BY <2>1, Types DEF IInv, MainAccept, MainReject
<1>2. /\ UNCHANGED <<plan, reader, sent, coll, collector>> /\ main = "recv" /\ got' = got + 1
  BY DEF MainAccept, MainReject, readerVars, collVars
<1>3. buf[got + 1] = "filled"
  BY <1>1 DEF Stages
<1>4. PICK v \in {"split", "recycled"} :
        buf' = [buf EXCEPT ![got + 1] = v] /\ (main' = "announce" => v = "split")
  BY DEF MainAccept, MainReject
<1>5. Stages'
  <2>1. Chunks' = Chunks
    BY <1>2, PlanFrame
  <2>2. reader = "read" => sent + 1 \in Chunks
    BY <1>1 DEF IInv, TypeInv
  <2> QED
    BY <1>1, <1>2, <1>4, <2>1, <2>2 DEF Stages, Unread
<1>6. QueueOrdered' /\ ResultsAwaited'
  BY <1>1, <1>2, <1>3, <1>4, QueueFrame, AwaitedFrame
<1>7. CASE MainAccept
  <2>1. free' = free /\ buf' = [buf EXCEPT ![got + 1] = "split"]
    BY <1>7 DEF MainAccept
  <2>2. SlotsConserved'
    BY <1>1, <1>2, <1>3, <2>1, ConservedFrame
  <2> QED
    BY <1>5, <1>6, <2>2
<1>8. CASE MainReject
  <2>1. ReturnSlot /\ buf' = [buf EXCEPT ![got + 1] = "recycled"]
    BY <1>8 DEF MainReject
  <2>2. SlotsConserved'
    BY <1>1, <1>2, <1>3, <2>1, ConservedReturn
  <2> QED
    BY <1>5, <1>6, <2>2
<1> QED
  BY <1>7, <1>8

\* What is appended to the channel goes behind what is there.
LEMMA CollAppend ==
  ASSUME IInv, NEW m, coll' = Append(coll, m)
  PROVE  /\ Len(coll) \in Nat /\ DOMAIN coll = 1 .. Len(coll) /\ DOMAIN coll' = 1 .. Len(coll) + 1
         /\ \A i \in DOMAIN coll : coll'[i] = coll[i]
         /\ coll'[Len(coll) + 1] = m
<1>1. coll \in Seq(Messages)
  BY DEF IInv, TypeInv, TypeOK
<1> QED
  BY <1>1

LEMMA FlowAnnounce ==
  ASSUME FlowInv, MainAnnounce
  PROVE  Stages' /\ QueueOrdered' /\ ResultsAwaited' /\ SlotsConserved'
<1> USE DEF FlowInv
<1> DEFINE m == [kind |-> "slot", id |-> id[got], chunk |-> got, seg |-> 0]
<1>1. /\ main = "announce" /\ main' = "post" /\ UNCHANGED <<plan, free, got, reader, sent>>
      /\ coll' = Append(coll, m) /\ buf' = [buf EXCEPT ![got] = "queued"]
  BY DEF MainAnnounce, readerVars
<1>2. /\ sent \in Nat /\ got \in Nat /\ got <= sent /\ Last \in Nat /\ Chunks = 1 .. Last
      /\ DOMAIN buf = Chunks /\ got \in Chunks /\ buf[got] = "split"
  BY <1>1, Types DEF IInv, TypeInv, Stages
<1>3. Chunks' = Chunks
  BY <1>1, PlanFrame
<1>4. Stages'
  <2>1. reader = "read" => sent + 1 \in Chunks
    BY <1>2 DEF IInv, TypeInv
  <2> QED
    BY <1>1, <1>2, <1>3, <2>1 DEF Stages, Unread
<1>5. /\ Len(coll) \in Nat /\ DOMAIN coll = 1 .. Len(coll) /\ DOMAIN coll' = 1 .. Len(coll) + 1
      /\ \A i \in DOMAIN coll : coll'[i] = coll[i]
      /\ coll'[Len(coll) + 1].kind = "slot" /\ coll'[Len(coll) + 1].chunk = got
  BY <1>1, CollAppend
<1>6. \A i \in DOMAIN coll : coll[i].chunk \in Chunks
  BY TokenChunks
<1>7. \A i \in DOMAIN coll : ~SlotAt(coll, i, got)
  BY <1>2 DEF QueueOrdered, SlotAt
<1>8. /\ \A i \in DOMAIN coll : \A c : SlotAt(coll', i, c) <=> SlotAt(coll, i, c)
      /\ \A c : SlotAt(coll', Len(coll) + 1, c) <=> c = got
  BY <1>5 DEF SlotAt
<1>9. \A j \in DOMAIN coll' : coll'[j].kind = "slot" => buf'[coll'[j].chunk] = "queued"
  BY <1>1, <1>2, <1>5, <1>6 DEF QueueOrdered, SlotAt
<1>10. \A i, j \in DOMAIN coll' : \A c : SlotAt(coll', i, c) /\ SlotAt(coll', j, c) => i = j
  BY <1>5, <1>7, <1>8 DEF QueueOrdered, SlotAt
<1>11. \A c \in Chunks : buf'[c] = "queued" => \E j \in DOMAIN coll' : SlotAt(coll', j, c)
  BY <1>1, <1>2, <1>5, <1>8 DEF QueueOrdered, SlotAt
<1>12. ASSUME NEW i \in DOMAIN coll', coll'[i].kind = "result", buf'[coll'[i].chunk] = "queued"
       PROVE  \E j \in 1 .. i - 1 : SlotAt(coll', j, coll'[i].chunk)
  <2>1. i \in DOMAIN coll /\ coll'[i] = coll[i]
    BY <1>5, <1>12
  <2>2. coll[i].chunk # got
    BY <1>2, <1>12, <2>1 DEF ResultsAwaited, Returning
  <2>3. buf[coll[i].chunk] = "queued"
    BY <1>1, <1>2, <1>6, <1>12, <2>1, <2>2
  <2>4. PICK j \in 1 .. i - 1 : SlotAt(coll, j, coll[i].chunk)
    BY <1>12, <2>1, <2>3 DEF QueueOrdered, SlotAt
  <2>5. j \in DOMAIN coll
    BY <1>5, <2>1
  <2> QED
    BY <1>8, <2>1, <2>4, <2>5
<1>13. QueueOrdered'
  BY <1>3, <1>9, <1>10, <1>11, <1>12 DEF QueueOrdered, SlotAt
<1>14. SlotsConserved'
  BY <1>1, <1>2, ConservedFrame
<1>15. ResultsAwaited'
  <2>1. \A i \in DOMAIN coll' : coll'[i].kind = "result" => i \in DOMAIN coll /\ coll'[i] = coll[i]
    BY <1>5
  <2> QED
    BY <1>1, <1>2, <1>6, <2>1 DEF ResultsAwaited, Returning
<1> QED
  BY <1>4, <1>13, <1>14, <1>15

LEMMA FlowFinish ==
  ASSUME FlowInv, NEW w \in Workers, WorkerFinish(w)
  PROVE  Stages' /\ QueueOrdered' /\ ResultsAwaited' /\ SlotsConserved'
<1> USE DEF FlowInv
<1> DEFINE m == [kind |-> "result", id |-> held[w].id, chunk |-> held[w].chunk, seg |-> held[w].seg]
<1>1. UNCHANGED <<plan, free, buf, got, reader, sent, main>> /\ worker[w] = "busy"
  BY DEF WorkerFinish, readerVars, mainVars
<1>2. Stages' /\ SlotsConserved'
  BY <1>1, StagesFrame, ConservedFrame
<1>3. CASE coll' = coll
  BY <1>1, <1>2, <1>3, QueueFrame, AwaitedFrame
<1>4. CASE coll' = Append(coll, m)
  <2>1. /\ Len(coll) \in Nat /\ DOMAIN coll = 1 .. Len(coll) /\ DOMAIN coll' = 1 .. Len(coll) + 1
        /\ \A i \in DOMAIN coll : coll'[i] = coll[i]
        /\ coll'[Len(coll) + 1].kind = "result" /\ coll'[Len(coll) + 1].chunk = held[w].chunk
    BY <1>4, CollAppend
  <2>2. Chunks' = Chunks
    BY <1>1, PlanFrame
  <2>3. /\ \A i \in DOMAIN coll : \A c : SlotAt(coll', i, c) <=> SlotAt(coll, i, c)
        /\ \A c : ~SlotAt(coll', Len(coll) + 1, c)
    BY <2>1 DEF SlotAt
  <2>4. held[w].chunk \in Chunks
    BY <1>1, TokenChunks DEF Busy
  <2>5. \A j \in DOMAIN coll' : coll'[j].kind = "slot" => buf'[coll'[j].chunk] = "queued"
    BY <1>1, <2>1 DEF QueueOrdered, SlotAt
  <2>6. \A i, j \in DOMAIN coll' : \A c : SlotAt(coll', i, c) /\ SlotAt(coll', j, c) => i = j
    BY <2>1, <2>3 DEF QueueOrdered, SlotAt
  <2>7. \A c \in Chunks : buf'[c] = "queued" => \E j \in DOMAIN coll' : SlotAt(coll', j, c)
    BY <1>1, <2>1, <2>3 DEF QueueOrdered, SlotAt
  <2>8. ASSUME NEW i \in DOMAIN coll', coll'[i].kind = "result", buf'[coll'[i].chunk] = "queued"
        PROVE  \E j \in 1 .. i - 1 : SlotAt(coll', j, coll'[i].chunk)
    <3>1. CASE i \in DOMAIN coll
      <4>1. PICK j \in 1 .. i - 1 : SlotAt(coll, j, coll[i].chunk)
        BY <1>1, <2>1, <2>8, <3>1 DEF QueueOrdered, SlotAt
      <4>2. j \in DOMAIN coll
        BY <2>1, <3>1
      <4> QED
        BY <2>1, <2>3, <3>1, <4>1, <4>2
    <3>2. CASE i = Len(coll) + 1
      <4>1. PICK j \in DOMAIN coll : SlotAt(coll, j, held[w].chunk)
        BY <1>1, <2>1, <2>4, <2>8, <3>2 DEF QueueOrdered, SlotAt
      <4>2. j \in 1 .. i - 1
        BY <2>1, <3>2
      <4> QED
        BY <2>1, <2>3, <3>2, <4>1, <4>2
    <3> QED
      BY <2>1, <3>1, <3>2
  <2>9. QueueOrdered'
    BY <2>2, <2>5, <2>6, <2>7, <2>8 DEF QueueOrdered, SlotAt
  <2>10. ResultsAwaited'
    <3>1. buf[held[w].chunk] \in {"queued", "inflight"}
      BY <1>1, OutstandingTokens DEF Outstanding, Busy
    <3> QED
      BY <1>1, <2>1, <3>1 DEF ResultsAwaited, Returning
  <2> QED
    BY <1>2, <2>9, <2>10
<1> QED
  BY <1>3, <1>4 DEF WorkerFinish

LEMMA FlowWorker ==
  ASSUME FlowInv, NEW w \in Workers, WorkerRuns(w) \/ WorkerPanic(w)
  PROVE  Stages' /\ QueueOrdered' /\ ResultsAwaited' /\ SlotsConserved'
<1>1. CASE WorkerFinish(w)
  BY <1>1, FlowFinish
<1>2. CASE WorkerTake(w) \/ WorkerExit(w) \/ WorkerPanic(w)
  <2>1. UNCHANGED <<plan, free, buf, got, reader, sent, main, coll>>
    BY <1>2 DEF WorkerTake, WorkerExit, WorkerPanic, readerVars, mainVars
  <2> QED
    BY <2>1, StagesFrame, QueueFrame, AwaitedFrame, ConservedFrame DEF FlowInv
<1> QED
  BY <1>1, <1>2 DEF WorkerRuns

\* The message of the channel that is taken is the first.
LEMMA QueueTail ==
  ASSUME FlowInv, coll # <<>>, coll' = Tail(coll), plan' = plan,
         coll[1].kind = "slot" => buf' = [buf EXCEPT ![coll[1].chunk] = "inflight"],
         coll[1].kind = "result" => buf' = buf
  PROVE  QueueOrdered' /\ ResultsAwaited'
<1> USE DEF FlowInv
<1>1. /\ Len(coll) \in Nat \ {0} /\ DOMAIN coll = 1 .. Len(coll) /\ DOMAIN coll' = 1 .. Len(coll) - 1
      /\ \A i \in DOMAIN coll' : coll'[i] = coll[i + 1]
  <2>1. coll \in Seq(Messages)
    BY DEF IInv, TypeInv, TypeOK
  <2> QED
    BY <2>1
<1>2. Chunks' = Chunks /\ DOMAIN buf = Chunks
  BY PlanFrame, Types DEF IInv
<1>3. \A i \in DOMAIN coll : coll[i].chunk \in Chunks /\ coll[i].kind \in {"slot", "result"}
  BY TokenChunks DEF Messages
<1>4. \A j \in DOMAIN coll' : \A c : SlotAt(coll', j, c) <=> SlotAt(coll, j + 1, c)
  BY <1>1 DEF SlotAt
<1>5. \A c \in Chunks : buf'[c] = "queued" <=> buf[c] = "queued" /\ ~SlotAt(coll, 1, c)
  <2>1. coll[1].kind \in {"slot", "result"} /\ coll[1].chunk \in Chunks
    BY <1>1, <1>3
  <2>2. CASE coll[1].kind = "slot"
    BY <1>2, <2>1, <2>2 DEF SlotAt
  <2>3. CASE coll[1].kind = "result"
    BY <2>3 DEF SlotAt
  <2> QED
    BY <2>1, <2>2, <2>3
<1>6. \A j \in DOMAIN coll' : j + 1 \in DOMAIN coll /\ j + 1 # 1
  BY <1>1
<1>7. ASSUME NEW j \in DOMAIN coll', coll'[j].kind = "slot"
      PROVE  buf'[coll'[j].chunk] = "queued"
  <2>1. SlotAt(coll, j + 1, coll[j + 1].chunk) /\ coll'[j] = coll[j + 1]
    BY <1>1, <1>7 DEF SlotAt
  <2>2. ~SlotAt(coll, 1, coll[j + 1].chunk) /\ buf[coll[j + 1].chunk] = "queued"
    BY <1>1, <1>6, <2>1 DEF QueueOrdered, SlotAt
  <2> QED
    BY <1>3, <1>5, <1>6, <2>1, <2>2
<1>8. ASSUME NEW i \in DOMAIN coll', NEW j \in DOMAIN coll', NEW c, SlotAt(coll', i, c), SlotAt(coll', j, c)
      PROVE  i = j
  <2>1. i + 1 = j + 1
    BY <1>4, <1>6, <1>8 DEF QueueOrdered, SlotAt
  <2> QED
    BY <1>1, <2>1
<1>9. ASSUME NEW c \in Chunks, buf'[c] = "queued", NEW k \in DOMAIN coll, SlotAt(coll, k, c)
      PROVE  k - 1 \in DOMAIN coll' /\ SlotAt(coll', k - 1, c)
  <2>1. k # 1
    BY <1>5, <1>9
  <2>2. k - 1 \in DOMAIN coll' /\ (k - 1) + 1 = k
    BY <1>1, <2>1
  <2> QED
    BY <1>4, <1>9, <2>2
<1>10. \A c \in Chunks : buf'[c] = "queued" => \E j \in DOMAIN coll' : SlotAt(coll', j, c)
  BY <1>5, <1>9 DEF QueueOrdered, SlotAt
<1>11. ASSUME NEW i \in DOMAIN coll', coll'[i].kind = "result", buf'[coll'[i].chunk] = "queued"
       PROVE  \E j \in 1 .. i - 1 : SlotAt(coll', j, coll'[i].chunk)
  <2>1. coll'[i] = coll[i + 1] /\ i + 1 \in DOMAIN coll /\ coll[i + 1].chunk \in Chunks
    BY <1>1, <1>3, <1>6
  <2>2. PICK k \in 1 .. (i + 1) - 1 : SlotAt(coll, k, coll[i + 1].chunk)
    BY <1>5, <1>11, <2>1 DEF QueueOrdered, SlotAt
  <2>3. k \in DOMAIN coll
    BY <1>1, <2>1
  <2>4. k - 1 \in DOMAIN coll' /\ SlotAt(coll', k - 1, coll'[i].chunk)
    BY <1>9, <1>11, <2>1, <2>2, <2>3
  <2>5. k - 1 \in 1 .. i - 1
    BY <1>1, <2>2, <2>4
  <2> QED
    BY <2>4, <2>5
<1>12. QueueOrdered'
  BY <1>2, <1>7, <1>8, <1>10, <1>11 DEF QueueOrdered, SlotAt
<1>13. ResultsAwaited'
  <2>1. \A c \in Chunks : buf[c] \in {"queued", "inflight"} => buf'[c] \in {"queued", "inflight"}
    BY <1>1, <1>2, <1>3
  <2> QED
    BY <1>1, <1>3, <1>6, <2>1 DEF ResultsAwaited, Returning
<1> QED
  BY <1>12, <1>13

LEMMA FlowMessage ==
  ASSUME FlowInv, CollNewSlot \/ CollResult
  PROVE  Stages' /\ QueueOrdered' /\ ResultsAwaited' /\ SlotsConserved'
<1> USE DEF FlowInv
<1>1. /\ UNCHANGED <<plan, free, got, reader, sent, main>> /\ coll # <<>> /\ coll' = Tail(coll)
      /\ coll[1] = Head(coll)
  BY DEF CollNewSlot, CollResult, readerVars, mainVars
<1>2. 1 \in DOMAIN coll /\ coll[1].chunk \in Chunks /\ DOMAIN buf = Chunks
  <2>1. coll \in Seq(Messages)
    BY DEF IInv, TypeInv, TypeOK
  <2>2. 1 \in DOMAIN coll
    BY <1>1, <2>1
  <2> QED
    BY <2>2, TokenChunks, Types DEF IInv
<1>3. CASE CollNewSlot
  <2>1. coll[1].kind = "slot" /\ buf' = [buf EXCEPT ![coll[1].chunk] = "inflight"]
    BY <1>1, <1>3 DEF CollNewSlot
  <2>2. buf[coll[1].chunk] = "queued"
    BY <1>2, <2>1 DEF QueueOrdered, SlotAt
  <2>3. QueueOrdered' /\ ResultsAwaited'
    BY <1>1, <2>1, QueueTail
  <2>4. \A c \in Chunks : buf'[c] # buf[c] => c = coll[1].chunk /\ buf'[c] = "inflight"
    BY <1>2, <2>1
  <2>5. Stages' /\ SlotsConserved'
    BY <1>1, <2>2, <2>4, StagesFrame, ConservedFrame
  <2> QED
    BY <2>3, <2>5
<1>4. CASE CollResult
  <2>1. coll[1].kind = "result" /\ buf' = buf
    BY <1>1, <1>4 DEF CollResult
  <2>2. QueueOrdered' /\ ResultsAwaited'
    BY <1>1, <2>1, QueueTail
  <2>3. Stages' /\ SlotsConserved'
    BY <1>1, <2>1, StagesFrame, ConservedFrame
  <2> QED
    BY <2>2, <2>3
<1> QED
  BY <1>3, <1>4

LEMMA FlowFlush ==
  ASSUME FlowInv, FlushStart \/ FlushRecycle
  PROVE  Stages' /\ QueueOrdered' /\ ResultsAwaited' /\ SlotsConserved'
<1> USE DEF FlowInv
<1>1. UNCHANGED <<plan, got, reader, sent, main, coll>> /\ DOMAIN buf = Chunks
  BY Types DEF FlushStart, FlushRecycle, readerVars, mainVars, IInv
<1>2. CASE FlushStart
  <2>1. PICK c \in Chunks : /\ buf[c] = "inflight" /\ done[c] >= Len(plan[c])
                           /\ buf' = [buf EXCEPT ![c] = "drain"] /\ free' = free
    BY <1>2 DEF FlushStart, Ready, InFlightWith
  <2>2. \A d \in Chunks : buf'[d] # buf[d] => buf[d] = "inflight" /\ buf'[d] = "drain"
    BY <1>1, <2>1
  <2>3. ASSUME NEW i \in Returning PROVE coll[i].chunk # c
    <3>1. \A s \in Segs(c) : results[c][s] # 0
      BY <2>1, FullIsComplete DEF IInv
    <3> QED
      BY <2>3, <3>1 DEF IInv, TokensOK, TokenOK
  <2>4. ResultsAwaited'
    BY <1>1, <2>1, <2>3, TokenChunks DEF ResultsAwaited, Returning
  <2> QED
    BY <1>1, <2>1, <2>2, <2>4, StagesFrame, QueueFrame, ConservedFrame
<1>3. CASE FlushRecycle
  <2>1. /\ collector = "drain" /\ ReturnSlot /\ buf' = [buf EXCEPT ![drained.chunk] = "recycled"]
        /\ drained.chunk \in Chunks /\ buf[drained.chunk] = "drain"
    BY <1>3, Types DEF FlushRecycle, IInv, DrainedHeld
  <2>2. \A d \in Chunks : buf'[d] # buf[d] => buf[d] = "drain" /\ buf'[d] = "recycled"
    BY <1>1, <2>1
  <2>3. Stages' /\ QueueOrdered' /\ ResultsAwaited'
    BY <1>1, <2>2, StagesFrame, QueueFrame, AwaitedFrame
  <2>4. SlotsConserved'
    BY <1>1, <2>1, ConservedReturn
  <2> QED
    BY <2>3, <2>4
<1> QED
  BY <1>2, <1>3

LEMMA FlowStep == FlowInv /\ [Next]_vars /\ collector' # "panicked" => FlowInv'
<1> SUFFICES ASSUME FlowInv, [Next]_vars, collector' # "panicked" PROVE FlowInv'
  OBVIOUS
<1>1. IInv'
  BY InvStep DEF FlowInv
<1>2. CASE ReaderTake \/ ReaderSend
  BY <1>1, <1>2, FlowTake, FlowFilled DEF FlowInv
<1>3. CASE MainAccept \/ MainReject
  BY <1>1, <1>3, FlowReceive DEF FlowInv
<1>4. CASE MainAnnounce
  BY <1>1, <1>4, FlowAnnounce DEF FlowInv
<1>5. CASE \E w \in Workers : WorkerRuns(w) \/ WorkerPanic(w)
  BY <1>1, <1>5, FlowWorker DEF FlowInv
<1>6. CASE CollNewSlot \/ CollResult
  BY <1>1, <1>6, FlowMessage DEF FlowInv
<1>7. CASE FlushStart \/ FlushRecycle
  BY <1>1, <1>7, FlowFlush DEF FlowInv
<1>8. CASE \/ MainPost \/ MainPosted \/ MainPanic \/ MainJoin
           \/ CollHangup \/ FlushEnd \/ FlushSkip \/ FlushSend
           \/ WriterWrite \/ WriterExit \/ WriterPanic \/ Ended \/ UNCHANGED vars
  <2>1. UNCHANGED <<plan, free, buf, got, reader, sent, coll>> /\ (main' = "announce" => main = "announce")
    BY <1>8 DEF MainPost, MainPosted, MainPanic, MainJoin, CollHangup, FlushEnd, FlushSkip, FlushSend,
         WriterWrite, WriterExit, WriterPanic, Ended, vars, readerVars, mainVars
  <2> QED
    BY <1>1, <2>1, StagesFrame, QueueFrame, AwaitedFrame, ConservedFrame DEF FlowInv
<1> QED
  BY <1>2, <1>3, <1>4, <1>5, <1>6, <1>7, <1>8, CollPanicIsLast
  DEF Next, MainNext, CollNext, FlowInv

LEMMA FlowUntilUnwound == SafeSpec => [](collector # "panicked" => FlowInv)
<1> DEFINE Inv == collector # "panicked" => FlowInv
<1>1. Init => Inv
  BY InvInit, FlowInit DEF FlowInv
<1>2. Inv /\ [Next]_vars => Inv'
  BY FlowStep, CollPanicIsLast
<1>3. SafeSpec => []Inv
  <2> HIDE DEF Inv
  <2> QED
    BY <1>1, <1>2, PTL DEF SafeSpec
<1> QED
  BY <1>3

\* Nobody sends to a collector that panicked.
LEMMA UnwoundIsEmpty == SafeSpec => [](collector = "panicked" => coll = <<>>)
<1> DEFINE Empty == collector = "panicked" => coll = <<>>
<1>1. Init => Empty
  BY DEF Init
<1>2. Empty /\ [Next]_vars => Empty'
  BY DEF CollGone, Next, MainNext, CollNext, ReaderTake, ReaderSend, MainAccept, MainReject,
     MainAnnounce, MainPost, MainPosted, MainPanic, MainJoin, WorkerRuns, WorkerTake, WorkerFinish,
     WorkerExit, WorkerPanic, CollNewSlot, CollResult, CollHangup, FlushStart, FlushEnd, FlushSkip,
     FlushSend, FlushRecycle, CollPanic, WriterWrite, WriterExit, WriterPanic, Ended, vars, collVars
<1>3. SafeSpec => []Empty
  <2> HIDE DEF Empty
  <2> QED
    BY <1>1, <1>2, PTL DEF SafeSpec
<1> QED
  BY <1>3

\* apply_result never drops a result for want of its slot, whatever the
\* number of workers and the capacities, also when workers or the writer
\* panic.
THEOREM ResultsFindTheirSlot == SafeSpec => []NoResultLost
<1>1. FlowInv => NoResultLost
  <2> SUFFICES ASSUME FlowInv, NEW i \in DOMAIN coll, coll[i].kind = "result"
               PROVE  \/ buf[coll[i].chunk] = "inflight"
                      \/ \E j \in 1 .. i - 1 : SlotAt(coll, j, coll[i].chunk)
    BY DEF NoResultLost, SlotAt
  <2>1. buf[coll[i].chunk] \in {"queued", "inflight"}
    BY DEF FlowInv, ResultsAwaited, Returning
  <2> QED
    BY <2>1 DEF FlowInv, QueueOrdered
<1>2. coll = <<>> => NoResultLost
  BY DEF NoResultLost
<1>3. (collector # "panicked" => FlowInv) /\ (collector = "panicked" => coll = <<>>) => NoResultLost
  BY <1>1, <1>2
<1> QED
  BY <1>3, FlowUntilUnwound, UnwoundIsEmpty, PTL

\* The pool never loses a slot while the reader still needs one, unless the
\* collector is unwound with the slots it holds.
THEOREM SlotsNeverLost == SafeSpec => []SlotsConserved
<1>1. (collector # "panicked" => FlowInv) => SlotsConserved
  BY DEF FlowInv, SlotsConserved
<1> QED
  BY <1>1, FlowUntilUnwound, PTL

=============================================================================
