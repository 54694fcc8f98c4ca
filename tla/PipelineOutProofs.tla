------------------------- MODULE PipelineOutProofs -------------------------
(***************************************************************************)
(* The output file is that of the serial decoder: WritesInOrder, a         *)
(* refinement.  The argument: chunk ids are the positions of the accepted  *)
(* chunks and next_write_id is the first whose slot was not recycled       *)
(* (TurnsKept), so the segments passed by the collector are at any time    *)
(* the first ones of the input, and the bytes sent to the writer are       *)
(* exactly theirs (OutIsPassed).  And a run that ends normally has written *)
(* everything, DoneMeansComplete, also when workers may panic: each        *)
(* segment posted has its result or a token (Accounted), and every thread  *)
(* outlives the one it is fed by.  All this holds until the writer panics: *)
(* from there on nothing is written, and the end is not a normal one.      *)
(***************************************************************************)
EXTENDS PipelineProofs

\* What the writer was sent, and the segments the collector is done with.
Out == written \o write
Passed(c, s) == buf[c] = "recycled" \/ (buf[c] = "drain" /\ s < drained.seg)

TurnsKept ==
  /\ \A c \in Chunks : plan[c] # <<>> =>
       (buf[c] = "recycled" <=> c <= got /\ id[c] < nextWrite)
  /\ main = "recv" => nextWrite <= chunkId
  /\ main \in {"announce", "post"} => nextWrite <= chunkId + 1

\* At most one slot is drained, in its turn and with all its results.
DrainsOne ==
  \A c \in Chunks : buf[c] = "drain" =>
    /\ collector = "drain" /\ drained.chunk = c /\ id[c] = nextWrite
    /\ \A s \in Segs(c) : results[c][s] # 0

\* Nothing was decoded from a slot of another chunk.
ResultsOwn == \A c \in Chunks : \A s \in Segs(c) : results[c][s] \in {0, c}

Before(c, s, d, t) == c < d \/ (c = d /\ s < t)
PassedData(c, s) == plan[c][s] = "data" /\ Passed(c, s)
OutIsPassed ==
  /\ \A i \in DOMAIN Out : \E c \in Chunks : \E s \in Segs(c) :
       Out[i] = <<c, s>> /\ PassedData(c, s)
  /\ \A c \in Chunks : \A s \in Segs(c) :
       PassedData(c, s) => \E i \in DOMAIN Out : Out[i] = <<c, s>>
  /\ \A i, j \in DOMAIN Out : i < j => Before(Out[i][1], Out[i][2], Out[j][1], Out[j][2])

Sends == TurnsKept /\ DrainsOne /\ ResultsOwn /\ OutIsPassed
OutInv == FlowInv /\ Sends

-----------------------------------------------------------------------------
(* Facts about the state                                                   *)

LEMMA OutTypes ==
  ASSUME IInv
  PROVE  /\ written \in Seq(Chunks \X (Nat \ {0})) /\ write \in Seq(Chunks \X (Nat \ {0}))
         /\ Out \in Seq(Chunks \X (Nat \ {0}))
         /\ Len(Out) \in Nat /\ DOMAIN Out = 1 .. Len(Out)
         /\ nextWrite \in Nat /\ drained.seg \in Nat /\ drained.seg >= 1
<1>1. written \in Seq(Chunks \X (Nat \ {0})) /\ write \in Seq(Chunks \X (Nat \ {0}))
  BY DEF IInv, TypeInv, TypeOK
<1>2. nextWrite \in Nat /\ drained.seg \in Nat /\ drained.seg >= 1
  BY DEF IInv, TypeInv, TypeOK
<1>3. Out \in Seq(Chunks \X (Nat \ {0}))
  BY <1>1 DEF Out
<1> QED
  BY <1>1, <1>2, <1>3

LEMMA Values ==
  ASSUME IInv, NEW c \in Chunks, NEW s \in Segs(c)
  PROVE  plan[c][s] \in {"data", "blank"} /\ plan[c] # <<>> /\ s \in Nat \ {0}
<1>1. plan \in Seq(Seq({"data", "blank"}))
  BY PlansAssumption DEF IInv, TypeInv, TypeOK
<1>2. plan[c] \in Seq({"data", "blank"})
  BY <1>1 DEF Chunks
<1> QED
  BY <1>2 DEF Segs

\* The ids of accepted chunks grow with the chunks.
LEMMA IdsGrow ==
  ASSUME IInv, NEW c \in Chunks, NEW d \in Chunks, plan[c] # <<>>, plan[d] # <<>>,
         c <= got, d <= got
  PROVE  /\ id[c] \in Nat /\ id[d] \in Nat /\ c \in Nat /\ d \in Nat
         /\ c < d => id[c] < id[d]
         /\ id[c] = id[d] => c = d
<1>1. /\ id[c] \in Nat /\ id[d] \in Nat /\ c \in Nat /\ d \in Nat
  BY Types DEF IInv
<1>2. c < d => id[c] < id[d]
  BY DEF IInv, IdsUnique
<1>3. d < c => id[d] < id[c]
  BY DEF IInv, IdsUnique
<1> QED
  BY <1>1, <1>2, <1>3

\* What the collector is done with is the beginning of the input.
LEMMA PassedFirst ==
  ASSUME OutInv, NEW c \in Chunks, NEW s \in Segs(c), NEW d \in Chunks, NEW t \in Segs(d),
         Passed(c, s), Before(d, t, c, s)
  PROVE  Passed(d, t)
<1> USE DEF OutInv, FlowInv, Sends
<1>1. plan[c] # <<>> /\ plan[d] # <<>> /\ s \in Nat /\ t \in Nat
  BY Values
<1>2. c <= got /\ id[c] <= nextWrite /\ c \in Nat /\ d \in Nat /\ got \in Nat
  <2>1. c \in Nat /\ d \in Nat /\ got \in Nat /\ id[c] \in Nat /\ nextWrite \in Nat
    <3>1. c \in Nat /\ d \in Nat /\ got \in Nat /\ id[c] \in Nat
      BY Types DEF IInv
    <3> QED
      BY <3>1, OutTypes
  <2>2. CASE buf[c] = "recycled"
    BY <1>1, <2>1, <2>2 DEF TurnsKept
  <2>3. CASE buf[c] = "drain"
    BY <2>1, <2>3 DEF DrainsOne, IInv, RegisteredAnnounced, Announced
  <2> QED
    BY <2>2, <2>3 DEF Passed
<1>3. CASE d < c
  <2>1. id[d] < id[c] /\ d <= got /\ id[c] \in Nat /\ id[d] \in Nat
    BY <1>1, <1>2, <1>3, IdsGrow
  <2>2. id[d] < nextWrite
    BY <1>2, <2>1, OutTypes
  <2> QED
    BY <1>1, <2>1, <2>2 DEF TurnsKept, Passed
<1>4. CASE d = c /\ t < s
  BY <1>1, <1>4, OutTypes DEF Passed
<1> QED
  BY <1>3, <1>4 DEF Before

-----------------------------------------------------------------------------
(* What leaves the parts alone                                             *)

LEMMA OutFrame ==
  ASSUME IInv, OutIsPassed, plan' = plan,
         DOMAIN Out' = DOMAIN Out, \A i \in DOMAIN Out : Out'[i] = Out[i],
         \A c \in Chunks : \A s \in Segs(c) :
           plan[c][s] = "data" => (Passed(c, s)' <=> Passed(c, s))
  PROVE  OutIsPassed'
<1>1. Chunks' = Chunks /\ \A c : Segs(c)' = Segs(c)
  BY PlanFrame
<1>2. \A c \in Chunks : \A s \in Segs(c) : PassedData(c, s)' <=> PassedData(c, s)
  BY DEF PassedData
<1> QED
  BY <1>1, <1>2 DEF OutIsPassed, Before

LEMMA SendsFrame ==
  ASSUME IInv, Sends, UNCHANGED <<plan, got, id, nextWrite, chunkId, results, written, write>>,
         main' = "recv" => main = "recv",
         main' \in {"announce", "post"} => main \in {"announce", "post"},
         collector = "drain" => UNCHANGED <<collector, drained>>,
         \A c \in Chunks : buf'[c] # buf[c] => /\ buf[c] \notin {"drain", "recycled"}
                                             /\ buf'[c] \notin {"drain", "recycled"}
  PROVE  Sends'
<1> USE DEF Sends
<1>1. Chunks' = Chunks /\ \A c : Segs(c)' = Segs(c)
  BY PlanFrame
<1>2. TurnsKept'
  BY <1>1 DEF TurnsKept
<1>3. DrainsOne'
  BY <1>1 DEF DrainsOne
<1>4. ResultsOwn'
  BY <1>1 DEF ResultsOwn
<1>5. \A c \in Chunks : \A s \in Segs(c) : Passed(c, s)' <=> Passed(c, s)
  BY DEF Passed, DrainsOne
<1>6. OutIsPassed'
  <2>1. Out' = Out
    BY DEF Out
  <2> QED
    BY <1>5, <2>1, OutFrame
<1> QED
  BY <1>2, <1>3, <1>4, <1>6

-----------------------------------------------------------------------------
(* The actions                                                             *)

LEMMA SendsInit == Init => Sends
<1> SUFFICES ASSUME Init PROVE Sends
  OBVIOUS
<1>1. IInv
  BY InvInit
<1>2. Out = <<>> /\ DOMAIN Out = {}
  BY DEF Init, Out
<1>3. \A c \in Chunks : buf[c] = "none" /\ \A s \in Segs(c) : results[c][s] = 0
  BY DEF Init
<1>4. \A c \in Chunks : c \in Nat /\ c >= 1
  BY <1>1, Types DEF IInv
<1>5. nextWrite = 0 /\ chunkId = 0 /\ got = 0
  BY DEF Init
<1>6. TurnsKept
  BY <1>3, <1>4, <1>5 DEF TurnsKept
<1> QED
  BY <1>2, <1>3, <1>6 DEF Sends, DrainsOne, ResultsOwn, OutIsPassed, PassedData, Passed

\* Steps before a slot is drained, and steps that move none.
LEMMA SendsElsewhere ==
  ASSUME OutInv,
         \/ ReaderTake \/ ReaderSend \/ MainAnnounce \/ MainPost \/ MainPanic \/ MainJoin
         \/ \E w \in Workers : WorkerRuns(w) \/ WorkerPanic(w)
         \/ CollNewSlot \/ CollHangup \/ FlushEnd
         \/ WriterExit \/ Ended \/ UNCHANGED vars
  PROVE  Sends'
<1> USE DEF OutInv, FlowInv
<1>1. CASE ReaderTake \/ ReaderSend
  <2>1. /\ sent + 1 \in Chunks /\ DOMAIN buf = Chunks
        /\ UNCHANGED <<plan, got, id, nextWrite, chunkId, results, written, write, main,
                       collector, drained>>
    <3>1. reader # "done" => sent < Last
      BY DEF IInv, TypeInv
    <3> QED
      BY <1>1, <3>1, Types DEF IInv, ReaderTake, ReaderSend, mainVars, collVars, writerVars
  <2>2. buf[sent + 1] \notin {"drain", "recycled"}
    <3>1. CASE ReaderTake
      <4>1. Unread(sent + 1) /\ sent \in Nat
        BY <3>1, Types DEF Unread, ReaderTake, IInv
      <4> QED
        BY <2>1, <4>1 DEF Stages
    <3>2. CASE ReaderSend
      BY <3>2 DEF Stages, ReaderSend
    <3> QED
      BY <1>1, <3>1, <3>2
  <2>3. \A c \in Chunks : buf'[c] # buf[c] => c = sent + 1 /\ buf'[c] \in {"read", "filled"}
    BY <1>1, <2>1 DEF ReaderTake, ReaderSend
  <2> QED
    BY <2>1, <2>2, <2>3, SendsFrame
<1>2. CASE MainAnnounce
  <2>1. /\ main = "announce" /\ main' = "post" /\ got \in Chunks /\ DOMAIN buf = Chunks
        /\ UNCHANGED <<plan, got, id, nextWrite, chunkId, results, written, write,
                       collector, drained>>
    BY <1>2, Types DEF MainAnnounce, IInv, TypeInv, collVars, writerVars
  <2>2. \A c \in Chunks : buf'[c] # buf[c] => c = got /\ buf'[c] = "queued" /\ buf[c] = "split"
    BY <1>2, <2>1 DEF MainAnnounce, Stages
  <2> QED
    BY <2>1, <2>2, SendsFrame
<1>3. CASE CollNewSlot
  <2>1. /\ DOMAIN buf = Chunks /\ collector = "recv" /\ 1 \in DOMAIN coll /\ coll[1] = Head(coll)
        /\ UNCHANGED <<plan, got, id, nextWrite, chunkId, results, written, write, main>>
    BY <1>3, Types, CollTail DEF CollNewSlot, IInv, mainVars, writerVars
  <2>2. buf[coll[1].chunk] = "queued"
    BY <1>3, <2>1 DEF QueueOrdered, CollNewSlot
  <2>3. \A c \in Chunks : buf'[c] # buf[c] => c = coll[1].chunk /\ buf'[c] = "inflight"
    BY <1>3, <2>1 DEF CollNewSlot
  <2> QED
    BY <2>1, <2>2, <2>3, SendsFrame
<1>4. CASE CollHangup \/ FlushEnd
  <2>1. /\ collector # "drain"
        /\ UNCHANGED <<plan, buf, got, id, nextWrite, chunkId, results, written, write, main>>
    BY <1>4 DEF CollHangup, FlushEnd, mainVars, writerVars
  <2> QED
    BY <2>1, SendsFrame
<1>5. CASE \/ MainPost \/ MainPanic \/ MainJoin
           \/ \E w \in Workers : WorkerRuns(w) \/ WorkerPanic(w)
           \/ WriterExit \/ Ended \/ UNCHANGED vars
  <2>1. /\ UNCHANGED <<plan, buf, got, id, nextWrite, chunkId, results, written, write,
                       collector, drained>>
        /\ main' = main \/ main' \in {"panicked", "done"}
    BY <1>5 DEF MainPost, MainPanic, MainJoin, WorkerRuns, WorkerTake, WorkerFinish, WorkerExit,
         WorkerPanic, WriterExit, Ended, vars, mainVars, collVars, writerVars
  <2> QED
    BY <2>1, SendsFrame
<1> QED
  BY <1>1, <1>2, <1>3, <1>4, <1>5

\* A chunk main receives gets the next id, if it gets one, and no slot of it
\* was or is passed on.
LEMMA SendsReceive ==
  ASSUME OutInv, MainAccept \/ MainReject \/ MainPosted
  PROVE  Sends'
<1> USE DEF OutInv, FlowInv, Sends
<1>1. /\ UNCHANGED <<plan, nextWrite, results, written, write, collector, drained>>
      /\ DOMAIN buf = Chunks /\ DOMAIN id = Chunks /\ Chunks' = Chunks
      /\ \A c : Segs(c)' = Segs(c)
      /\ got \in Nat /\ chunkId \in Nat /\ nextWrite \in Nat /\ \A c \in Chunks : c \in Nat
  BY Types, OutTypes, PlanFrame DEF MainAccept, MainReject, MainPosted, collVars, writerVars, IInv
<1>2. CASE MainPosted
  <2>1. /\ UNCHANGED <<buf, id, got>> /\ chunkId' = chunkId + 1 /\ main = "post"
        /\ main' \in {"join", "recv"}
    BY <1>2 DEF MainPosted
  <2>2. TurnsKept'
    BY <1>1, <2>1 DEF TurnsKept
  <2>3. DrainsOne' /\ ResultsOwn'
    BY <1>1, <2>1 DEF DrainsOne, ResultsOwn
  <2>4. OutIsPassed'
    BY <1>1, <2>1, OutFrame DEF Out, Passed
  <2> QED
    BY <2>2, <2>3, <2>4
<1>3. CASE MainAccept \/ MainReject
  <2>1. /\ got' = got + 1 /\ got + 1 \in Chunks /\ main = "recv" /\ chunkId' = chunkId
        /\ \A c \in Chunks : c # got + 1 => buf'[c] = buf[c] /\ id'[c] = id[c]
        /\ buf[got + 1] = "filled"
    <3>1. sent \in 0 .. Last /\ got < sent
      BY <1>3 DEF IInv, TypeInv, TypeOK, MainAccept, MainReject
    <3>2. got + 1 \in Chunks /\ got < got + 1 /\ got + 1 <= sent
      BY <1>1, <3>1, Types DEF IInv
    <3>3. buf[got + 1] = "filled"
      BY <3>2 DEF Stages
    <3> QED
      BY <1>1, <1>3, <3>2, <3>3 DEF MainAccept, MainReject
  <2>2. \/ MainReject /\ plan[got + 1] = <<>> /\ buf'[got + 1] = "recycled" /\ main' \in {"join", "recv"}
        \/ /\ MainAccept /\ plan[got + 1] # <<>> /\ buf'[got + 1] = "split"
           /\ id'[got + 1] = chunkId /\ main' = "announce"
    BY <1>1, <1>3, <2>1 DEF MainAccept, MainReject
  <2>3. nextWrite <= chunkId
    BY <2>1 DEF TurnsKept
  <2>4. \A c \in Chunks : plan[c] # <<>> =>
          (buf'[c] = "recycled" <=> c <= got + 1 /\ id'[c] < nextWrite)
    <3>1. ASSUME NEW c \in Chunks, plan[c] # <<>>
          PROVE  buf'[c] = "recycled" <=> c <= got + 1 /\ id'[c] < nextWrite
      <4>1. CASE c = got + 1
        BY <1>1, <2>2, <2>3, <3>1, <4>1
      <4>2. CASE c # got + 1
        <5>1. c <= got + 1 <=> c <= got
          BY <1>1, <4>2
        <5> QED
          BY <2>1, <3>1, <4>2, <5>1 DEF TurnsKept
      <4> QED
        BY <4>1, <4>2
    <3> QED
      BY <3>1
  <2>5. TurnsKept'
    BY <1>1, <2>1, <2>2, <2>3, <2>4 DEF TurnsKept
  <2>6. DrainsOne' /\ ResultsOwn'
    BY <1>1, <2>1, <2>2 DEF DrainsOne, ResultsOwn
  <2>7. \A c \in Chunks : \A s \in Segs(c) : Passed(c, s)' <=> Passed(c, s)
    BY <1>1, <2>1, <2>2, Values DEF Passed
  <2>8. OutIsPassed'
    BY <1>1, <2>7, OutFrame DEF Out
  <2> QED
    BY <2>5, <2>6, <2>8
<1> QED
  BY <1>2, <1>3

\* A result that is stored is stored with its own chunk.
LEMMA ResultLands ==
  ASSUME IInv, CollResult
  PROVE  \/ results' = results
         \/ \E c \in Chunks : \E s \in Segs(c) : results' = [results EXCEPT ![c][s] = c]
<1> USE DEF IInv
<1>1. 1 \in Returning /\ coll[1] = Head(coll)
  BY CollTail DEF CollResult, Returning
<1>2. TokenOK(coll[1]) /\ coll[1].chunk \in Chunks /\ coll[1].seg \in Segs(coll[1].chunk)
  BY <1>1, TokenChunks DEF TokensOK, TokenOK, Returning
<1>3. plan[coll[1].chunk] # <<>> /\ coll[1].chunk <= got
  BY <1>1, <1>2 DEF RegisteredAnnounced, Returning, Announced, TokenOK
<1>4. ASSUME NEW c \in InFlightWith(coll[1].id) PROVE c = coll[1].chunk
  <2>1. c \in Chunks /\ id[c] = id[coll[1].chunk] /\ c <= got /\ plan[c] # <<>>
    BY <1>2, <1>4 DEF InFlightWith, TokenOK, RegisteredAnnounced, Announced
  <2> QED
    BY <1>2, <1>3, <2>1, IdsGrow
<1> QED
  BY <1>1, <1>2, <1>4 DEF CollResult

LEMMA SendsResult ==
  ASSUME OutInv, CollResult
  PROVE  Sends'
<1> USE DEF OutInv, FlowInv, Sends
<1>1. /\ UNCHANGED <<plan, buf, got, main, chunkId, id, nextWrite, drained, written, write>>
      /\ collector = "recv"
      /\ Chunks' = Chunks /\ \A c : Segs(c)' = Segs(c)
  BY PlanFrame DEF CollResult, mainVars, writerVars
<1>2. TurnsKept'
  BY <1>1 DEF TurnsKept
<1>3. DrainsOne'
  BY <1>1 DEF DrainsOne
<1>4. ResultsOwn'
  <2>1. \A c \in Chunks : \A s \in Segs(c) : results'[c][s] \in {0, c}
    <3>1. CASE results' = results
      BY <3>1 DEF ResultsOwn
    <3>2. CASE \E c \in Chunks : \E s \in Segs(c) : results' = [results EXCEPT ![c][s] = c]
      BY <3>2, Types DEF ResultsOwn, IInv
    <3> QED
      BY <3>1, <3>2, ResultLands
  <2> QED
    BY <1>1, <2>1 DEF ResultsOwn
<1>5. OutIsPassed'
  BY <1>1, OutFrame DEF Out, Passed
<1> QED
  BY <1>2, <1>3, <1>4, <1>5

LEMMA SendsStart ==
  ASSUME OutInv, FlushStart
  PROVE  Sends'
<1> USE DEF OutInv, FlowInv, Sends
<1>1. /\ UNCHANGED <<plan, got, main, chunkId, id, nextWrite, results, written, write>>
      /\ collector \in {"flush", "final"} /\ collector' = "drain"
      /\ Chunks' = Chunks /\ \A c : Segs(c)' = Segs(c)
      /\ DOMAIN buf = Chunks
  BY PlanFrame, Types DEF FlushStart, mainVars, writerVars, IInv
<1>2. PICK c \in Chunks : /\ buf[c] = "inflight" /\ id[c] = nextWrite /\ done[c] >= Len(plan[c])
                          /\ buf' = [buf EXCEPT ![c] = "drain"]
                          /\ drained' = [chunk |-> c, seg |-> 1]
  BY DEF FlushStart, Ready, InFlightWith
<1>3. \A d \in Chunks : buf[d] # "drain"
  BY <1>1 DEF DrainsOne
<1>4. \A d \in Chunks : buf'[d] = IF d = c THEN "drain" ELSE buf[d]
  BY <1>1, <1>2
<1>5. TurnsKept'
  BY <1>1, <1>2, <1>4 DEF TurnsKept
<1>6. DrainsOne'
  <2>1. \A s \in Segs(c) : results[c][s] # 0
    BY <1>2, FullIsComplete DEF IInv
  <2> QED
    BY <1>1, <1>2, <1>3, <1>4, <2>1 DEF DrainsOne
<1>7. ResultsOwn'
  BY <1>1 DEF ResultsOwn
<1>8. \A d \in Chunks : \A s \in Segs(d) : Passed(d, s)' <=> Passed(d, s)
  <2>1. ASSUME NEW d \in Chunks, NEW s \in Segs(d) PROVE Passed(d, s)' <=> Passed(d, s)
    <3>1. drained'.seg = 1 /\ s \in Nat /\ ~(s < 1)
      BY <1>2, Values
    <3> QED
      BY <1>2, <1>3, <1>4, <3>1 DEF Passed
  <2> QED
    BY <2>1
<1>9. OutIsPassed'
  BY <1>1, <1>8, OutFrame DEF Out
<1> QED
  BY <1>5, <1>6, <1>7, <1>9

\* A result of the slot that is drained goes out, or is blank and does not.
LEMMA SendsNext ==
  ASSUME OutInv, FlushSkip \/ FlushSend
  PROVE  Sends'
<1> USE DEF OutInv, FlowInv, Sends
<1> DEFINE c == drained.chunk
           k == drained.seg
<1>1. /\ UNCHANGED <<plan, buf, got, main, chunkId, id, nextWrite, results, written, collector>>
      /\ collector = "drain" /\ k <= Len(plan[c])
      /\ drained' = [drained EXCEPT !.seg = @ + 1]
      /\ Chunks' = Chunks /\ \A d : Segs(d)' = Segs(d)
  BY PlanFrame DEF FlushSkip, FlushSend, mainVars, writerVars
<1>2. /\ c \in Chunks /\ k \in Nat /\ k >= 1 /\ Len(plan[c]) \in Nat
      /\ drained'.chunk = c /\ drained'.seg = k + 1
  BY <1>1, Types, OutTypes DEF IInv, TypeInv, TypeOK
<1>3. k \in Segs(c)
  BY <1>1, <1>2 DEF Segs
<1>4. buf[c] = "drain"
  BY <1>1 DEF IInv, DrainedHeld
<1>5. results[c][k] = c
  BY <1>2, <1>3, <1>4 DEF DrainsOne, ResultsOwn
<1>6. TurnsKept' /\ DrainsOne' /\ ResultsOwn'
  BY <1>1, <1>2 DEF TurnsKept, DrainsOne, ResultsOwn
<1>7. \A d \in Chunks : \A s \in Segs(d) :
        Passed(d, s)' <=> Passed(d, s) \/ (d = c /\ s = k)
  <2>1. ASSUME NEW d \in Chunks, NEW s \in Segs(d)
        PROVE  Passed(d, s)' <=> Passed(d, s) \/ (d = c /\ s = k)
    <3>1. s \in Nat
      BY Values
    <3>2. buf[d] = "drain" => d = c
      BY DEF DrainsOne
    <3> QED
      BY <1>1, <1>2, <1>4, <3>1, <3>2 DEF Passed
  <2> QED
    BY <2>1
<1>8. ~Passed(c, k)
  BY <1>2, <1>4 DEF Passed
<1>9. CASE FlushSkip
  <2>1. write' = write
    BY <1>9 DEF FlushSkip
  <2>2. plan[c][k] = "blank"
    <3>1. Skipped(c, k)
      BY <1>9 DEF FlushSkip
    <3>2. c # 0
      BY <1>2, Types DEF IInv
    <3> QED
      BY <1>5, <3>1, <3>2 DEF Skipped
  <2>3. \A d \in Chunks : \A s \in Segs(d) :
          plan[d][s] = "data" => (Passed(d, s)' <=> Passed(d, s))
    BY <1>7, <2>2
  <2>4. OutIsPassed'
    BY <1>1, <2>1, <2>3, OutFrame DEF Out
  <2> QED
    BY <1>6, <2>4
<1>10. CASE FlushSend
  <2>1. plan[c][k] = "data" /\ write' = Append(write, <<c, k>>)
    BY <1>2, <1>3, <1>5, <1>10, Values DEF FlushSend, Skipped
  <2>2. /\ Len(Out) \in Nat /\ DOMAIN Out = 1 .. Len(Out) /\ DOMAIN Out' = 1 .. Len(Out) + 1
        /\ \A i \in DOMAIN Out : Out'[i] = Out[i]
        /\ Out'[Len(Out) + 1] = <<c, k>>
    <3> DEFINE S == Chunks \X (Nat \ {0})
               x == <<c, k>>
    <3>1. written \in Seq(S) /\ write \in Seq(S) /\ x \in S
      BY <1>2, OutTypes
    <3>2. Out = written \o write /\ Out' = written \o Append(write, x)
      BY <1>1, <2>1 DEF Out
    <3> HIDE DEF S, x
    <3>3. /\ Len(written) \in Nat /\ Len(write) \in Nat
          /\ Len(Out) = Len(written) + Len(write) /\ DOMAIN Out = 1 .. Len(Out)
          /\ \A i \in DOMAIN Out : Out[i] = IF i <= Len(written) THEN written[i]
                                            ELSE write[i - Len(written)]
      BY <3>1, <3>2
    <3>4. /\ Append(write, x) \in Seq(S) /\ Len(Append(write, x)) = Len(write) + 1
          /\ \A i \in 1 .. Len(write) : Append(write, x)[i] = write[i]
          /\ Append(write, x)[Len(write) + 1] = x
      BY <3>1
    <3>5. /\ DOMAIN Out' = 1 .. Len(written) + (Len(write) + 1)
          /\ \A i \in DOMAIN Out' : Out'[i] = IF i <= Len(written) THEN written[i]
                                              ELSE Append(write, x)[i - Len(written)]
      BY <3>1, <3>2, <3>4
    <3>6. DOMAIN Out' = 1 .. Len(Out) + 1
      BY <3>3, <3>5
    <3>7. ASSUME NEW i \in DOMAIN Out PROVE Out'[i] = Out[i]
      <4>1. CASE i <= Len(written)
        BY <3>3, <3>5, <3>6, <4>1
      <4>2. CASE i > Len(written)
        <5>1. i - Len(written) \in 1 .. Len(write)
          BY <3>3, <4>2
        <5> QED
          BY <3>3, <3>4, <3>5, <3>6, <4>2, <5>1
      <4> QED
        BY <3>3, <4>1, <4>2
    <3>8. Out'[Len(Out) + 1] = x
      <4>1. Len(Out) + 1 \in DOMAIN Out' /\ ~(Len(Out) + 1 <= Len(written))
            /\ (Len(Out) + 1) - Len(written) = Len(write) + 1
        BY <3>3, <3>6
      <4> QED
        BY <3>4, <3>5, <4>1
    <3> QED
      BY <3>3, <3>6, <3>7, <3>8 DEF x
  <2>3. \A d \in Chunks : \A s \in Segs(d) :
          PassedData(d, s)' <=> PassedData(d, s) \/ (d = c /\ s = k)
    BY <1>1, <1>7, <2>1 DEF PassedData
  <2>4. \A i \in DOMAIN Out' : \E d \in Chunks : \E s \in Segs(d) :
          Out'[i] = <<d, s>> /\ PassedData(d, s)'
    <3>1. ASSUME NEW i \in DOMAIN Out'
          PROVE  \E d \in Chunks : \E s \in Segs(d) : Out'[i] = <<d, s>> /\ PassedData(d, s)'
      <4>1. CASE i = Len(Out) + 1
        BY <1>2, <1>3, <2>2, <2>3, <4>1
      <4>2. CASE i \in DOMAIN Out
        <5>1. PICK d \in Chunks, s \in Nat : s \in Segs(d) /\ Out[i] = <<d, s>> /\ PassedData(d, s)
          BY <4>2, Values DEF OutIsPassed
        <5> QED
          BY <2>2, <2>3, <4>2, <5>1
      <4> QED
        BY <2>2, <3>1, <4>1, <4>2
    <3> QED
      BY <3>1
  <2>5. \A d \in Chunks : \A s \in Segs(d) :
          PassedData(d, s)' => \E i \in DOMAIN Out' : Out'[i] = <<d, s>>
    <3>1. ASSUME NEW d \in Chunks, NEW s \in Segs(d), PassedData(d, s)'
          PROVE  \E i \in DOMAIN Out' : Out'[i] = <<d, s>>
      <4>1. CASE PassedData(d, s)
        <5>1. PICK i \in DOMAIN Out : Out[i] = <<d, s>>
          BY <4>1 DEF OutIsPassed
        <5> QED
          BY <2>2, <5>1
      <4>2. CASE d = c /\ s = k
        BY <2>2, <4>2
      <4> QED
        BY <2>3, <3>1, <4>1, <4>2
    <3> QED
      BY <3>1
  <2>6. ASSUME NEW i \in DOMAIN Out
        PROVE  Before(Out[i][1], Out[i][2], c, k)
    <3>1. PICK d \in Chunks, s \in Nat : s \in Segs(d) /\ Out[i] = <<d, s>> /\ Passed(d, s)
      BY <2>6, Values DEF OutIsPassed, PassedData
    <3>2. ~Before(c, k, d, s)
      BY <1>2, <1>3, <1>8, <3>1, PassedFirst
    <3>3. ~(d = c /\ s = k)
      BY <1>8, <3>1
    <3>4. d \in Nat /\ c \in Nat
      BY <1>2, Types DEF IInv
    <3> QED
      BY <1>2, <3>1, <3>2, <3>3, <3>4 DEF Before
  <2>7. ASSUME NEW i \in DOMAIN Out', NEW j \in DOMAIN Out', i < j
        PROVE  Before(Out'[i][1], Out'[i][2], Out'[j][1], Out'[j][2])
    <3>1. i \in DOMAIN Out /\ Out'[i] = Out[i]
      BY <2>2, <2>7
    <3>2. CASE j \in DOMAIN Out
      BY <2>2, <2>7, <3>1, <3>2 DEF OutIsPassed
    <3>3. CASE j = Len(Out) + 1
      BY <2>2, <2>6, <3>1, <3>3
    <3> QED
      BY <2>2, <2>7, <3>2, <3>3
  <2>8. OutIsPassed'
    BY <1>1, <2>4, <2>5, <2>7 DEF OutIsPassed, Before
  <2> QED
    BY <1>6, <2>8
<1> QED
  BY <1>9, <1>10

LEMMA SendsRecycle ==
  ASSUME OutInv, FlushRecycle
  PROVE  Sends'
<1> USE DEF OutInv, FlowInv, Sends
<1> DEFINE c == drained.chunk
<1>1. /\ UNCHANGED <<plan, got, main, chunkId, id, results, drained, written, write>>
      /\ collector = "drain" /\ drained.seg > Len(plan[c])
      /\ buf' = [buf EXCEPT ![c] = "recycled"] /\ nextWrite' = nextWrite + 1
      /\ Chunks' = Chunks /\ \A d : Segs(d)' = Segs(d)
  BY PlanFrame DEF FlushRecycle, mainVars, writerVars
<1>2. /\ c \in Chunks /\ DOMAIN buf = Chunks /\ buf[c] = "drain" /\ nextWrite \in Nat
      /\ Len(plan[c]) \in Nat /\ drained.seg \in Nat /\ chunkId \in Nat /\ got \in Nat
  BY <1>1, Types, OutTypes DEF IInv, DrainedHeld
<1>3. id[c] = nextWrite /\ c <= got /\ plan[c] # <<>> /\ (main = "announce" => c # got)
  BY <1>2 DEF DrainsOne, IInv, RegisteredAnnounced, Announced
<1>4. \A d \in Chunks : buf'[d] = IF d = c THEN "recycled" ELSE buf[d]
  BY <1>1, <1>2
<1>5. ASSUME NEW d \in Chunks, plan[d] # <<>>
      PROVE  buf'[d] = "recycled" <=> d <= got /\ id[d] < nextWrite + 1
  <2>1. CASE d = c
    BY <1>2, <1>3, <1>4, <2>1
  <2>2. CASE d # c
    <3>1. buf'[d] = "recycled" <=> d <= got /\ id[d] < nextWrite
      BY <1>4, <1>5, <2>2 DEF TurnsKept
    <3>2. d <= got => id[d] # nextWrite
      BY <1>2, <1>3, <1>5, <2>2, IdsGrow
    <3>3. id[d] \in Nat
      BY Types DEF IInv
    <3> QED
      BY <1>2, <3>1, <3>2, <3>3
  <2> QED
    BY <2>1, <2>2
<1>6. main = "recv" => nextWrite + 1 <= chunkId
  BY <1>2, <1>3, Types DEF IInv, IdsUnique
<1>7. main \in {"announce", "post"} => nextWrite + 1 <= chunkId + 1
  <2>1. c \in Nat /\ id[c] \in Nat
    BY <1>2, Types DEF IInv
  <2>2. main \in {"announce", "post"} => id[c] <= chunkId
    BY <1>2, <1>3, <2>1 DEF IInv, IdsUnique
  <2> QED
    BY <1>2, <1>3, <2>2
<1>8. TurnsKept'
  BY <1>1, <1>5, <1>6, <1>7 DEF TurnsKept
<1>9. DrainsOne' /\ ResultsOwn'
  BY <1>1, <1>4 DEF DrainsOne, ResultsOwn
<1>10. ASSUME NEW d \in Chunks, NEW s \in Segs(d) PROVE Passed(d, s)' <=> Passed(d, s)
  <2>1. CASE d = c
    <3>1. s < drained.seg
      BY <1>1, <1>2, <2>1 DEF Segs
    <3> QED
      BY <1>2, <1>4, <2>1, <3>1 DEF Passed
  <2>2. CASE d # c
    BY <1>1, <1>4, <2>2 DEF Passed
  <2> QED
    BY <2>1, <2>2
<1>11. OutIsPassed'
  BY <1>1, <1>10, OutFrame DEF Out
<1> QED
  BY <1>8, <1>9, <1>11

\* Writing moves the first element of Out from one sequence to the other.
LEMMA WriteMoves ==
  ASSUME IInv, WriterWrite
  PROVE  /\ DOMAIN Out' = DOMAIN Out /\ \A i \in DOMAIN Out : Out'[i] = Out[i]
         /\ Len(written) \in Nat /\ DOMAIN written = 1 .. Len(written)
         /\ Len(written) + 1 \in DOMAIN Out
         /\ \A i \in DOMAIN written : i \in DOMAIN Out /\ Out[i] = written[i]
         /\ \A i \in DOMAIN Out : i <= Len(written) => i \in DOMAIN written
         /\ written' = Append(written, Out[Len(written) + 1])
<1> DEFINE S == Chunks \X (Nat \ {0})
<1>1. written \in Seq(S) /\ write \in Seq(S) /\ Len(write) # 0
  BY OutTypes DEF WriterWrite
<1>2. written' = Append(written, Head(write)) /\ write' = Tail(write)
  BY DEF WriterWrite
<1> HIDE DEF S
<1>3. Head(write) \in S /\ Tail(write) \in Seq(S) /\ Len(Tail(write)) = Len(write) - 1
      /\ Head(write) = write[1] /\ \A i \in 1 .. Len(write) - 1 : Tail(write)[i] = write[i + 1]
  BY <1>1
<1>4. /\ Len(written) \in Nat /\ Len(write) \in Nat
      /\ DOMAIN written = 1 .. Len(written)
      /\ DOMAIN Out = 1 .. Len(written) + Len(write)
      /\ \A i \in DOMAIN Out : Out[i] = IF i <= Len(written) THEN written[i]
                                        ELSE write[i - Len(written)]
  BY <1>1 DEF Out
<1>5. /\ Append(written, Head(write)) \in Seq(S)
      /\ Len(Append(written, Head(write))) = Len(written) + 1
      /\ \A i \in 1 .. Len(written) : Append(written, Head(write))[i] = written[i]
      /\ Append(written, Head(write))[Len(written) + 1] = write[1]
  BY <1>1, <1>3
<1>6. /\ DOMAIN Out' = 1 .. (Len(written) + 1) + (Len(write) - 1)
      /\ \A i \in DOMAIN Out' :
           Out'[i] = IF i <= Len(written) + 1 THEN Append(written, Head(write))[i]
                     ELSE Tail(write)[i - (Len(written) + 1)]
  BY <1>2, <1>3, <1>5 DEF Out
<1>7. DOMAIN Out' = DOMAIN Out
  BY <1>1, <1>4, <1>6
<1>8. ASSUME NEW i \in DOMAIN Out PROVE Out'[i] = Out[i]
  <2>1. i \in Nat /\ i >= 1 /\ i <= Len(written) + Len(write)
    BY <1>4
  <2>2. CASE i <= Len(written)
    BY <1>4, <1>5, <1>6, <1>7, <2>1, <2>2
  <2>3. CASE i = Len(written) + 1
    BY <1>4, <1>5, <1>6, <1>7, <2>1, <2>3
  <2>4. CASE i > Len(written) + 1
    <3>1. /\ i - (Len(written) + 1) \in 1 .. Len(write) - 1
          /\ (i - (Len(written) + 1)) + 1 = i - Len(written)
      BY <1>4, <2>1, <2>4
    <3> QED
      BY <1>3, <1>4, <1>6, <1>7, <2>1, <2>4, <3>1
  <2> QED
    BY <1>4, <2>1, <2>2, <2>3, <2>4
<1>9. Out[Len(written) + 1] = Head(write) /\ Len(written) + 1 \in DOMAIN Out
  BY <1>1, <1>3, <1>4
<1> QED
  BY <1>2, <1>4, <1>7, <1>8, <1>9

LEMMA SendsWrite ==
  ASSUME OutInv, WriterWrite
  PROVE  Sends'
<1> USE DEF OutInv, FlowInv, Sends
<1>1. /\ UNCHANGED <<plan, buf, got, main, chunkId, id, results, drained, nextWrite, collector>>
      /\ Chunks' = Chunks /\ \A d : Segs(d)' = Segs(d)
  BY PlanFrame DEF WriterWrite, mainVars, collVars
<1>2. TurnsKept' /\ DrainsOne' /\ ResultsOwn'
  BY <1>1 DEF TurnsKept, DrainsOne, ResultsOwn
<1>3. OutIsPassed'
  BY <1>1, WriteMoves, OutFrame DEF Passed
<1> QED
  BY <1>2, <1>3

\* A collector that panics does so for a writer that did.
LEMMA NoCollPanic ==
  ASSUME IInv, writer' # "panicked"
  PROVE  ~CollPanic
<1>1. CollPanic => collector = "drain" /\ writer' = writer /\ writer \in {"exited", "panicked"}
  BY DEF CollPanic, WriterGone, writerVars
<1> QED
  BY <1>1 DEF IInv, DownstreamAlive

LEMMA OutStep == OutInv /\ [Next]_vars /\ writer' # "panicked" => OutInv'
<1> SUFFICES ASSUME OutInv, [Next]_vars, writer' # "panicked" PROVE OutInv'
  OBVIOUS
<1>1. ~CollPanic /\ ~WriterPanic
  BY NoCollPanic DEF OutInv, FlowInv, WriterPanic
<1>2. collector' # "panicked"
  <2>1. collector # "panicked"
    BY DEF OutInv, FlowInv, IInv, DownstreamAlive
  <2> QED
    BY <1>1, <2>1, CollPanicOnly
<1>3. FlowInv'
  BY <1>2, FlowStep DEF OutInv
<1>4. Sends'
  BY <1>1, SendsElsewhere, SendsReceive, SendsResult, SendsStart, SendsNext, SendsRecycle, SendsWrite
  DEF Next, MainNext, CollNext
<1> QED
  BY <1>3, <1>4 DEF OutInv

\* What a writer that panicked has written stays as it is.
LEMMA WriterPanicIsLast ==
  ASSUME writer = "panicked", [Next]_vars
  PROVE  writer' = "panicked" /\ UNCHANGED <<plan, written, write>>
  BY DEF Next, MainNext, CollNext, ReaderTake, ReaderSend, MainAccept, MainReject, MainAnnounce,
     MainPost, MainPosted, MainPanic, MainJoin, WorkerRuns, WorkerTake, WorkerFinish, WorkerExit,
     WorkerPanic, CollNewSlot, CollResult, CollHangup, FlushStart, FlushEnd, FlushSkip, FlushSend,
     FlushRecycle, CollPanic, WriterWrite, WriterExit, WriterPanic, Ended, vars, writerVars,
     WriterGone

LEMMA OutUntilPanic == SafeSpec => [](writer # "panicked" => OutInv)
<1> DEFINE Inv == writer # "panicked" => OutInv
<1>1. Init => Inv
  BY InvInit, FlowInit, SendsInit DEF FlowInv, OutInv
<1>2. Inv /\ [Next]_vars => Inv'
  BY OutStep, WriterPanicIsLast
<1>3. SafeSpec => []Inv
  <2> HIDE DEF Inv
  <2> QED
    BY <1>1, <1>2, PTL DEF SafeSpec
<1> QED
  BY <1>3

-----------------------------------------------------------------------------
(* The serial decoder                                                      *)

\* The productive segments in the terms used here.
LEMMA ProductiveIs ==
  ASSUME IInv
  PROVE  /\ \A c \in Chunks : \A s \in Segs(c) :
              plan[c][s] = "data" => <<c, s>> \in Order!Productive(plan)
         /\ \A x \in Order!Productive(plan) : \E c \in Chunks : \E s \in Segs(c) :
              x = <<c, s>> /\ plan[c][s] = "data"
<1>1. plan \in Seq(Seq({"data", "blank"}))
  BY PlansAssumption DEF IInv, TypeInv, TypeOK
<1>2. DOMAIN plan = Chunks /\ \A c \in Chunks : DOMAIN plan[c] = Segs(c)
  BY <1>1 DEF Chunks, Segs
<1> QED
  BY <1>2 DEF Order!Productive, Order!Segments

LEMMA OutInvOrdered == OutInv => OutputOrdered
<1> SUFFICES ASSUME OutInv PROVE OutputOrdered
  OBVIOUS
<1> USE DEF OutInv, FlowInv, Sends
<1>1. \A i, j \in DOMAIN Out : i < j => Order!Precedes(Out[i], Out[j])
  BY DEF OutIsPassed, Before, Order!Precedes
<1>2. ASSUME NEW i \in DOMAIN Out, NEW x \in Order!Productive(plan), Order!Precedes(x, Out[i])
      PROVE  \E j \in DOMAIN Out : Out[j] = x
  <2>1. PICK d \in Chunks : \E t \in Segs(d) : x = <<d, t>> /\ plan[d][t] = "data"
    BY ProductiveIs
  <2>2. PICK t \in Segs(d) : x = <<d, t>> /\ plan[d][t] = "data"
    BY <2>1
  <2>3. PICK c \in Chunks : \E s \in Segs(c) : Out[i] = <<c, s>> /\ PassedData(c, s)
    BY DEF OutIsPassed
  <2>4. PICK s \in Segs(c) : Out[i] = <<c, s>> /\ PassedData(c, s)
    BY <2>3
  <2>5. Before(d, t, c, s)
    BY <1>2, <2>2, <2>4 DEF Before, Order!Precedes
  <2>6. Passed(d, t)
    BY <2>4, <2>5, PassedFirst DEF PassedData
  <2> QED
    BY <2>2, <2>6 DEF OutIsPassed, PassedData
<1> QED
  BY <1>1, <1>2 DEF OutputOrdered, Out

\* A writer that panics takes the end of the output with it, and what is in
\* the file is the beginning of what was in order before.
LEMMA PanicKeepsOrder ==
  ASSUME OutInv, WriterPanic
  PROVE  OutputOrdered'
<1>1. plan' = plan /\ written' = written /\ write' = <<>>
  BY DEF WriterPanic
<1>2. written \in Seq(Chunks \X (Nat \ {0})) /\ write \in Seq(Chunks \X (Nat \ {0}))
  BY OutTypes DEF OutInv, FlowInv
<1>3. /\ Out' = written /\ DOMAIN written \subseteq DOMAIN Out
      /\ \A i \in DOMAIN written : Out[i] = written[i]
      /\ \A i \in DOMAIN written, j \in DOMAIN Out : j < i => j \in DOMAIN written
      /\ DOMAIN Out \subseteq Int
  BY <1>1, <1>2 DEF Out
<1>4. /\ \A i, j \in DOMAIN Out : i < j => Order!Precedes(Out[i], Out[j])
      /\ \A i \in DOMAIN Out : \A s \in Order!Productive(plan) :
           Order!Precedes(s, Out[i]) => \E j \in DOMAIN Out : Out[j] = s
  BY OutInvOrdered DEF OutputOrdered, Out
<1>5. ASSUME NEW i \in DOMAIN written, NEW s \in Order!Productive(plan),
             Order!Precedes(s, written[i])
      PROVE  \E j \in DOMAIN written : written[j] = s
  <2>1. PICK j \in DOMAIN Out : Out[j] = s
    BY <1>3, <1>4, <1>5
  <2>2. /\ Out[i] \in Chunks \X (Nat \ {0}) /\ Out[j] \in Chunks \X (Nat \ {0})
        /\ \A c \in Chunks : c \in Int
    BY <1>2, <1>3, <2>1, OutTypes, Types DEF OutInv, FlowInv, IInv
  <2>3. ~(i < j) /\ i # j
    <3>1. Order!Precedes(Out[j], Out[i])
      BY <1>3, <1>5, <2>1
    <3>2. /\ Out[i][1] \in Int /\ Out[i][2] \in Int
          /\ Out[j][1] \in Int /\ Out[j][2] \in Int
      BY <2>2
    <3>3. ~Order!Precedes(Out[i], Out[j])
      BY <3>1, <3>2 DEF Order!Precedes
    <3>4. i # j
      BY <3>1, <3>3
    <3> QED
      BY <1>3, <1>4, <2>1, <3>3, <3>4
  <2>4. j \in DOMAIN written
    BY <1>3, <2>1, <2>3
  <2> QED
    BY <1>3, <2>1, <2>4
<1>6. \A i, j \in DOMAIN written : i < j => Order!Precedes(written[i], written[j])
  BY <1>3, <1>4
<1> QED
  BY <1>1, <1>3, <1>5, <1>6 DEF OutputOrdered, Out

\* At any time the output is the beginning of that of the serial decoder:
\* strictly in the order of the input and with no segment left out, also
\* when the writer or workers panic.
THEOREM OutputIsOrdered == SafeSpec => []OutputOrdered
<1>1. Init => OutputOrdered
  BY InvInit, FlowInit, SendsInit, OutInvOrdered DEF FlowInv, OutInv
<1> DEFINE Kept == writer # "panicked" => OutInv
<1>2. Kept /\ Kept' /\ OutputOrdered /\ [Next]_vars => OutputOrdered'
  <2> SUFFICES ASSUME OutputOrdered, [Next]_vars, Kept, Kept' PROVE OutputOrdered'
    OBVIOUS
  <2>1. CASE writer' # "panicked"
    <3>1. OutInv'
      BY <2>1
    <3>2. (OutInv => OutputOrdered)'
      BY OutInvOrdered, PTL
    <3> QED
      BY <3>1, <3>2
  <2>2. CASE writer = "panicked"
    BY <2>2, WriterPanicIsLast DEF OutputOrdered
  <2>3. CASE writer # "panicked" /\ writer' = "panicked"
    <3>1. WriterPanic
      BY <2>3 DEF Next, MainNext, CollNext, ReaderTake, ReaderSend, MainAccept, MainReject,
         MainAnnounce, MainPost, MainPosted, MainPanic, MainJoin, WorkerRuns, WorkerTake,
         WorkerFinish, WorkerExit, WorkerPanic, CollNewSlot, CollResult, CollHangup, FlushStart,
         FlushEnd, FlushSkip, FlushSend, FlushRecycle, CollPanic, WriterWrite, WriterExit, Ended,
         vars, writerVars
    <3> QED
      BY <2>3, <3>1, PanicKeepsOrder
  <2> QED
    BY <2>1, <2>2, <2>3
<1>3. SafeSpec => []Kept
  BY OutUntilPanic
<1> QED
  <2> HIDE DEF Kept
  <2> QED
    BY <1>1, <1>2, <1>3, PTL DEF SafeSpec

\* What is written next is the first segment not written yet.
LEMMA WriteEmits ==
  ASSUME OutInv, WriterWrite
  PROVE  Serial!Emit
<1> USE DEF OutInv, FlowInv, Sends
<1> DEFINE n == Len(written) + 1
           x == Out[n]
<1>1. /\ n \in DOMAIN Out /\ DOMAIN written = 1 .. Len(written) /\ Len(written) \in Nat
      /\ \A i \in DOMAIN written : i \in DOMAIN Out /\ Out[i] = written[i]
      /\ \A i \in DOMAIN Out : i <= Len(written) => i \in DOMAIN written
      /\ written' = Append(written, x)
  BY WriteMoves
<1>2. DOMAIN Out = 1 .. Len(Out) /\ Len(Out) \in Nat
  BY OutTypes
<1>3. PICK c \in Chunks : \E s \in Segs(c) : x = <<c, s>> /\ PassedData(c, s)
  BY <1>1 DEF OutIsPassed
<1>4. PICK s \in Segs(c) : x = <<c, s>> /\ PassedData(c, s)
  BY <1>3
<1>5. c \in Nat /\ s \in Nat
  BY Values, Types DEF IInv
<1>6. x \in Order!Productive(plan)
  BY <1>4, ProductiveIs DEF PassedData
<1>7. \A i \in DOMAIN written : written[i] # x
  <2> SUFFICES ASSUME NEW i \in DOMAIN written, written[i] = x PROVE FALSE
    OBVIOUS
  <2>1. i \in DOMAIN Out /\ Out[i] = x /\ i < n
    BY <1>1
  <2>2. Before(c, s, c, s)
    BY <1>1, <1>4, <2>1 DEF OutIsPassed
  <2> QED
    BY <1>5, <2>2 DEF Before
<1>8. ASSUME NEW y \in Order!Productive(plan), y # x, \A i \in DOMAIN written : written[i] # y
      PROVE  Order!Precedes(x, y)
  <2>1. PICK d \in Chunks : \E t \in Segs(d) : y = <<d, t>> /\ plan[d][t] = "data"
    BY ProductiveIs
  <2>2. PICK t \in Segs(d) : y = <<d, t>> /\ plan[d][t] = "data"
    BY <2>1
  <2>3. d \in Nat /\ t \in Nat
    BY Values, Types DEF IInv
  <2>4. CASE Passed(d, t)
    <3>1. PICK i \in DOMAIN Out : Out[i] = y
      BY <2>2, <2>4 DEF OutIsPassed, PassedData
    <3>2. ~(i <= Len(written)) /\ i # n
      BY <1>1, <1>8, <3>1
    <3>3. n < i
      BY <1>1, <1>2, <3>2
    <3>4. Before(c, s, d, t)
      BY <1>1, <1>4, <2>2, <3>1, <3>3 DEF OutIsPassed
    <3> QED
      BY <1>4, <2>2, <3>4 DEF Before, Order!Precedes
  <2>5. CASE ~Passed(d, t)
    <3>1. ~Before(d, t, c, s)
      BY <1>4, <2>5, PassedFirst DEF PassedData
    <3> QED
      BY <1>4, <1>5, <1>8, <2>2, <2>3, <3>1 DEF Before, Order!Precedes
  <2> QED
    BY <2>4, <2>5
<1>9. x \in Serial!Remaining
  BY <1>6, <1>7 DEF Serial!Remaining, Serial!Emitted, Serial!Productive, Serial!Segments,
                    Order!Productive, Order!Segments
<1>10. \A y \in Serial!Remaining \ {x} : Serial!Precedes(x, y)
  BY <1>8 DEF Serial!Remaining, Serial!Emitted, Serial!Productive, Serial!Segments,
              Order!Productive, Order!Segments, Serial!Precedes, Order!Precedes
<1>11. plan' = plan
  BY DEF WriterWrite
<1> QED
  BY <1>1, <1>9, <1>10, <1>11 DEF Serial!Emit

\* The pipeline implements the serial decoder: whatever the number of
\* workers, the capacities and the interleaving, the file receives the
\* segments of the input one by one in their order, each once, up to a
\* panic of the writer if there is one.
THEOREM PipelineIsSerial == SafeSpec => WritesInOrder
<1>1. Init => Serial!Init
  BY DEF Init, Serial!Init
<1>2. (writer # "panicked" => OutInv) /\ [Next]_vars => [Serial!Emit]_(Serial!vars)
  <2> SUFFICES ASSUME writer # "panicked" => OutInv, [Next]_vars
               PROVE  [Serial!Emit]_(Serial!vars)
    OBVIOUS
  <2>1. CASE WriterWrite
    <3>1. writer = "run"
      BY <2>1 DEF WriterWrite
    <3> QED
      BY <2>1, <3>1, WriteEmits
  <2>2. CASE ~WriterWrite
    <3>1. plan' = plan /\ written' = written
      BY <2>2 DEF Next, MainNext, CollNext, ReaderTake, ReaderSend, MainAccept, MainReject,
           MainAnnounce, MainPost, MainPosted, MainPanic, MainJoin, WorkerRuns, WorkerTake,
           WorkerFinish, WorkerExit, WorkerPanic, CollNewSlot, CollResult, CollHangup, FlushStart,
           FlushEnd, FlushSkip, FlushSend, FlushRecycle, CollPanic, WriterExit, WriterPanic, Ended,
           vars, writerVars
    <3> QED
      BY <3>1 DEF Serial!vars
  <2> QED
    BY <2>1, <2>2
<1> QED
  BY <1>1, <1>2, OutUntilPanic, PTL DEF SafeSpec, WritesInOrder, Serial!SafeSpec

-----------------------------------------------------------------------------
(* A normal end: every segment posted has a result or is still on its way, *)
(* unless a worker panicked, and a thread leaves only after the one that   *)
(* feeds it.                                                               *)

ThreadsLast ==
  /\ \A w \in Workers : worker[w] = "exited" => work = <<>> /\ ~MainSends
  /\ work # <<>> => Workers # {}
  /\ collector \in {"final", "exited"} =>
       ~MainSends /\ coll = <<>> /\ \A w \in Workers : WorkerGone(w)
  /\ collector = "exited" => Ready = {}
  /\ writer = "exited" => write = <<>>
  /\ main \in {"join", "done"} => got = Last
  /\ main = "done" => /\ \A w \in Workers : worker[w] = "exited"
                      /\ collector = "exited" /\ writer = "exited"

\* The ids below chunkId are all taken.
IdsDense ==
  /\ \A i \in 0 .. chunkId - 1 : \E c \in Chunks : c <= got /\ plan[c] # <<>> /\ id[c] = i
  /\ main \in {"join", "done"} => \A c \in Chunks : plan[c] # <<>> => id[c] < chunkId

Token(c, s) ==
  \/ \E i \in DOMAIN work : work[i].chunk = c /\ work[i].seg = s
  \/ \E w \in Busy : held[w].chunk = c /\ held[w].seg = s
  \/ \E i \in Returning : coll[i].chunk = c /\ coll[i].seg = s
NoPanic == main # "panicked" /\ \A w \in Workers : worker[w] # "panicked"
Accounted ==
  NoPanic => \A c \in Chunks : \A s \in Segs(c) :
    Unposted(c, s) \/ results[c][s] # 0 \/ Token(c, s)

Placed ==
  main # "panicked" =>
    \A c \in Chunks : c <= got /\ plan[c] # <<>> /\ (main = "announce" => c # got) =>
      buf[c] \in {"queued", "inflight", "drain", "recycled"}

EndInv == OutInv /\ ThreadsLast /\ IdsDense /\ Accounted /\ Placed

LEMMA EndInit == Init => ThreadsLast /\ IdsDense /\ Accounted /\ Placed
<1> SUFFICES ASSUME Init PROVE ThreadsLast /\ IdsDense /\ Accounted /\ Placed
  OBVIOUS
<1>1. IInv
  BY InvInit
<1>2. \A c \in Chunks : c \in Nat /\ c >= 1
  BY <1>1, Types DEF IInv
<1>3. ThreadsLast
  BY DEF Init, ThreadsLast
<1>4. IdsDense
  BY DEF Init, IdsDense
<1>5. got = 0 /\ \A c \in Chunks : c > got
  BY <1>2 DEF Init
<1> QED
  BY <1>2, <1>3, <1>4, <1>5 DEF Accounted, Placed, Unposted

-----------------------------------------------------------------------------
(* The threads                                                             *)

LEMMA LastMain ==
  ASSUME IInv, ThreadsLast, MainNext
  PROVE  ThreadsLast'
<1> USE DEF ThreadsLast
<1>1. Chunks' = Chunks /\ Last' = Last /\ plan' = plan
  BY PlanFrame DEF MainNext, MainAccept, MainReject, MainAnnounce, MainPost, MainPosted, MainPanic,
     MainJoin
<1>2. UNCHANGED <<worker, collector, writer, write>> /\ \A w : WorkerGone(w)' <=> WorkerGone(w)
  BY DEF MainNext, MainAccept, MainReject, MainAnnounce, MainPost, MainPosted, MainPanic,
     MainJoin, workerVars, collVars, writerVars, WorkerGone
<1>3. CASE MainAccept \/ MainReject \/ MainAnnounce \/ MainPost \/ MainPosted
  <2>1. MainSends
    BY <1>3 DEF MainSends, MainAccept, MainReject, MainAnnounce, MainPost, MainPosted
  <2>2. (\A w \in Workers : worker[w] # "exited") /\ collector \notin {"final", "exited"}
    BY <2>1
  <2>3. work' # <<>> => Workers # {}
    BY <1>3 DEF MainAccept, MainReject, MainAnnounce, MainPost, MainPosted
  <2>4. main' \in {"join", "done"} => got' = Last
    <3>1. CASE MainReject \/ MainPosted
      BY <3>1 DEF MainReject, MainPosted
    <3>2. CASE MainAccept \/ MainAnnounce \/ MainPost
      BY <3>2 DEF MainAccept, MainAnnounce, MainPost
    <3> QED
      BY <1>3, <3>1, <3>2
  <2>5. main' # "done"
    BY <1>3 DEF MainAccept, MainReject, MainAnnounce, MainPost, MainPosted
  <2> QED
    BY <1>1, <1>2, <2>2, <2>3, <2>4, <2>5
<1>4. CASE MainPanic \/ MainJoin
  <2>1. /\ UNCHANGED <<got, buf, id, nextWrite, done, work, coll>> /\ ~MainSends'
        /\ main' \in {"join", "done"} => main = "join"
        /\ main' = "done" => /\ \A w \in Workers : worker[w] = "exited"
                             /\ collector = "exited" /\ writer = "exited"
    BY <1>4 DEF MainPanic, MainJoin, MainSends, collVars, workerVars, writerVars
  <2>2. Ready' = Ready
    BY <1>1, <2>1 DEF Ready, InFlightWith
  <2> QED
    BY <1>1, <1>2, <2>1, <2>2
<1> QED
  BY <1>3, <1>4 DEF MainNext

LEMMA LastWorkers ==
  ASSUME IInv, ThreadsLast, NEW w \in Workers, WorkerRuns(w) \/ WorkerPanic(w)
  PROVE  ThreadsLast'
<1> USE DEF ThreadsLast
<1>1. /\ UNCHANGED <<plan, got, buf, id, nextWrite, done, main, collector, writer, write>>
      /\ worker \in [Workers -> {"idle", "busy", "exited", "panicked"}]
      /\ main # "done"
  BY DEF WorkerRuns, WorkerTake, WorkerFinish, WorkerExit, WorkerPanic, mainVars, collVars,
     writerVars, IInv, TypeInv, TypeOK, Running
<1>2. Chunks' = Chunks /\ Last' = Last /\ Ready' = Ready
  BY <1>1, PlanFrame DEF Ready, InFlightWith
<1>3. worker[w] \in {"idle", "busy"} /\ \A v \in Workers : v # w => worker'[v] = worker[v]
  BY <1>1 DEF WorkerRuns, WorkerTake, WorkerFinish, WorkerExit, WorkerPanic
<1>4. collector \notin {"final", "exited"}
  BY <1>3 DEF WorkerGone
<1>5. work' # <<>> => work # <<>>
  <2>1. work \in Seq(Items)
    BY Types DEF IInv
  <2> QED
    BY <2>1 DEF WorkerRuns, WorkerTake, WorkerFinish, WorkerExit, WorkerPanic
<1>6. worker'[w] = "exited" => work = <<>> /\ ~MainSends
  BY <1>1 DEF WorkerRuns, WorkerTake, WorkerFinish, WorkerExit, WorkerPanic
<1> QED
  BY <1>1, <1>2, <1>3, <1>4, <1>5, <1>6 DEF MainSends

LEMMA LastOthers ==
  ASSUME IInv, ThreadsLast, ~CollPanic,
         ReaderTake \/ ReaderSend \/ CollNext \/ WriterWrite \/ WriterExit \/ Ended \/ UNCHANGED vars
  PROVE  ThreadsLast'
<1> USE DEF ThreadsLast
<1>1. /\ UNCHANGED <<plan, got, main, worker, work, id>> /\ Chunks' = Chunks /\ Last' = Last
      /\ \A w : WorkerGone(w)' <=> WorkerGone(w)
      /\ MainSends' <=> MainSends
  <2>1. UNCHANGED <<plan, got, main, worker, work, id>>
    BY DEF ReaderTake, ReaderSend, CollNext, CollNewSlot, CollResult, CollHangup, FlushStart,
       FlushEnd, FlushSkip, FlushSend, FlushRecycle, CollPanic, WriterWrite, WriterExit, Ended,
       vars, mainVars, workerVars
  <2> QED
    BY <2>1, PlanFrame DEF WorkerGone, MainSends
<1>2. CASE ReaderTake \/ ReaderSend
  <2>1. /\ UNCHANGED <<coll, collector, nextWrite, done, writer, write>> /\ DOMAIN buf = Chunks
        /\ main # "done"
        /\ \E v \in {"read", "filled"} : buf' = [buf EXCEPT ![sent + 1] = v]
    BY <1>2, Types DEF ReaderTake, ReaderSend, collVars, writerVars, Running, IInv
  <2>2. Ready' \subseteq Ready
    BY <1>1, <2>1 DEF Ready, InFlightWith
  <2> QED
    BY <1>1, <2>1, <2>2
<1>3. CASE CollNext
  <2>1. CASE FlushEnd
    <3>1. /\ UNCHANGED <<buf, coll, nextWrite, done, writer, write>> /\ main # "done"
          /\ Ready = {} /\ collector' \in {"recv", "exited"}
          /\ collector' = "exited" => collector = "final"
      BY <2>1 DEF FlushEnd, writerVars, Running
    <3>2. Ready' = Ready
      BY <1>1, <3>1 DEF Ready, InFlightWith
    <3> QED
      BY <1>1, <3>1, <3>2
  <2>2. CASE CollHangup
    BY <1>1, <2>2 DEF CollHangup, writerVars, Running
  <2>3. CASE CollNewSlot \/ CollResult \/ FlushStart \/ FlushSkip \/ FlushSend \/ FlushRecycle
    <3>1. collector' \notin {"final", "exited"} /\ writer' = writer /\ main # "done"
      BY <2>3 DEF CollNewSlot, CollResult, FlushStart, FlushSkip, FlushSend, FlushRecycle,
         writerVars, Running
    <3>2. writer = "exited" => write' = write
      BY <2>3 DEF CollNewSlot, CollResult, FlushStart, FlushSkip, FlushSend, FlushRecycle,
         WriterGone
    <3> QED
      BY <1>1, <3>1, <3>2
  <2> QED
    BY <1>3, <2>1, <2>2, <2>3 DEF CollNext
<1>4. CASE WriterWrite \/ WriterExit \/ Ended \/ UNCHANGED vars
  <2>1. /\ UNCHANGED <<buf, coll, collector, nextWrite, done>>
        /\ writer' = "exited" => write' = <<>>
        /\ main = "done" => writer' = writer
    BY <1>4 DEF WriterWrite, WriterExit, Ended, vars, collVars, writerVars, Running
  <2>2. Ready' = Ready
    BY <1>1, <2>1 DEF Ready, InFlightWith
  <2> QED
    BY <1>1, <2>1, <2>2
<1> QED
  BY <1>2, <1>3, <1>4

-----------------------------------------------------------------------------
(* The ids and the slots                                                   *)

LEMMA DenseStep ==
  ASSUME IInv, IdsDense, [Next]_vars
  PROVE  IdsDense'
<1> USE DEF IdsDense
<1>1. plan' = plan /\ Chunks' = Chunks /\ Last' = Last /\ got \in Nat /\ chunkId \in Nat
      /\ DOMAIN id = Chunks /\ Last \in Nat /\ Chunks = 1 .. Last /\ \A c \in Chunks : id[c] \in Nat
  <2>1. plan' = plan
    BY DEF Next, MainNext, CollNext, ReaderTake, ReaderSend, MainAccept, MainReject,
       MainAnnounce, MainPost, MainPosted, MainPanic, MainJoin, WorkerRuns, WorkerTake,
       WorkerFinish, WorkerExit, WorkerPanic, CollNewSlot, CollResult, CollHangup, FlushStart,
       FlushEnd, FlushSkip, FlushSend, FlushRecycle, CollPanic, WriterWrite, WriterExit,
       WriterPanic, Ended, vars
  <2> QED
    BY <2>1, PlanFrame, Types DEF IInv
<1>2. CASE MainAccept
  <2>1. /\ got' = got + 1 /\ got + 1 \in Chunks /\ chunkId' = chunkId /\ main' = "announce"
        /\ \A c \in Chunks : c <= got => id'[c] = id[c]
    <3>1. sent \in 0 .. Last /\ got < sent
      BY <1>2 DEF MainAccept, IInv, TypeInv, TypeOK
    <3> QED
      BY <1>1, <1>2, <3>1 DEF MainAccept
  <2>2. \A c \in Chunks : c <= got => c <= got + 1
    BY <1>1
  <2> QED
    BY <1>1, <2>1, <2>2
<1>3. CASE MainReject
  <2>1. /\ got' = got + 1 /\ chunkId' = chunkId /\ id' = id /\ main = "recv" /\ plan[got + 1] = <<>>
        /\ main' = IF got + 1 = Last THEN "join" ELSE "recv"
    BY <1>3 DEF MainReject
  <2>2. \A c \in Chunks : c <= got => c <= got + 1
    BY <1>1
  <2>3. main' \in {"join", "done"} => \A c \in Chunks : plan[c] # <<>> => id[c] < chunkId
    <3> SUFFICES ASSUME got + 1 = Last, NEW c \in Chunks, plan[c] # <<>> PROVE id[c] < chunkId
      BY <2>1
    <3>1. c <= got
      BY <1>1, <2>1
    <3> QED
      BY <2>1, <3>1 DEF IInv, IdsUnique
  <2> QED
    BY <1>1, <2>1, <2>2, <2>3
<1>4. CASE MainPosted
  <2>1. /\ got' = got /\ chunkId' = chunkId + 1 /\ id' = id /\ main = "post"
        /\ main' = IF got = Last THEN "join" ELSE "recv"
    BY <1>4 DEF MainPosted
  <2>2. got \in Chunks /\ plan[got] # <<>> /\ id[got] = chunkId
    BY <1>1, <2>1, Types DEF IInv, TypeInv, PostingOpen, IdsUnique
  <2>3. \A i \in 0 .. chunkId : \E c \in Chunks : c <= got /\ plan[c] # <<>> /\ id[c] = i
    <3>1. ASSUME NEW i \in 0 .. chunkId
          PROVE  \E c \in Chunks : c <= got /\ plan[c] # <<>> /\ id[c] = i
      <4>1. CASE i = chunkId
        BY <1>1, <2>2, <4>1
      <4>2. CASE i # chunkId
        <5>1. i \in 0 .. chunkId - 1
          BY <1>1, <4>2
        <5> QED
          BY <5>1
      <4> QED
        BY <4>1, <4>2
    <3> QED
      BY <3>1
  <2>4. main' \in {"join", "done"} => \A c \in Chunks : plan[c] # <<>> => id[c] < chunkId + 1
    <3> SUFFICES ASSUME got = Last, NEW c \in Chunks, plan[c] # <<>> PROVE id[c] < chunkId + 1
      BY <2>1
    <3>1. CASE c = got
      BY <1>1, <2>2, <3>1
    <3>2. CASE c < got
      <4>1. id[c] < chunkId
        BY <2>1, <3>2 DEF IInv, IdsUnique
      <4> QED
        BY <1>1, <4>1
    <3> QED
      BY <1>1, <3>1, <3>2
  <2>5. (chunkId + 1) - 1 = chunkId
    BY <1>1
  <2> QED
    BY <1>1, <2>1, <2>3, <2>4, <2>5
<1>5. CASE ~(MainAccept \/ MainReject \/ MainPosted)
  <2>1. UNCHANGED <<got, chunkId, id>> /\ (main' \in {"join", "done"} => main \in {"join", "done"})
    BY <1>5 DEF Next, MainNext, CollNext, ReaderTake, ReaderSend,
       MainAnnounce, MainPost, MainPanic, MainJoin, WorkerRuns, WorkerTake,
       WorkerFinish, WorkerExit, WorkerPanic, CollNewSlot, CollResult, CollHangup, FlushStart,
       FlushEnd, FlushSkip, FlushSend, FlushRecycle, CollPanic, WriterWrite, WriterExit,
       WriterPanic, Ended, vars, mainVars
  <2> QED
    BY <1>1, <2>1
<1> QED
  BY <1>2, <1>3, <1>4, <1>5

LEMMA PlacedStep ==
  ASSUME OutInv, Placed, [Next]_vars, ~CollPanic
  PROVE  Placed'
<1> USE DEF OutInv, FlowInv
<1> DEFINE Slots == {"queued", "inflight", "drain", "recycled"}
<1>1. plan' = plan /\ Chunks' = Chunks /\ got \in Nat /\ sent \in Nat /\ got <= sent
      /\ DOMAIN buf = Chunks /\ Chunks = 1 .. Last /\ Last \in Nat
      /\ (main = "panicked" => main' = "panicked")
  <2>1. plan' = plan /\ (main = "panicked" => main' = "panicked")
    BY DEF Next, MainNext, CollNext, ReaderTake, ReaderSend, MainAccept, MainReject,
       MainAnnounce, MainPost, MainPosted, MainPanic, MainJoin, WorkerRuns, WorkerTake,
       WorkerFinish, WorkerExit, WorkerPanic, CollNewSlot, CollResult, CollHangup, FlushStart,
       FlushEnd, FlushSkip, FlushSend, FlushRecycle, CollPanic, WriterWrite, WriterExit,
       WriterPanic, Ended, vars, mainVars
  <2> QED
    BY <2>1, PlanFrame, Types DEF IInv
<1>2. CASE MainAccept \/ MainReject
  <2>1. /\ got' = got + 1 /\ main = "recv"
        /\ \A c \in Chunks : c # got + 1 => buf'[c] = buf[c]
        /\ plan[got + 1] = <<>> \/ main' = "announce"
    BY <1>1, <1>2 DEF MainAccept, MainReject
  <2>2. \A c \in Chunks : c <= got + 1 /\ c # got + 1 => c <= got
    BY <1>1
  <2> QED
    BY <1>1, <2>1, <2>2 DEF Placed
<1>3. CASE MainAnnounce
  BY <1>1, <1>3 DEF MainAnnounce, Placed
<1>4. CASE ReaderTake \/ ReaderSend
  <2>1. /\ UNCHANGED <<got, main>> /\ \A c \in Chunks : c # sent + 1 => buf'[c] = buf[c]
    BY <1>1, <1>4 DEF ReaderTake, ReaderSend, mainVars
  <2>2. \A c \in Chunks : c <= got => c # sent + 1
    BY <1>1
  <2> QED
    BY <1>1, <2>1, <2>2 DEF Placed
<1>5. CASE CollNext
  <2>1. UNCHANGED <<got, main>>
    BY <1>5 DEF CollNext, CollNewSlot, CollResult, CollHangup, FlushStart,
       FlushEnd, FlushSkip, FlushSend, FlushRecycle, CollPanic, mainVars
  <2>2. \A c \in Chunks : buf'[c] # buf[c] => buf'[c] \in Slots
    BY <1>1, <1>5 DEF CollNext, CollNewSlot, CollResult, CollHangup, FlushStart,
       FlushEnd, FlushSkip, FlushSend, FlushRecycle
  <2> QED
    BY <1>1, <2>1, <2>2 DEF Placed
<1>6. CASE ~(MainAccept \/ MainReject \/ MainAnnounce \/ ReaderTake \/ ReaderSend \/ CollNext)
  <2>1. UNCHANGED <<got, buf>> /\ (main' = main \/ (main # "announce" /\ main' # "announce")
                                   \/ main' = "panicked")
    BY <1>6 DEF Next, MainNext, MainPost, MainPosted, MainPanic, MainJoin, WorkerRuns, WorkerTake,
       WorkerFinish, WorkerExit, WorkerPanic, WriterWrite, WriterExit, WriterPanic, Ended, vars,
       mainVars
  <2> QED
    BY <1>1, <2>1 DEF Placed
<1> QED
  BY <1>2, <1>3, <1>4, <1>5, <1>6

-----------------------------------------------------------------------------
(* The segments                                                            *)

LEMMA AccountedFrame ==
  ASSUME Accounted, plan' = plan, NoPanic' => NoPanic,
         NoPanic' => \A c \in Chunks : \A s \in Segs(c) :
           /\ Unposted(c, s) => Unposted(c, s)' \/ Token(c, s)'
           /\ results[c][s] # 0 => results'[c][s] # 0
           /\ Token(c, s) => Token(c, s)' \/ results'[c][s] # 0
  PROVE  Accounted'
  BY PlanFrame DEF Accounted

LEMMA AccountedMain ==
  ASSUME IInv, Accounted, MainNext
  PROVE  Accounted'
<1>1. /\ plan' = plan /\ got \in Nat /\ nextSeg \in Nat /\ Chunks \subseteq Nat
      /\ \A c \in Chunks : Len(plan[c]) \in Nat
      /\ UNCHANGED <<worker, held, results>> /\ main # "panicked"
  <2>1. plan' = plan /\ UNCHANGED <<worker, held, results>> /\ main # "panicked"
    BY DEF MainNext, MainAccept, MainReject, MainAnnounce, MainPost, MainPosted, MainPanic,
       MainJoin, workerVars, collVars
  <2> QED
    BY <2>1, Types DEF IInv
<1>2. Busy' = Busy /\ (NoPanic' => NoPanic)
  BY <1>1 DEF Busy, NoPanic
<1>3. \A c \in Chunks : \A s \in Segs(c) : Token(c, s) => Token(c, s)'
  <2>1. CASE MainAnnounce
    <3>1. \A i \in DOMAIN coll : i \in DOMAIN coll' /\ coll'[i] = coll[i]
      BY <2>1, Types DEF MainAnnounce, IInv
    <3>2. work' = work
      BY <2>1 DEF MainAnnounce
    <3> QED
      BY <1>1, <1>2, <3>1, <3>2 DEF Token, Returning
  <2>2. CASE MainPost
    <3>1. \A i \in DOMAIN work : i \in DOMAIN work' /\ work'[i] = work[i]
      BY <2>2, Types DEF MainPost, IInv
    <3>2. coll' = coll
      BY <2>2 DEF MainPost
    <3> QED
      BY <1>1, <1>2, <3>1, <3>2 DEF Token, Returning
  <2>3. CASE ~(MainAnnounce \/ MainPost)
    <3>1. UNCHANGED <<work, coll>>
      BY <2>3 DEF MainNext, MainAccept, MainReject, MainPosted, MainPanic, MainJoin
    <3> QED
      BY <1>1, <1>2, <3>1 DEF Token, Returning
  <2> QED
    BY <2>1, <2>2, <2>3
<1>4. ASSUME NoPanic', NEW c \in Chunks, NEW s \in Segs(c), Unposted(c, s)
      PROVE  Unposted(c, s)' \/ Token(c, s)'
  <2>1. c \in Nat /\ s \in Nat /\ s >= 1 /\ s <= Len(plan[c]) /\ Len(plan[c]) \in Nat
    BY <1>1 DEF Segs
  <2>2. ~MainPanic
    BY <1>4 DEF NoPanic, MainPanic
  <2>3. CASE MainAccept
    BY <1>1, <1>4, <2>1, <2>3 DEF MainAccept, Unposted
  <2>4. CASE MainReject
    <3>1. c # got + 1
      BY <2>1, <2>4, PlanFacts DEF MainReject
    <3> QED
      BY <1>1, <1>4, <2>1, <2>4, <3>1 DEF MainReject, Unposted
  <2>5. CASE MainAnnounce
    BY <1>1, <1>4, <2>1, <2>5 DEF MainAnnounce, Unposted
  <2>6. CASE MainPost
    <3>1. CASE c = got /\ s = nextSeg
      <4>1. /\ Len(work) + 1 \in DOMAIN work'
            /\ work'[Len(work) + 1] = [id |-> id[got], chunk |-> got, seg |-> nextSeg]
        BY <2>6, Types DEF MainPost, IInv
      <4> QED
        BY <3>1, <4>1 DEF Token
    <3>2. CASE ~(c = got /\ s = nextSeg)
      BY <1>1, <1>4, <2>1, <2>6, <3>2 DEF MainPost, Unposted
    <3> QED
      BY <3>1, <3>2
  <2>7. CASE MainPosted \/ MainJoin
    BY <1>1, <1>4, <2>1, <2>7 DEF MainPosted, MainJoin, Unposted
  <2> QED
    BY <2>2, <2>3, <2>4, <2>5, <2>6, <2>7 DEF MainNext
<1> QED
  BY <1>1, <1>2, <1>3, <1>4, AccountedFrame

LEMMA AccountedWorkers ==
  ASSUME IInv, ThreadsLast, Accounted, NEW w \in Workers, WorkerRuns(w) \/ WorkerPanic(w)
  PROVE  Accounted'
<1>1. /\ UNCHANGED <<plan, got, main, nextSeg, results>>
      /\ worker \in [Workers -> {"idle", "busy", "exited", "panicked"}]
      /\ held \in [Workers -> Items \cup {NoItem}]
  BY DEF WorkerRuns, WorkerTake, WorkerFinish, WorkerExit, WorkerPanic, mainVars, collVars,
     IInv, TypeInv, TypeOK
<1>2. \A c, s : Unposted(c, s)' <=> Unposted(c, s)
  BY <1>1 DEF Unposted
<1>3. CASE WorkerPanic(w)
  <2>1. ~NoPanic'
    BY <1>1, <1>3 DEF WorkerPanic, NoPanic
  <2> QED
    BY <2>1 DEF Accounted
<1>4. CASE WorkerRuns(w)
  <2>1. NoPanic' => NoPanic
    <3>1. \A v \in Workers : worker[v] = "panicked" => worker'[v] = "panicked"
      BY <1>1, <1>4 DEF WorkerRuns, WorkerTake, WorkerFinish, WorkerExit
    <3> QED
      BY <1>1, <3>1 DEF NoPanic
  <2>2. \A v \in Busy : v # w => v \in Busy' /\ held'[v] = held[v]
    BY <1>1, <1>4 DEF WorkerRuns, WorkerTake, WorkerFinish, WorkerExit, Busy
  <2>3. ASSUME NEW c \in Chunks, NEW s \in Segs(c), Token(c, s) PROVE Token(c, s)'
    <3>1. CASE WorkerTake(w)
      <4>1. /\ 1 \in DOMAIN work /\ work[1] = Head(work)
            /\ \A i \in DOMAIN work : i # 1 => i - 1 \in DOMAIN work' /\ work'[i - 1] = work[i]
        BY <3>1, Types DEF WorkerTake, IInv
      <4>2. /\ w \in Busy' /\ held'[w] = work[1] /\ w \notin Busy
        BY <1>1, <3>1, <4>1 DEF WorkerTake, Busy
      <4>3. Returning' = Returning /\ coll' = coll
        BY <3>1 DEF WorkerTake, Returning
      <4> QED
        BY <2>2, <2>3, <4>1, <4>2, <4>3 DEF Token
    <3>2. CASE WorkerFinish(w)
      <4>1. w \in Busy /\ work' = work
        BY <3>2 DEF WorkerFinish, Busy
      <4>2. ~CollGone
        BY <3>2 DEF WorkerFinish, ThreadsLast, WorkerGone, CollGone, IInv, DownstreamAlive
      <4>3. /\ \A i \in DOMAIN coll : i \in DOMAIN coll' /\ coll'[i] = coll[i]
            /\ Len(coll) + 1 \in Returning'
            /\ coll'[Len(coll) + 1].chunk = held[w].chunk /\ coll'[Len(coll) + 1].seg = held[w].seg
        <5> DEFINE m == [kind |-> "result", id |-> held[w].id, chunk |-> held[w].chunk,
                         seg |-> held[w].seg]
        <5>1. coll' = Append(coll, m)
          BY <3>2, <4>2 DEF WorkerFinish
        <5> QED
          BY <5>1, CollAppend DEF Returning
      <4>4. \A i \in Returning : i \in Returning' /\ coll'[i] = coll[i]
        BY <4>3 DEF Returning
      <4> QED
        BY <2>2, <2>3, <4>1, <4>3, <4>4 DEF Token
    <3>3. CASE WorkerExit(w)
      <4>1. w \notin Busy /\ UNCHANGED <<work, coll>> /\ Returning' = Returning
        BY <3>3 DEF WorkerExit, Busy, Returning
      <4> QED
        BY <2>2, <2>3, <4>1 DEF Token
    <3> QED
      BY <1>4, <3>1, <3>2, <3>3 DEF WorkerRuns
  <2> QED
    BY <1>1, <1>2, <2>1, <2>3, AccountedFrame
<1> QED
  BY <1>3, <1>4

\* A result finds its slot, so its token is exchanged for it.
LEMMA AccountedResult ==
  ASSUME FlowInv, Accounted, CollResult
  PROVE  Accounted'
<1> USE DEF FlowInv
<1>1. UNCHANGED <<plan, got, main, nextSeg, work, worker, held>> /\ coll # <<>> /\ coll' = Tail(coll)
  BY DEF CollResult, mainVars, workerVars
<1>2. /\ \A c, s : Unposted(c, s)' <=> Unposted(c, s)
      /\ NoPanic' <=> NoPanic
      /\ Busy' = Busy
  BY <1>1 DEF Unposted, NoPanic, Busy
<1>3. 1 \in Returning /\ coll[1] = Head(coll) /\ 1 \in DOMAIN coll
  BY CollTail DEF CollResult, Returning
<1>4. TokenOK(coll[1]) /\ coll[1].chunk \in Chunks /\ coll[1].seg \in Segs(coll[1].chunk)
  BY <1>3, TokenChunks DEF TokensOK, TokenOK, Returning, IInv
<1>5. coll[1].chunk \in InFlightWith(coll[1].id)
  <2>1. buf[coll[1].chunk] # "queued"
    BY <1>3 DEF QueueOrdered, Returning
  <2>2. buf[coll[1].chunk] = "inflight"
    BY <1>3, <2>1 DEF ResultsAwaited
  <2> QED
    BY <1>4, <2>2 DEF InFlightWith, TokenOK
<1>6. results' = [results EXCEPT ![coll[1].chunk][coll[1].seg] = coll[1].chunk]
  <2>1. plan[coll[1].chunk] # <<>> /\ coll[1].chunk <= got
    BY <1>3, <1>4 DEF RegisteredAnnounced, Returning, Announced, TokenOK, IInv
  <2>2. ASSUME NEW c \in InFlightWith(coll[1].id) PROVE c = coll[1].chunk
    <3>1. c \in Chunks /\ id[c] = id[coll[1].chunk] /\ c <= got /\ plan[c] # <<>>
      BY <1>4, <2>2 DEF InFlightWith, TokenOK, RegisteredAnnounced, Announced, IInv
    <3> QED
      BY <1>4, <2>1, <3>1, IdsGrow
  <2> QED
    BY <1>3, <1>5, <2>2 DEF CollResult
<1>7. /\ results'[coll[1].chunk][coll[1].seg] # 0
      /\ \A c \in Chunks : \A s \in Segs(c) : results[c][s] # 0 => results'[c][s] # 0
  <2>1. coll[1].chunk # 0
    BY <1>4, Types DEF IInv
  <2> QED
    BY <1>4, <1>6, <2>1, Types DEF IInv
<1>8. \A i \in Returning : i # 1 => i - 1 \in Returning' /\ coll'[i - 1] = coll[i]
  <2>1. coll \in Seq(Messages)
    BY Types DEF IInv
  <2>2. \A i \in DOMAIN coll : i # 1 => i - 1 \in DOMAIN coll' /\ coll'[i - 1] = coll[i]
    BY <1>1, <2>1
  <2> QED
    BY <2>2 DEF Returning
<1>9. ASSUME NEW c \in Chunks, NEW s \in Segs(c), Token(c, s)
      PROVE  Token(c, s)' \/ results'[c][s] # 0
  <2>1. CASE \E i \in Returning : coll[i].chunk = c /\ coll[i].seg = s
    <3>1. PICK i \in Returning : coll[i].chunk = c /\ coll[i].seg = s
      BY <2>1
    <3> QED
      BY <1>7, <1>8, <3>1 DEF Token
  <2>2. CASE ~\E i \in Returning : coll[i].chunk = c /\ coll[i].seg = s
    BY <1>1, <1>2, <1>9, <2>2 DEF Token
  <2> QED
    BY <2>1, <2>2
<1> QED
  BY <1>1, <1>2, <1>7, <1>9, AccountedFrame

LEMMA AccountedOthers ==
  ASSUME IInv, Accounted,
         \/ ReaderTake \/ ReaderSend \/ CollNewSlot \/ CollHangup \/ FlushStart \/ FlushEnd
         \/ FlushSkip \/ FlushSend \/ FlushRecycle \/ WriterWrite \/ WriterExit
         \/ Ended \/ UNCHANGED vars
  PROVE  Accounted'
<1>1. UNCHANGED <<plan, got, main, nextSeg, work, worker, held, results>>
  BY DEF ReaderTake, ReaderSend, CollNewSlot, CollHangup, FlushStart, FlushEnd, FlushSkip,
     FlushSend, FlushRecycle, WriterWrite, WriterExit, Ended, vars, mainVars, workerVars, collVars
<1>2. /\ \A c, s : Unposted(c, s)' <=> Unposted(c, s)
      /\ NoPanic' <=> NoPanic
      /\ Busy' = Busy
  BY <1>1 DEF Unposted, NoPanic, Busy
<1>3. \A c, s : Token(c, s) => Token(c, s)'
  <2>1. CASE CollNewSlot
    <3>1. coll \in Seq(Messages) /\ coll # <<>> /\ coll' = Tail(coll) /\ coll[1].kind = "slot"
      BY <2>1, Types DEF IInv, CollNewSlot
    <3>2. \A i \in DOMAIN coll : i # 1 => i - 1 \in DOMAIN coll' /\ coll'[i - 1] = coll[i]
      BY <3>1
    <3>3. \A i \in Returning : i - 1 \in Returning' /\ coll'[i - 1] = coll[i]
      BY <3>1, <3>2 DEF Returning
    <3> QED
      BY <1>1, <1>2, <3>3 DEF Token
  <2>2. CASE ~CollNewSlot
    <3>1. coll' = coll
      BY <2>2 DEF ReaderTake, ReaderSend, CollHangup, FlushStart, FlushEnd, FlushSkip,
         FlushSend, FlushRecycle, WriterWrite, WriterExit, Ended, vars
    <3> QED
      BY <1>1, <1>2, <3>1 DEF Token, Returning
  <2> QED
    BY <2>1, <2>2
<1> QED
  BY <1>1, <1>2, <1>3, AccountedFrame

LEMMA EndStep == EndInv /\ [Next]_vars /\ writer' # "panicked" => EndInv'
<1> SUFFICES ASSUME EndInv, [Next]_vars, writer' # "panicked" PROVE EndInv'
  OBVIOUS
<1> USE DEF EndInv, OutInv, FlowInv
<1>1. OutInv'
  BY OutStep
<1>2. ~CollPanic /\ ~WriterPanic
  BY NoCollPanic DEF WriterPanic
<1>3. ThreadsLast'
  BY <1>2, LastMain, LastWorkers, LastOthers DEF Next
<1>4. IdsDense' /\ Placed'
  BY <1>2, DenseStep, PlacedStep
<1>5. Accounted'
  BY <1>2, AccountedMain, AccountedWorkers, AccountedResult, AccountedOthers DEF Next, CollNext
<1> QED
  BY <1>1, <1>3, <1>4, <1>5

\* main returns only after it joined a writer that did not panic.
LEMMA DoneIsJoined == SafeSpec => [](main = "done" => writer = "exited")
<1> DEFINE Joined == main = "done" => writer = "exited"
<1>1. Init => Joined
  BY DEF Init
<1>2. Joined /\ [Next]_vars => Joined'
  BY DEF Running, Next, MainNext, CollNext, ReaderTake, ReaderSend, MainAccept, MainReject,
     MainAnnounce, MainPost, MainPosted, MainPanic, MainJoin, WorkerRuns, WorkerTake, WorkerFinish,
     WorkerExit, WorkerPanic, CollNewSlot, CollResult, CollHangup, FlushStart, FlushEnd, FlushSkip,
     FlushSend, FlushRecycle, CollPanic, WriterWrite, WriterExit, WriterPanic, Ended, vars, mainVars,
     writerVars
<1>3. SafeSpec => []Joined
  <2> HIDE DEF Joined
  <2> QED
    BY <1>1, <1>2, PTL DEF SafeSpec
<1> QED
  BY <1>3

\* A run of lbunzip2 that ends without a panic has written the whole output,
\* whatever failed on the way: a worker that panics takes its segment with
\* it, and main with it, as the writer does.  With no worker at all
\* (LBZIP2_THREADS=0) a normal end is one of an input without output.
THEOREM NormalEndIsComplete == SafeSpec => []DoneMeansComplete
<1> DEFINE Inv == writer # "panicked" => EndInv
<1>1. Init => Inv
  BY InvInit, FlowInit, SendsInit, EndInit DEF FlowInv, OutInv, EndInv
<1>2. Inv /\ [Next]_vars => Inv'
  BY EndStep, WriterPanicIsLast
<1>3. EndInv => DoneMeansComplete
  <2> SUFFICES ASSUME EndInv, main = "done"
               PROVE  {written[i] : i \in DOMAIN written} = Order!Productive(plan)
    BY DEF DoneMeansComplete
  <2> USE DEF EndInv, OutInv, FlowInv, Sends
  <2>1. /\ \A w \in Workers : worker[w] = "exited"
        /\ collector = "exited" /\ writer = "exited" /\ got = Last
        /\ coll = <<>> /\ write = <<>> /\ Ready = {}
    BY DEF ThreadsLast
  <2>2. work = <<>>
    BY <2>1 DEF ThreadsLast
  <2>3. \A c \in Chunks : c \in Nat /\ c <= got /\ Len(plan[c]) \in Nat
    BY <2>1, Types DEF IInv
  <2>4. ASSUME NEW c \in Chunks, NEW s \in Segs(c) PROVE results[c][s] # 0
    <3>1. NoPanic
      BY <2>1 DEF NoPanic
    <3>2. ~Unposted(c, s)
      BY <2>1, <2>3, Types DEF Unposted, IInv
    <3>3. ~Token(c, s)
      BY <2>1, <2>2 DEF Token, Busy, Returning
    <3> QED
      BY <3>1, <3>2, <3>3 DEF Accounted
  <2>5. \A c \in Chunks : done[c] >= Len(plan[c])
    <3>1. ASSUME NEW c \in Chunks PROVE done[c] >= Len(plan[c])
      <4>1. Present(c) = 1 .. Len(plan[c])
        BY <2>4 DEF Present, Segs
      <4>2. Cardinality(1 .. Len(plan[c])) = Len(plan[c])
        <5>1. 1 \in Int /\ Len(plan[c]) \in Int /\ Len(plan[c]) >= 0
          BY <2>3
        <5> QED
          BY <5>1, FS_Interval
      <4> QED
        BY <2>3, <4>1, <4>2 DEF IInv, DoneCounts
    <3> QED
      BY <3>1
  <2>6. ASSUME NEW c \in Chunks, plan[c] # <<>>, buf[c] # "recycled" PROVE buf[c] = "inflight"
    <3>1. buf[c] \in {"queued", "inflight", "drain"}
      BY <2>3, <2>6 DEF Placed
    <3>2. buf[c] # "queued"
      BY <2>1 DEF QueueOrdered
    <3>3. buf[c] # "drain"
      BY <2>1 DEF DrainsOne
    <3> QED
      BY <3>1, <3>2, <3>3
  <2>7. ASSUME NEW c \in Chunks, plan[c] # <<>> PROVE buf[c] = "recycled"
    <3>1. SUFFICES ASSUME buf[c] # "recycled" PROVE FALSE
      OBVIOUS
    <3>2. ~(id[c] < nextWrite) /\ id[c] < chunkId
      BY <2>3, <2>7, <3>1 DEF TurnsKept, IdsDense
    <3>3. nextWrite \in 0 .. chunkId - 1
      BY <3>2, Types, OutTypes DEF IInv
    <3>4. PICK d \in Chunks : d <= got /\ plan[d] # <<>> /\ id[d] = nextWrite
      BY <3>3 DEF IdsDense
    <3>5. buf[d] # "recycled"
      BY <3>3, <3>4 DEF TurnsKept
    <3>6. d \in Ready
      BY <2>5, <2>6, <3>4, <3>5 DEF Ready, InFlightWith
    <3> QED
      BY <2>1, <3>6
  <2>8. Out = written
    <3>1. written \in Seq(Chunks \X (Nat \ {0}))
      BY OutTypes
    <3> QED
      BY <2>1, <3>1 DEF Out
  <2>9. \A i \in DOMAIN written : written[i] \in Order!Productive(plan)
    BY <2>8, ProductiveIs DEF OutIsPassed, PassedData
  <2>10. ASSUME NEW x \in Order!Productive(plan) PROVE \E i \in DOMAIN written : written[i] = x
    <3>1. PICK c \in Chunks : \E s \in Segs(c) : x = <<c, s>> /\ plan[c][s] = "data"
      BY ProductiveIs
    <3>2. PICK s \in Segs(c) : x = <<c, s>> /\ plan[c][s] = "data"
      BY <3>1
    <3>3. PassedData(c, s)
      BY <2>7, <3>2, Values DEF PassedData, Passed
    <3> QED
      BY <2>8, <3>2, <3>3 DEF OutIsPassed
  <2> QED
    BY <2>9, <2>10
<1>4. Inv /\ (main = "done" => writer = "exited") => DoneMeansComplete
  BY <1>3 DEF DoneMeansComplete
<1>5. SafeSpec => []Inv
  <2> HIDE DEF Inv
  <2> QED
    BY <1>1, <1>2, PTL DEF SafeSpec
<1> QED
  <2> HIDE DEF Inv
  <2> QED
    BY <1>4, <1>5, DoneIsJoined, PTL

\* Whatever has happened to the writer, the slot that is drained is the next
\* one, and a collector that was unwound has freed it.
DrainTurn ==
  /\ collector = "drain" => id[drained.chunk] = nextWrite
  /\ collector = "panicked" => \A c \in Chunks : buf[c] # "drain"

LEMMA DrainTurnAlways == SafeSpec => []DrainTurn
<1>1. Init => DrainTurn
  BY DEF Init, DrainTurn
<1>2. ASSUME DrainTurn, TypeInv, collector # "panicked" => FlowInv, [Next]_vars PROVE DrainTurn'
  <2>1. plan' = plan /\ Chunks' = Chunks
    BY <1>2, PlanFrame DEF Next, MainNext, CollNext, ReaderTake, ReaderSend, MainAccept, MainReject,
       MainAnnounce, MainPost, MainPosted, MainPanic, MainJoin, WorkerRuns, WorkerTake,
       WorkerFinish, WorkerExit, WorkerPanic, CollNewSlot, CollResult, CollHangup, FlushStart,
       FlushEnd, FlushSkip, FlushSend, FlushRecycle, CollPanic, WriterWrite, WriterExit,
       WriterPanic, Ended, vars
  <2>2. CASE collector = "panicked"
    <3>1. collector' = "panicked"
      BY <1>2, <2>2, CollPanicIsLast
    <3>2. \A c \in Chunks : buf'[c] = "drain" => buf[c] = "drain"
      BY <1>2, <2>2, Types DEF Next, MainNext, CollNext, ReaderTake, ReaderSend, MainAccept,
         MainReject, MainAnnounce, MainPost, MainPosted, MainPanic, MainJoin, WorkerRuns,
         WorkerTake, WorkerFinish, WorkerExit, WorkerPanic, CollNewSlot, CollResult, CollHangup,
         FlushStart, FlushEnd, FlushSkip, FlushSend, FlushRecycle, CollPanic, WriterWrite,
         WriterExit, WriterPanic, Ended, vars
    <3> QED
      BY <1>2, <2>1, <2>2, <3>1, <3>2 DEF DrainTurn
  <2>3. CASE collector # "panicked" /\ CollPanic
    <3>1. collector' = "panicked" /\ \A c \in Chunks : buf'[c] # "drain"
      BY <2>3 DEF CollPanic
    <3> QED
      BY <2>1, <3>1 DEF DrainTurn
  <2>4. CASE collector # "panicked" /\ FlushStart
    <3>1. PICK c \in Ready : drained' = [chunk |-> c, seg |-> 1]
      BY <2>4 DEF FlushStart
    <3>2. id[c] = nextWrite /\ drained'.chunk = c /\ id' = id /\ nextWrite' = nextWrite
          /\ collector' = "drain"
      BY <2>4, <3>1 DEF FlushStart, Ready, InFlightWith, mainVars
    <3> QED
      BY <3>2 DEF DrainTurn
  <2>5. CASE collector # "panicked" /\ (FlushSkip \/ FlushSend)
    <3>1. drained \in [chunk : 0 .. Last, seg : Nat \ {0}]
      BY <1>2, <2>5 DEF FlowInv, IInv, TypeInv, TypeOK
    <3>2. /\ drained' = [drained EXCEPT !.seg = @ + 1]
          /\ collector = "drain" /\ UNCHANGED <<id, nextWrite, collector>>
      BY <2>5 DEF FlushSkip, FlushSend, mainVars
    <3>3. drained'.chunk = drained.chunk
      BY <3>1, <3>2
    <3> QED
      BY <1>2, <3>2, <3>3 DEF DrainTurn
  <2>6. CASE collector # "panicked" /\ MainAccept
    <3>1. /\ UNCHANGED <<collector, drained, nextWrite>> /\ got < sent
          /\ id' = [id EXCEPT ![got + 1] = chunkId]
      BY <2>6 DEF MainAccept, collVars
    <3>2. collector = "drain" => drained.chunk # got + 1
      <4>1. SUFFICES ASSUME collector = "drain" PROVE drained.chunk # got + 1
        OBVIOUS
      <4>2. drained.chunk \in Chunks /\ buf[drained.chunk] = "drain"
        BY <1>2, <2>6, <4>1, Types DEF FlowInv, IInv, DrainedHeld
      <4>3. drained.chunk <= got /\ got \in Nat
        BY <1>2, <2>6, <4>2, Types DEF FlowInv, IInv, RegisteredAnnounced, Announced
      <4> QED
        BY <4>2, <4>3
    <3>3. id \in [Chunks -> Nat] /\ (collector = "drain" => drained.chunk \in Chunks)
      BY <1>2, <2>6, Types DEF FlowInv, IInv
    <3> QED
      BY <1>2, <2>6, <3>1, <3>2, <3>3 DEF DrainTurn
  <2>7. CASE /\ collector # "panicked"
             /\ ~(CollPanic \/ FlushStart \/ FlushSkip \/ FlushSend \/ MainAccept)
    <3>1. \/ UNCHANGED <<id, nextWrite, drained, collector>>
          \/ collector' \notin {"drain", "panicked"}
      BY <1>2, <2>7 DEF Next, MainNext, CollNext, ReaderTake, ReaderSend, MainReject,
         MainAnnounce, MainPost, MainPosted, MainPanic, MainJoin, WorkerRuns, WorkerTake,
         WorkerFinish, WorkerExit, WorkerPanic, CollNewSlot, CollResult, CollHangup,
         FlushEnd, FlushRecycle, WriterWrite, WriterExit, WriterPanic, Ended, vars, mainVars, collVars
    <3> QED
      BY <1>2, <2>7, <3>1 DEF DrainTurn
  <2> QED
    BY <2>2, <2>3, <2>4, <2>5, <2>6, <2>7
<1> QED
  BY <1>1, <1>2, InitType, TypeStep, FlowUntilUnwound, PTL DEF SafeSpec

\* The collector gives a slot back in its turn, next_write_id, and behind the
\* last productive segment of its chunk.
THEOREM SlotsRecycledInOrder == SafeSpec => RecycledInOrder
<1> DEFINE Recycles ==
      \A c \in Chunks : buf[c] = "drain" /\ buf'[c] = "recycled" =>
        /\ id[c] = nextWrite
        /\ writer # "panicked" =>
             \A s \in Segs(c) : plan[c][s] = "data" =>
               \E i \in DOMAIN (written \o write) : (written \o write)[i] = <<c, s>>
<1>1. ASSUME DrainTurn, collector # "panicked" => FlowInv, writer # "panicked" => OutInv,
             [Next]_vars
      PROVE  [Recycles]_vars
  <2> SUFFICES ASSUME Next, NEW c \in Chunks, buf[c] = "drain", buf'[c] = "recycled"
               PROVE  /\ id[c] = nextWrite
                      /\ writer # "panicked" =>
                           \A s \in Segs(c) : plan[c][s] = "data" =>
                             \E i \in DOMAIN Out : Out[i] = <<c, s>>
    BY <1>1 DEF Out
  <2>1. collector # "panicked"
    BY <1>1 DEF DrainTurn
  <2>2. FlowInv
    BY <1>1, <2>1
  <2> USE DEF FlowInv
  <2>3. DOMAIN buf = Chunks
    BY <2>2, Types DEF IInv
  <2>4. FlushRecycle
    <3>1. CASE MainReject
      <4>1. buf[got + 1] = "filled"
        <5>1. sent \in 0 .. Last /\ got < sent
          BY <2>2, <3>1 DEF IInv, TypeInv, TypeOK, MainReject
        <5>2. got + 1 \in Chunks /\ got < got + 1 /\ got + 1 <= sent
          BY <2>2, <5>1, Types DEF IInv
        <5> QED
          BY <2>2, <5>2, Types DEF Stages, IInv
      <4> QED
        BY <2>3, <3>1, <4>1 DEF MainReject
    <3>2. CASE CollPanic
      BY <2>3, <3>2 DEF CollPanic
    <3>3. CASE ~MainReject /\ ~CollPanic
      BY <2>3, <3>3 DEF Next, MainNext, CollNext, ReaderTake, ReaderSend, MainAccept,
         MainAnnounce, MainPost, MainPosted, MainPanic, MainJoin, WorkerRuns, WorkerTake,
         WorkerFinish, WorkerExit, WorkerPanic, CollNewSlot, CollResult, CollHangup,
         FlushStart, FlushEnd, FlushSkip, FlushSend, WriterWrite, WriterExit, WriterPanic,
         Ended, vars
    <3> QED
      BY <3>1, <3>2, <3>3
  <2>5. collector = "drain" /\ drained.chunk = c
    <3>1. collector = "drain" /\ buf' = [buf EXCEPT ![drained.chunk] = "recycled"]
      BY <2>4 DEF FlushRecycle
    <3> QED
      BY <2>3, <3>1
  <2>6. id[c] = nextWrite
    BY <1>1, <2>5 DEF DrainTurn
  <2>7. ASSUME writer # "panicked", NEW s \in Segs(c), plan[c][s] = "data"
        PROVE  \E i \in DOMAIN Out : Out[i] = <<c, s>>
    <3>1. Len(plan[c]) \in Nat /\ drained.seg \in Nat /\ drained.seg > Len(plan[c])
      BY <2>2, <2>4, <2>5, Types, OutTypes DEF FlushRecycle, IInv
    <3>2. s < drained.seg
      BY <3>1 DEF Segs
    <3>3. OutIsPassed
      BY <1>1, <2>7 DEF OutInv, Sends
    <3> QED
      BY <2>7, <3>2, <3>3 DEF OutIsPassed, PassedData, Passed
  <2> QED
    BY <2>6, <2>7
<1> QED
  BY <1>1, DrainTurnAlways, FlowUntilUnwound, OutUntilPanic, PTL DEF SafeSpec, RecycledInOrder
=============================================================================
