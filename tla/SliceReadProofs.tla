-------------------------- MODULE SliceReadProofs --------------------------
(***************************************************************************)
(* par_map returns the values of f in index order; decompress_parallel,    *)
(* which rests on it, gives what a scan and a decoder in one thread give,  *)
(* and ParallelBz2Read implements the contract of Read: for every file,    *)
(* every number of threads, every batch and buffer size, and every caller. *)
(***************************************************************************)
EXTENDS SliceRead, ScanLemmas

-----------------------------------------------------------------------------
(* par_map                                                                 *)

Busy(t) == thread[t] = "busy"
Panicked == \E t \in Threads : thread[t] = "panicked"

MapTypeInv(V) ==
  /\ job \in Jobs(V)
  /\ next \in Nat \ {0}
  /\ thread \in [Threads -> {"claim", "busy", "done", "panicked"}]
  /\ item \in [Threads -> Nat]
  /\ slots \in [Indexes -> SUBSET V]
  /\ status \in {"idle", "running", "returned", "panicked"}

\* A slot holds its own value, and only once f returned it.
SlotsOwn == \A i \in Indexes : slots[i] # {} =>
              slots[i] = {job.values[i]} /\ i \notin job.panics

\* An index that was handed out is stored, being computed, or went down
\* with the thread that computed it.
HandedOut == \A i \in Indexes : i < next =>
  slots[i] # {} \/ Panicked \/ \E t \in Threads : Busy(t) /\ item[t] = i

\* The other indexes nobody has touched.
Untouched == \A i \in Indexes : i >= next => slots[i] = {}

BusyAhead == \A t \in Threads : Busy(t) => item[t] \in Indexes /\ item[t] < next

\* A spawned thread leaves only when the counter has passed the last index,
\* and the first thread is spawned.
DoneLate ==
  /\ 1 \in Spawned(job)
  /\ \A t \in Spawned(job) : thread[t] = "done" => next > Len(job.values)

PanicsHaveCause == Panicked => job.panics # {}

MapInv(V) ==
  /\ MapTypeInv(V)
  /\ status = "running" =>
       SlotsOwn /\ HandedOut /\ Untouched /\ BusyAhead /\ DoneLate /\ PanicsHaveCause
  /\ ClaimedOnce
  /\ ResultInOrder

LEMMA ThreadsType == Threads \subseteq Nat \ {0} /\ 1 \in Threads
BY WorkerCountAssumption DEF Threads

LEMMA LenType == ASSUME NEW V, NEW j \in Jobs(V)
                 PROVE  /\ Len(j.values) \in Nat /\ j.values \in Seq(V)
                        /\ j.values = [i \in 1 .. Len(j.values) |-> j.values[i]]
                        /\ j.panics \subseteq 1 .. Len(j.values)
BY DEF Jobs

\* Before the first call.
LEMMA MapInvInit == ASSUME NEW V, MapInit PROVE MapInv(V)
<1>1. job \in Jobs(V) /\ Len(job.values) = 0
  BY DEF MapInit, Jobs
<1>2. MapTypeInv(V)
  BY <1>1, ThreadsType DEF MapInit, MapTypeInv, Indexes
<1> QED
  BY <1>2 DEF MapInit, MapInv, ClaimedOnce, ResultInOrder

\* A call in the caller's own thread.
LEMMA MapInvSequential ==
  ASSUME NEW V, NEW j \in Jobs(V), MapInv(V), CallSequential(j) PROVE MapInv(V)'
<1>1. MapTypeInv(V)'
  BY LenType, ThreadsType DEF CallSequential, MapInv, MapTypeInv, Indexes
<1>2. status' # "running" /\ ResultInOrder'
  BY DEF CallSequential, ResultInOrder
<1> QED
  BY <1>1, <1>2 DEF MapInv, ClaimedOnce

\* The call that spawns the threads.
LEMMA MapInvParallel ==
  ASSUME NEW V, NEW j \in Jobs(V), MapInv(V), CallParallel(j) PROVE MapInv(V)'
<1>1. /\ job' = j /\ next' = 1 /\ status' = "running"
      /\ slots' = [i \in 1 .. Len(j.values) |-> {}]
      /\ \A t \in Threads : thread'[t] \in {"claim", "done"}
      /\ \A t \in Spawned(j) : thread'[t] = "claim"
  BY DEF CallParallel, Spawned
<1>2. MapTypeInv(V)'
  BY LenType, ThreadsType DEF CallParallel, MapInv, MapTypeInv, Indexes
<1>3. DoneLate'
  BY <1>1, LenType, ThreadsType DEF CallParallel, DoneLate, Spawned
<1>4. SlotsOwn' /\ HandedOut' /\ Untouched' /\ BusyAhead' /\ PanicsHaveCause' /\ ClaimedOnce'
  BY <1>1, LenType DEF SlotsOwn, HandedOut, Untouched, BusyAhead, PanicsHaveCause, ClaimedOnce,
                       Panicked, Busy, Indexes
<1> QED
  BY <1>1, <1>2, <1>3, <1>4 DEF MapInv, ResultInOrder

\* Handing out an index, or none.
LEMMA MapInvClaim ==
  ASSUME NEW V, NEW t \in Threads, MapInv(V), Claim(t) PROVE MapInv(V)'
<1> USE DEF Busy, Panicked, Indexes
<1>1. /\ MapTypeInv(V) /\ SlotsOwn /\ HandedOut /\ Untouched /\ BusyAhead /\ DoneLate
      /\ PanicsHaveCause /\ ClaimedOnce /\ status = "running" /\ status' = "running"
      /\ next' = next + 1 /\ job' = job /\ slots' = slots /\ thread[t] = "claim"
      /\ Len(job.values) \in Nat /\ next \in Nat \ {0}
      /\ thread \in [Threads -> {"claim", "busy", "done", "panicked"}]
      /\ item \in [Threads -> Nat]
  BY LenType DEF Claim, MapInv, MapTypeInv
<1>2. SlotsOwn' /\ Untouched'
  BY <1>1 DEF SlotsOwn, Untouched
<1>3. CASE next \in Indexes
  <2>1. item' = [item EXCEPT ![t] = next] /\ thread' = [thread EXCEPT ![t] = "busy"]
    BY <1>1, <1>3 DEF Claim
  <2>2. /\ item'[t] = next /\ thread'[t] = "busy"
        /\ \A u \in Threads \ {t} : item'[u] = item[u] /\ thread'[u] = thread[u]
    BY <1>1, <2>1
  <2>3. MapTypeInv(V)'
    BY <1>1, <2>1 DEF MapTypeInv
  <2>4. HandedOut'
    <3> SUFFICES ASSUME NEW i \in Indexes, i < next + 1, slots[i] = {},
                        ~ \E u \in Threads : thread'[u] = "panicked"
                 PROVE \E u \in Threads : thread'[u] = "busy" /\ item'[u] = i
      BY <1>1 DEF HandedOut
    <3>1. CASE i = next
      BY <3>1, <2>2
    <3>2. CASE i < next
      BY <3>2, <1>1, <2>2 DEF HandedOut
    <3> QED
      BY <3>1, <3>2, <1>1
  <2>5. BusyAhead'
    BY <1>1, <1>3, <2>2 DEF BusyAhead
  <2>6. DoneLate' /\ PanicsHaveCause'
    BY <1>1, <2>2 DEF DoneLate, PanicsHaveCause, Spawned
  <2>7. ClaimedOnce'
    BY <1>1, <1>3, <2>2 DEF ClaimedOnce, Untouched, BusyAhead
  <2> QED
    BY <1>1, <1>2, <2>3, <2>4, <2>5, <2>6, <2>7 DEF MapInv, ResultInOrder
<1>4. CASE next \notin Indexes
  <2>1. item' = item /\ thread' = [thread EXCEPT ![t] = "done"]
    BY <1>1, <1>4 DEF Claim
  <2>2. /\ thread'[t] = "done" /\ \A u \in Threads \ {t} : thread'[u] = thread[u]
        /\ next > Len(job.values)
    BY <1>1, <1>4, <2>1
  <2>3. MapTypeInv(V)'
    BY <1>1, <2>1 DEF MapTypeInv
  <2>4. HandedOut'
    BY <1>1, <2>1, <2>2 DEF HandedOut
  <2>5. BusyAhead' /\ PanicsHaveCause' /\ ClaimedOnce'
    BY <1>1, <2>1, <2>2 DEF BusyAhead, PanicsHaveCause, ClaimedOnce
  <2>6. DoneLate'
    BY <1>1, <2>2 DEF DoneLate, Spawned
  <2> QED
    BY <1>1, <1>2, <2>3, <2>4, <2>5, <2>6 DEF MapInv, ResultInOrder
<1> QED
  BY <1>3, <1>4

\* Storing a value under the lock of its slot.
LEMMA MapInvStore ==
  ASSUME NEW V, NEW t \in Threads, MapInv(V), Store(t) PROVE MapInv(V)'
<1> USE DEF Busy, Panicked, Indexes
<1>0. /\ MapTypeInv(V) /\ BusyAhead /\ job \in Jobs(V) /\ thread[t] = "busy"
      /\ item[t] \in Indexes /\ item[t] < next
  BY DEF Store, MapInv, MapTypeInv, BusyAhead
<1>1. /\ MapTypeInv(V) /\ SlotsOwn /\ HandedOut /\ Untouched /\ BusyAhead /\ DoneLate
      /\ PanicsHaveCause /\ ClaimedOnce /\ status = "running" /\ status' = "running"
      /\ next' = next /\ job' = job /\ item' = item /\ thread[t] = "busy"
      /\ slots' = [slots EXCEPT ![item[t]] = {job.values[item[t]]}]
      /\ thread' = [thread EXCEPT ![t] = "claim"]
      /\ item[t] \in Indexes /\ item[t] < next /\ item[t] \notin job.panics
      /\ slots \in [Indexes -> SUBSET V] /\ next \in Nat /\ Len(job.values) \in Nat
      /\ thread \in [Threads -> {"claim", "busy", "done", "panicked"}]
  BY <1>0, LenType DEF Store, MapInv, MapTypeInv
<1>1a. job.values[item[t]] \in V
  <2>1. job.values \in Seq(V)
    BY <1>0, LenType
  <2> QED
    BY <1>0, <2>1
<1>2. /\ thread'[t] = "claim" /\ \A u \in Threads \ {t} : thread'[u] = thread[u]
      /\ slots'[item[t]] = {job.values[item[t]]}
      /\ \A i \in Indexes \ {item[t]} : slots'[i] = slots[i]
  BY <1>1
<1>3. MapTypeInv(V)'
  BY <1>1, <1>1a DEF MapTypeInv
<1>4. SlotsOwn' /\ Untouched'
  BY <1>1, <1>2 DEF SlotsOwn, Untouched
<1>5. HandedOut'
  <2>1. Indexes' = Indexes /\ next' = next /\ item' = item
    BY <1>1
  <2>2. ASSUME NEW i \in Indexes, i < next
        PROVE  slots'[i] # {} \/ Panicked' \/ \E u \in Threads : thread'[u] = "busy" /\ item[u] = i
    <3>1. CASE i = item[t]
      BY <1>2, <3>1
    <3>2. CASE i # item[t] /\ slots[i] # {}
      BY <1>2, <3>2
    <3>3. CASE Panicked
      BY <1>1, <1>2, <3>3
    <3>4. CASE i # item[t] /\ \E u \in Threads : thread[u] = "busy" /\ item[u] = i
      BY <1>2, <3>4
    <3> QED
      BY <1>1, <2>2, <3>1, <3>2, <3>3, <3>4 DEF HandedOut
  <2> QED
    BY <2>1, <2>2 DEF HandedOut
<1>6. BusyAhead' /\ DoneLate' /\ PanicsHaveCause'
  BY <1>1, <1>2 DEF BusyAhead, DoneLate, PanicsHaveCause, Spawned
<1>7. ClaimedOnce'
  BY <1>1, <1>2 DEF ClaimedOnce, BusyAhead
<1> QED
  BY <1>1, <1>3, <1>4, <1>5, <1>6, <1>7 DEF MapInv, ResultInOrder

\* f unwinds the thread.
LEMMA MapInvPanic ==
  ASSUME NEW V, NEW t \in Threads, MapInv(V), Panic(t) PROVE MapInv(V)'
<1> USE DEF Busy, Panicked, Indexes
<1>1. /\ MapTypeInv(V) /\ SlotsOwn /\ HandedOut /\ Untouched /\ BusyAhead /\ DoneLate
      /\ PanicsHaveCause /\ ClaimedOnce /\ status = "running" /\ status' = "running"
      /\ next' = next /\ job' = job /\ item' = item /\ slots' = slots
      /\ thread' = [thread EXCEPT ![t] = "panicked"] /\ item[t] \in job.panics
      /\ thread \in [Threads -> {"claim", "busy", "done", "panicked"}]
  BY DEF Panic, MapInv, MapTypeInv
<1>2. thread'[t] = "panicked" /\ \A u \in Threads \ {t} : thread'[u] = thread[u]
  BY <1>1
<1>3. MapTypeInv(V)'
  BY <1>1 DEF MapTypeInv
<1>4. SlotsOwn' /\ Untouched' /\ HandedOut'
  BY <1>1, <1>2 DEF SlotsOwn, Untouched, HandedOut
<1>5. BusyAhead' /\ DoneLate' /\ PanicsHaveCause' /\ ClaimedOnce'
  BY <1>1, <1>2 DEF BusyAhead, DoneLate, PanicsHaveCause, ClaimedOnce, Spawned
<1> QED
  BY <1>1, <1>3, <1>4, <1>5 DEF MapInv, ResultInOrder

\* Collecting the slots: with no thread left behind, every slot is filled.
LEMMA MapInvJoin ==
  ASSUME NEW V, MapInv(V), Join PROVE MapInv(V)'
<1> USE DEF Busy, Panicked
<1>1. /\ MapTypeInv(V) /\ SlotsOwn /\ HandedOut /\ DoneLate /\ PanicsHaveCause
      /\ status = "running" /\ status' # "running" /\ job \in Jobs(V)
      /\ \A t \in Threads : thread[t] \in {"done", "panicked"}
      /\ UNCHANGED <<job, next, thread, item, slots>>
      /\ Len(job.values) \in Nat /\ next \in Nat
  BY LenType DEF Join, MapInv, MapTypeInv
<1>2. MapTypeInv(V)'
  BY <1>1 DEF Join, MapTypeInv, Indexes
<1>3. CASE Panicked
  BY <1>1, <1>2, <1>3 DEF Join, MapInv, ClaimedOnce, ResultInOrder, PanicsHaveCause
<1>4. CASE ~Panicked
  <2>1. next > Len(job.values)
    BY <1>1, <1>4 DEF DoneLate, Spawned
  <2>2. \A i \in Indexes : slots[i] # {}
    BY <1>1, <1>4, <2>1 DEF HandedOut, Indexes
  <2>3. \A i \in Indexes : slots[i] = {job.values[i]} /\ i \notin job.panics
    BY <1>1, <2>2 DEF SlotsOwn
  <2>4. job.panics = {}
    BY <1>1, <2>3, LenType DEF Indexes
  <2>5. status' = "returned" /\ result' = [i \in Indexes |-> CHOOSE v \in slots[i] : TRUE]
    BY <1>4, <2>2 DEF Join
  <2>6. \A i \in Indexes : (CHOOSE v \in slots[i] : TRUE) = job.values[i]
    BY <2>3
  <2>7. job.values = [i \in Indexes |-> job.values[i]]
    BY <1>1, LenType DEF Indexes
  <2>8. result' = job.values
    BY <2>5, <2>6, <2>7
  <2> QED
    BY <1>1, <1>2, <2>4, <2>5, <2>8 DEF MapInv, ClaimedOnce, ResultInOrder
<1> QED
  BY <1>3, <1>4

LEMMA MapInvStep ==
  ASSUME NEW V, NEW J, J \subseteq Jobs(V), MapInv(V),
         [MapStep \/ \E j \in J : Call(j)]_mapVars
  PROVE  MapInv(V)'
<1>1. ASSUME NEW j \in J, Call(j) PROVE MapInv(V)'
  BY <1>1, MapInvSequential, MapInvParallel DEF Call
<1>2. ASSUME NEW t \in Threads, ThreadStep(t) PROVE MapInv(V)'
  BY <1>2, MapInvClaim, MapInvStore, MapInvPanic DEF ThreadStep
<1>3. CASE Join
  BY <1>3, MapInvJoin
<1>4. CASE UNCHANGED mapVars
  BY <1>4 DEF mapVars, MapInv, MapTypeInv, SlotsOwn, HandedOut, Untouched, BusyAhead,
              DoneLate, PanicsHaveCause, ClaimedOnce, ResultInOrder, Indexes, Busy,
              Panicked, Spawned
<1> QED
  BY <1>1, <1>2, <1>3, <1>4 DEF MapStep

\* The counter passes the last index at most once for each thread that has
\* left, so that it stays bounded however long the call takes.
MapBounded ==
  /\ next <= Len(job.values) + 1 + Cardinality({t \in Threads : thread[t] = "done"})
  /\ item \in [Threads -> 0 .. Len(job.values)]
  /\ Len(job.values) \in Nat

LEMMA DoneCount ==
  /\ IsFiniteSet({t \in Threads : thread[t] = "done"})
  /\ Cardinality({t \in Threads : thread[t] = "done"}) \in 0 .. WorkerCount
<1> DEFINE D == {t \in Threads : thread[t] = "done"}
<1>1. WorkerCount \in Nat \ {0} /\ Threads = 1 .. WorkerCount
  BY WorkerCountAssumption DEF Threads
<1>2. IsFiniteSet(Threads) /\ Cardinality(Threads) = WorkerCount
  <2>1. /\ IsFiniteSet(1 .. WorkerCount)
        /\ Cardinality(1 .. WorkerCount) = IF 1 > WorkerCount THEN 0 ELSE WorkerCount - 1 + 1
    BY <1>1, FS_Interval
  <2> QED BY <1>1, <2>1
<1>3. D \subseteq Threads
  OBVIOUS
<1> HIDE DEF D
<1>4. IsFiniteSet(D) /\ Cardinality(D) <= Cardinality(Threads) /\ Cardinality(D) \in Nat
  BY <1>2, <1>3, FS_Subset, FS_CardinalityType
<1>5. IsFiniteSet(D) /\ Cardinality(D) \in 0 .. WorkerCount
  BY <1>1, <1>2, <1>4
<1> QED BY <1>5 DEF D

LEMMA MapBoundedInit == MapInit => MapBounded
<1> SUFFICES ASSUME MapInit PROVE MapBounded
  OBVIOUS
<1>1. Len(job.values) = 0 /\ next = 1 /\ item = [t \in Threads |-> 0]
  BY DEF MapInit
<1>2. Cardinality({t \in Threads : thread[t] = "done"}) \in Nat
  BY DoneCount
<1> QED BY <1>1, <1>2 DEF MapBounded

LEMMA MapBoundedCall ==
  ASSUME NEW V, NEW j \in Jobs(V), Call(j) PROVE MapBounded'
<1> DEFINE D == {t \in Threads : thread[t] = "done"}
<1>1. job' = j /\ next' = 1 /\ item' = [t \in Threads |-> 0]
  BY DEF Call, CallSequential, CallParallel
<1>2. Len(j.values) \in Nat
  BY LenType
<1>3. Cardinality(D') \in Nat
  <2>1. (Cardinality(D) \in 0 .. WorkerCount)'
    BY DoneCount, PTL
  <2>2. WorkerCount' = WorkerCount
    OBVIOUS
  <2> QED BY <2>1, <2>2, WorkerCountAssumption
<1>4. next' <= Len(job'.values) + 1 + Cardinality(D')
  <2> HIDE DEF D
  <2> QED BY <1>1, <1>2, <1>3
<1>5. item' \in [Threads -> 0 .. Len(job'.values)] /\ Len(job'.values) \in Nat
  BY <1>1, <1>2
<1> QED BY <1>4, <1>5 DEF MapBounded

LEMMA MapBoundedStep ==
  ASSUME NEW V, MapInv(V), MapBounded, [MapStep]_mapVars PROVE MapBounded'
<1> DEFINE D == {t \in Threads : thread[t] = "done"}
           top == Len(job.values)
<1>0. /\ next \in Nat /\ thread \in [Threads -> {"claim", "busy", "done", "panicked"}]
      /\ top \in Nat /\ next <= top + 1 + Cardinality(D) /\ item \in [Threads -> 0 .. top]
      /\ IsFiniteSet(D) /\ Cardinality(D) \in Nat
  BY DoneCount DEF MapInv, MapTypeInv, MapBounded
<1>1. ASSUME job' = job, next' = next, item' = item, D \subseteq D', IsFiniteSet(D'), Cardinality(D') \in Nat
      PROVE  MapBounded'
  <2>1. Cardinality(D) <= Cardinality(D')
    BY <1>1, FS_Subset
  <2> HIDE DEF D
  <2>2. next' <= Len(job'.values) + 1 + Cardinality(D')
    BY <1>0, <1>1, <2>1
  <2>3. item' \in [Threads -> 0 .. Len(job'.values)] /\ Len(job'.values) \in Nat
    BY <1>0, <1>1
  <2> QED BY <2>2, <2>3 DEF MapBounded, D
<1>2. IsFiniteSet(D') /\ Cardinality(D') \in Nat
  <2>1. IsFiniteSet(D)' /\ (Cardinality(D) \in 0 .. WorkerCount)'
    BY DoneCount, PTL
  <2> QED BY <2>1, WorkerCountAssumption
<1>3. ASSUME NEW t \in Threads, Claim(t) PROVE MapBounded'
  <2>0. job' = job /\ next' = next + 1 /\ thread[t] = "claim"
    BY <1>3 DEF Claim
  <2>1. CASE next \in Indexes
    <3>1. next <= top /\ item' = [item EXCEPT ![t] = next]
      BY <1>0, <1>3, <2>1 DEF Claim, Indexes
    <3>2. item' \in [Threads -> 0 .. top]
      BY <1>0, <3>1
    <3> HIDE DEF D
    <3>3. next' <= Len(job'.values) + 1 + Cardinality(D')
      BY <1>0, <1>2, <2>0, <3>1
    <3> QED BY <1>0, <2>0, <3>2, <3>3 DEF MapBounded, D
  <2>2. CASE next \notin Indexes
    <3>1. item' = item /\ thread' = [thread EXCEPT ![t] = "done"]
      BY <1>3, <2>2 DEF Claim
    <3>2. D' = D \cup {t} /\ t \notin D
      BY <1>0, <2>0, <3>1
    <3>3. Cardinality(D') = Cardinality(D) + 1
      BY <1>0, <3>2, FS_AddElement
    <3> HIDE DEF D
    <3>4. next' <= Len(job'.values) + 1 + Cardinality(D')
      BY <1>0, <2>0, <3>3
    <3> QED BY <1>0, <2>0, <3>1, <3>4 DEF MapBounded, D
  <2> QED BY <2>1, <2>2
<1>4. ASSUME NEW t \in Threads, Store(t) \/ Panic(t) PROVE MapBounded'
  <2>1. /\ job' = job /\ next' = next /\ item' = item
        /\ thread[t] = "busy" /\ \E x : thread' = [thread EXCEPT ![t] = x]
    BY <1>4 DEF Store, Panic
  <2>2. D \subseteq D'
    BY <1>0, <2>1
  <2> QED BY <1>1, <1>2, <2>1, <2>2
<1>5. ASSUME Join \/ UNCHANGED mapVars PROVE MapBounded'
  <2>1. job' = job /\ next' = next /\ item' = item /\ D' = D
    BY <1>5 DEF Join, mapVars
  <2> QED BY <1>1, <1>2, <2>1
<1> QED BY <1>3, <1>4, <1>5 DEF MapStep, ThreadStep

\* However many threads there are and whatever is mapped, a call returns
\* exactly the values of f in index order or panics because f did, and no
\* item is computed twice (par_map, expect("slot filled")).
THEOREM ParMapCorrect ==
  ASSUME NEW V, NEW J, J \subseteq Jobs(V)
  PROVE  MapSpec(J) => [](ResultInOrder /\ ClaimedOnce)
<1>1. MapInit => MapInv(V)
  BY MapInvInit
<1>2. MapInv(V) /\ [MapStep \/ \E j \in J : Call(j)]_mapVars => MapInv(V)'
  BY MapInvStep
<1>3. MapInv(V) => ResultInOrder /\ ClaimedOnce
  BY DEF MapInv
<1> QED
  BY <1>1, <1>2, <1>3, PTL DEF MapSpec

\* The ticket counter alone: no two threads of a call compute the same item.
THEOREM ClaimsAreUnique ==
  ASSUME NEW V, NEW J, J \subseteq Jobs(V)
  PROVE  MapSpec(J) => []ClaimedOnce
<1>1. ResultInOrder /\ ClaimedOnce => ClaimedOnce
  OBVIOUS
<1> QED
  BY <1>1, ParMapCorrect, PTL

-----------------------------------------------------------------------------
(* decompress_parallel                                                     *)

\* The buffer decompress_parallel is given, what the two scans find in it, and
\* what is made of that.
Whole == Buffer(input, Data)
SerialFound == FindAllBlocks(Whole)
PartsFound == UNION {ScanPart(Whole, n, i) : i \in 0 .. n - 1}
ScanJob == [values |-> [i \in 1 .. n |-> ScanPart(Whole, n, i - 1)], panics |-> {}]
NoAnswer == [ok |-> FALSE, blocks |-> <<>>]
AnswerFrom(starts0) ==
  IF \E i \in DOMAIN starts0 : Decode(starts0[i]) = {} THEN NoAnswer
  ELSE [ok |-> TRUE, blocks |-> [i \in DOMAIN starts0 |-> Min(Decode(starts0[i]))]]

\* The whole file in a buffer: what a scan finds is a finite set of bits in it.
LEMMA WholeFile ==
  ASSUME input \in Inputs
  PROVE  /\ WellFormed(input) /\ input.size \in Nat /\ input.size * ByteBits \in Nat
         /\ BufferType(Whole) /\ TotalBits(Whole) = input.size * ByteBits
         /\ InBuffer(Whole) = Whole.marks
         /\ \A x : x \in Whole.marks <=> x \in Magics(input) /\ x + MagicBits <= input.size * ByteBits
         /\ SerialFound \subseteq Whole.marks
<1>1. WellFormed(input) /\ input.size \in Nat
  BY FilesAssumption DEF WellFormed
<1>2. input.size * ByteBits \in Nat /\ 0 * ByteBits = 0
  BY <1>1, Widths
<1> DEFINE z == 0
<1>3. z \in Nat /\ z <= input.size /\ Whole = Buffer(input, Bytes(z, input.size)) /\ z * ByteBits = 0
  BY <1>1, <1>2 DEF Whole, Data
<1> HIDE DEF z
<1>4. /\ BufferType(Whole) /\ InBuffer(Whole) = Whole.marks
      /\ TotalBits(Whole) = input.size * ByteBits - z * ByteBits
      /\ \A x : x \in Whole.marks <=> \E m \in Magics(input) : InStretch(z, input.size, m) /\ x = m - z * ByteBits
  BY <1>1, <1>3, BufferOfStretch
<1>5. \A m \in Magics(input) : m \in Nat
  BY <1>1, BlocksType
<1>6. \A x : x \in Whole.marks <=> x \in Magics(input) /\ x + MagicBits <= input.size * ByteBits
  <2>1. \A m \in Magics(input) : InStretch(z, input.size, m) <=> m + MagicBits <= input.size * ByteBits
    BY <1>3, <1>5 DEF InStretch
  <2>2. \A m \in Magics(input) : m - z * ByteBits = m
    BY <1>3, <1>5
  <2> QED BY <1>4, <2>1, <2>2
<1>7. SerialFound \subseteq Whole.marks
  BY <1>4, FindAll DEF SerialFound
<1> QED BY <1>1, <1>2, <1>3, <1>4, <1>6, <1>7

LEMMA MarksType ==
  ASSUME input \in Inputs, NEW S \in SUBSET Whole.marks
  PROVE  /\ IsFiniteSet(S) /\ S \subseteq Nat /\ Cardinality(S) \in Nat
         /\ \A x \in S : x \in 0 .. input.size * ByteBits - 1
         /\ Sorted(S) \in Seq(S) /\ DOMAIN Sorted(S) = 1 .. Cardinality(S)
         /\ Len(Sorted(S)) = Cardinality(S)
<1>1. \A x \in S : x \in Nat /\ x < TotalBits(Whole)
  BY WholeFile DEF InBuffer, BufferType
<1>2. TotalBits(Whole) = input.size * ByteBits /\ input.size * ByteBits \in Nat
  BY WholeFile
<1> DEFINE N == input.size * ByteBits
<1> HIDE DEF N
<1>3. S \subseteq 0 .. N - 1 /\ N \in Nat
  BY <1>1, <1>2 DEF N
<1>4. IsFiniteSet(0 .. N - 1)
  <2>1. 0 \in Int /\ N - 1 \in Int
    BY <1>3
  <2> QED BY <2>1, FS_Interval
<1>5. IsFiniteSet(S) /\ S \subseteq Int
  <2>1. IsFiniteSet(S)
    BY <1>3, <1>4, FS_Subset
  <2>2. S \subseteq Int
    BY <1>1
  <2> QED BY <2>1, <2>2
<1>6. Cardinality(S) \in Nat /\ Sorted(S) \in [1 .. Cardinality(S) -> S]
  BY <1>5, SortedAscends
<1>7. Sorted(S) \in Seq(S) /\ DOMAIN Sorted(S) = 1 .. Cardinality(S) /\ Len(Sorted(S)) = Cardinality(S)
  <2> DEFINE s == Sorted(S)
             c == Cardinality(S)
  <2>1. s \in [1 .. c -> S] /\ c \in Nat
    BY <1>6
  <2> HIDE DEF s, c
  <2>2. s \in Seq(S) /\ DOMAIN s = 1 .. c /\ Len(s) = c
    BY <2>1
  <2> QED BY <2>2 DEF s, c
<1> QED BY <1>3, <1>5, <1>6, <1>7 DEF N

\* The parts find magics only.
LEMMA PartsType ==
  ASSUME input \in Inputs, n \in Parallelism
  PROVE  /\ PartsFound \subseteq Whole.marks /\ n \in Nat \ {0}
         /\ ScanJob \in Jobs(SUBSET Nat) /\ Len(ScanJob.values) = n
         /\ \A i \in 1 .. n : ScanJob.values[i] = ScanPart(Whole, n, i - 1)
<1>1. n \in Nat \ {0}
  BY ParallelismAssumption
<1>2. BufferType(Whole) /\ InBuffer(Whole) = Whole.marks
  BY WholeFile
<1>3. \A i \in 0 .. n - 1 : ScanPart(Whole, n, i) \subseteq Whole.marks
  BY <1>1, <1>2, FindPart
<1>4. PartsFound \subseteq Whole.marks
  BY <1>3 DEF PartsFound
<1> DEFINE v == [i \in 1 .. n |-> ScanPart(Whole, n, i - 1)]
<1>5. v \in Seq(SUBSET Nat) /\ Len(v) = n
  <2>1. \A i \in 1 .. n : v[i] \in SUBSET Nat
    <3> SUFFICES ASSUME NEW i \in 1 .. n PROVE ScanPart(Whole, n, i - 1) \in SUBSET Nat
      OBVIOUS
    <3>1. i - 1 \in 0 .. n - 1
      BY <1>1
    <3> QED BY <1>2, <1>3, <3>1 DEF BufferType
  <2>2. v = [i \in 1 .. n |-> v[i]]
    OBVIOUS
  <2> HIDE DEF v
  <2>3. v \in [1 .. n -> SUBSET Nat] /\ n \in Nat
    BY <1>1, <2>1, <2>2
  <2> QED BY <2>3
<1>6. ScanJob = [values |-> v, panics |-> {}]
  BY DEF ScanJob
<1>7. \A i \in 1 .. n : v[i] = ScanPart(Whole, n, i - 1)
  OBVIOUS
<1> HIDE DEF v
<1>8. ScanJob \in Jobs(SUBSET Nat) /\ ScanJob.values = v
  BY <1>5, <1>6 DEF Jobs
<1> QED BY <1>1, <1>4, <1>5, <1>7, <1>8

\* Decoding gives blocks of the file or what is made up for one.
LEMMA DecodeGives ==
  ASSUME input \in Inputs, NEW s
  PROVE  /\ Decode(s) \in SUBSET (Blocks \cup {Rubbish}) /\ Blocks \subseteq Nat
         /\ Decode(s) # {} => Min(Decode(s)) \in Blocks \cup {Rubbish}
<1>1. Blocks \subseteq Nat
  <2>1. WellFormed(input)
    BY WholeFile
  <2>2. Blocks = 1 .. Len(input.blocks) /\ Len(input.blocks) \in Nat
    BY <2>1, BlocksType DEF Blocks
  <2> QED BY <2>2
<1>2. BlockAt(input, Data, s) \subseteq Blocks
  BY DEF BlockAt, Blocks
<1>3. Decode(s) \in SUBSET (Blocks \cup {Rubbish})
  BY <1>2 DEF Decode
<1>4. Decode(s) \subseteq Nat
  <2>1. Rubbish \in Nat
    BY DEF Rubbish
  <2>2. Blocks \cup {Rubbish} \subseteq Nat
    BY <1>1, <2>1
  <2> QED BY <1>3, <2>2
<1>5. Decode(s) # {} => Min(Decode(s)) \in Decode(s)
  BY <1>4, MinOfNats
<1> QED BY <1>1, <1>3, <1>5

LEMMA DecodeJobType ==
  ASSUME input \in Inputs, NEW S, NEW s \in Seq(S)
  PROVE  /\ DecodeJob(s) \in Jobs(SUBSET Nat) /\ Len(DecodeJob(s).values) = Len(s)
         /\ \A i \in DOMAIN s : DecodeJob(s).values[i] = Decode(s[i])
         /\ \A i \in DOMAIN s : i \in DecodeJob(s).panics <=> Panics(s[i])
         /\ DecodeJob(s).panics \subseteq DOMAIN s
<1> DEFINE v == [i \in DOMAIN s |-> Decode(s[i])]
           p == {i \in DOMAIN s : Panics(s[i])}
<1>1. DOMAIN s = 1 .. Len(s) /\ Len(s) \in Nat
  OBVIOUS
<1>2. \A i \in DOMAIN s : v[i] = Decode(s[i]) /\ v[i] \in SUBSET Nat
  <2> SUFFICES ASSUME NEW i \in DOMAIN s PROVE Decode(s[i]) \in SUBSET Nat
    OBVIOUS
  <2> QED BY DecodeGives DEF Rubbish
<1>3. v \in Seq(SUBSET Nat) /\ Len(v) = Len(s)
  <2>1. v = [i \in 1 .. Len(s) |-> v[i]]
    BY <1>1
  <2> HIDE DEF v
  <2>2. v \in [1 .. Len(s) -> SUBSET Nat]
    BY <1>1, <1>2, <2>1
  <2> QED BY <1>1, <2>2
<1>4. DecodeJob(s) = [values |-> v, panics |-> p]
  BY DEF DecodeJob
<1>5. p \subseteq 1 .. Len(s) /\ p \subseteq Nat
  BY <1>1
<1>6. \A i \in DOMAIN s : i \in p <=> Panics(s[i])
  OBVIOUS
<1> HIDE DEF v, p
<1>7. DecodeJob(s) \in Jobs(SUBSET Nat) /\ DecodeJob(s).values = v /\ DecodeJob(s).panics = p
  BY <1>3, <1>4, <1>5 DEF Jobs
<1> QED BY <1>1, <1>2, <1>3, <1>5, <1>6, <1>7

\* What is found is what the serial scan finds or what the parts find; the job
\* at hand and the answer follow from it.
Found ==
  /\ phase \in {"scan", "merge"} => boundaries = <<>>
  /\ phase \notin {"scan", "merge"} => boundaries \in {Sorted(SerialFound), Sorted(PartsFound)}
JobAtHand ==
  /\ phase = "merge" => job = ScanJob
  /\ phase = "assemble" => job = DecodeJob(boundaries)
Outcome ==
  /\ IF phase = "done"
     THEN answer = AnswerFrom(boundaries) /\ \A i \in DOMAIN boundaries : ~ Panics(boundaries[i])
     ELSE answer = NoAnswer
  /\ phase = "panicked" => \E i \in DOMAIN boundaries : Panics(boundaries[i])
ParInv ==
  /\ input \in Inputs /\ n \in Parallelism
  /\ phase \in {"scan", "merge", "decode", "assemble", "done", "panicked"}
  /\ Found /\ JobAtHand /\ Outcome
  /\ MapInv(SUBSET Nat) /\ MapBounded

\* What depends on the file alone stays.
LEMMA InputStays ==
  ASSUME UNCHANGED <<input, n>>
  PROVE  /\ Whole' = Whole /\ SerialFound' = SerialFound /\ PartsFound' = PartsFound
         /\ ScanJob' = ScanJob /\ NoAnswer' = NoAnswer
         /\ \A s : DecodeJob(s)' = DecodeJob(s) /\ AnswerFrom(s)' = AnswerFrom(s)
                   /\ Panics(s)' = Panics(s) /\ Decode(s)' = Decode(s)
<1>1. Data' = Data /\ Whole' = Whole
  BY DEF Data, Whole
<1>2. \A s : Decode(s)' = Decode(s) /\ Panics(s)' = Panics(s)
  BY <1>1 DEF Decode, Panics, Rubbish
<1>3. SerialFound' = SerialFound /\ PartsFound' = PartsFound /\ ScanJob' = ScanJob /\ NoAnswer' = NoAnswer
  BY <1>1 DEF SerialFound, PartsFound, ScanJob, NoAnswer
<1>4. \A s : DecodeJob(s)' = DecodeJob(s)
  BY <1>2 DEF DecodeJob
<1>5. \A s : AnswerFrom(s)' = AnswerFrom(s)
  BY <1>2, <1>3 DEF AnswerFrom
<1> QED BY <1>1, <1>2, <1>3, <1>4, <1>5

\* The boundaries are a sequence.
LEMMA FoundType ==
  ASSUME input \in Inputs, n \in Parallelism, NEW s, s \in {<<>>, Sorted(SerialFound), Sorted(PartsFound)}
  PROVE  /\ s \in Seq(Whole.marks) /\ s \in Seq(0 .. input.size * ByteBits)
<1>1. SerialFound \in SUBSET Whole.marks /\ PartsFound \in SUBSET Whole.marks
  BY WholeFile, PartsType
<1>2. ASSUME NEW S \in SUBSET Whole.marks, s = Sorted(S)
      PROVE  s \in Seq(Whole.marks) /\ s \in Seq(0 .. input.size * ByteBits)
  <2>1. s \in Seq(S) /\ \A x \in S : x \in 0 .. input.size * ByteBits - 1
    BY <1>2, MarksType
  <2>2. S \subseteq 0 .. input.size * ByteBits
    <3>1. input.size * ByteBits \in Nat
      BY WholeFile
    <3> DEFINE N == input.size * ByteBits
    <3> HIDE DEF N
    <3>2. \A x \in S : x \in 0 .. N - 1
      BY <2>1 DEF N
    <3>3. S \subseteq 0 .. N
      BY <3>1, <3>2 DEF N
    <3> QED BY <3>3 DEF N
  <2>3. Len(s) \in Nat /\ s \in [1 .. Len(s) -> S]
    BY <2>1
  <2>4. ASSUME NEW T, S \subseteq T PROVE s \in Seq(T)
    <3>1. s \in [1 .. Len(s) -> T]
      BY <2>3, <2>4
    <3> QED BY <2>3, <3>1
  <2> QED BY <2>2, <2>4
<1>3. CASE s = <<>>
  BY <1>3
<1> QED BY <1>1, <1>2, <1>3

LEMMA ParInvInit == ASSUME Init PROVE ParInv
<1>1. MapInv(SUBSET Nat) /\ MapBounded
  BY MapInvInit, MapBoundedInit DEF Init
<1> QED BY <1>1 DEF Init, ParInv, Found, JobAtHand, Outcome, NoAnswer

\* par_map runs on behalf of the caller.
LEMMA ParInvMap == ASSUME ParInv, MapStep \/ UNCHANGED mapVars, UNCHANGED mainVars PROVE ParInv'
<1>1. MapInv(SUBSET Nat)' /\ MapBounded'
  <2>1. MapInv(SUBSET Nat)'
    <3> DEFINE J == {}
    <3>1. J \subseteq Jobs(SUBSET Nat) /\ [MapStep \/ \E j \in J : Call(j)]_mapVars
      OBVIOUS
    <3> QED BY <3>1, MapInvStep DEF ParInv
  <2>2. [MapStep]_mapVars
    OBVIOUS
  <2> QED BY <2>1, <2>2, MapBoundedStep DEF ParInv
<1>2. job' = job
  BY DEF MapStep, Join, ThreadStep, Claim, Store, Panic, mapVars
<1>3. UNCHANGED <<input, n, phase, boundaries, answer>>
  BY DEF mainVars
<1>4. Found' /\ JobAtHand' /\ Outcome'
  BY <1>2, <1>3, InputStays DEF ParInv, Found, JobAtHand, Outcome
<1> QED BY <1>1, <1>3, <1>4 DEF ParInv

LEMMA CallKeeps ==
  ASSUME MapInv(SUBSET Nat), NEW j \in Jobs(SUBSET Nat), Call(j)
  PROVE  MapInv(SUBSET Nat)' /\ MapBounded' /\ job' = j
<1>1. job' = j
  BY DEF Call, CallSequential, CallParallel
<1> QED BY <1>1, MapInvSequential, MapInvParallel, MapBoundedCall DEF Call

LEMMA MapKept == ASSUME MapInv(SUBSET Nat), MapBounded, UNCHANGED mapVars
                 PROVE  MapInv(SUBSET Nat)' /\ MapBounded'
<1>1. [MapStep \/ \E j \in {} : Call(j)]_mapVars /\ [MapStep]_mapVars /\ {} \subseteq Jobs(SUBSET Nat)
  OBVIOUS
<1> QED BY <1>1, MapInvStep, MapBoundedStep
LEMMA ParInvScan == ASSUME ParInv, ScanSerially \/ ScanParts \/ Merge PROVE ParInv'
<1>1. CASE ScanSerially
  <2>1. UNCHANGED <<input, n, answer>> /\ phase = "scan" /\ phase' = "decode"
        /\ boundaries' = Sorted(SerialFound) /\ UNCHANGED mapVars
    BY <1>1 DEF ScanSerially, SerialFound, Whole
  <2>2. MapInv(SUBSET Nat)' /\ MapBounded'
    BY <2>1, MapKept DEF ParInv
  <2>3. Found' /\ JobAtHand' /\ Outcome'
    BY <2>1, InputStays DEF ParInv, Found, JobAtHand, Outcome
  <2> QED BY <2>1, <2>2, <2>3 DEF ParInv
<1>2. CASE ScanParts
  <2>1. UNCHANGED <<input, n, boundaries, answer>> /\ phase = "scan" /\ phase' = "merge"
        /\ Call(ScanJob)
    BY <1>2 DEF ScanParts, ScanJob, Whole
  <2>2. MapInv(SUBSET Nat)' /\ MapBounded' /\ job' = ScanJob
    BY <2>1, PartsType, CallKeeps DEF ParInv
  <2>3. Found' /\ JobAtHand' /\ Outcome'
    BY <2>1, <2>2, InputStays DEF ParInv, Found, JobAtHand, Outcome
  <2> QED BY <2>1, <2>2, <2>3 DEF ParInv
<1>3. CASE Merge
  <2>1. UNCHANGED <<input, n, answer>> /\ phase = "merge" /\ phase' = "decode"
        /\ boundaries' = Sorted(UNION {result[i] : i \in DOMAIN result}) /\ UNCHANGED mapVars
        /\ result = ScanJob.values
    BY <1>3 DEF Merge, ParInv, JobAtHand, MapInv, ResultInOrder
  <2>2. UNION {result[i] : i \in DOMAIN result} = PartsFound
    <3>1. /\ n \in Nat \ {0} /\ DOMAIN result = 1 .. n
          /\ \A i \in 1 .. n : result[i] = ScanPart(Whole, n, i - 1)
      BY <2>1, ParallelismAssumption DEF ParInv, ScanJob
    <3>2. \A i \in 1 .. n : i - 1 \in 0 .. n - 1
      BY <3>1
    <3>3. \A i \in 0 .. n - 1 : i + 1 \in 1 .. n /\ (i + 1) - 1 = i
      BY <3>1
    <3>4. ASSUME NEW x, x \in UNION {result[i] : i \in DOMAIN result} PROVE x \in PartsFound
      BY <3>1, <3>2, <3>4 DEF PartsFound
    <3>5. ASSUME NEW x, x \in PartsFound PROVE x \in UNION {result[i] : i \in DOMAIN result}
      <4>1. PICK i \in 0 .. n - 1 : x \in ScanPart(Whole, n, i)
        BY <3>5 DEF PartsFound
      <4>2. i + 1 \in DOMAIN result /\ result[i + 1] = ScanPart(Whole, n, i)
        BY <3>1, <3>3
      <4> QED BY <4>1, <4>2
    <3> QED BY <3>4, <3>5
  <2>3. MapInv(SUBSET Nat)' /\ MapBounded'
    BY <2>1, MapKept DEF ParInv
  <2>4. Found' /\ JobAtHand' /\ Outcome'
    BY <2>1, <2>2, InputStays DEF ParInv, Found, JobAtHand, Outcome
  <2> QED BY <2>1, <2>3, <2>4 DEF ParInv
<1> QED BY <1>1, <1>2, <1>3

LEMMA ParInvDecode == ASSUME ParInv, NoBlocks \/ DecodeAll \/ Assemble \/ Unwind PROVE ParInv'
<1>1. CASE NoBlocks
  <2>1. UNCHANGED <<input, n, boundaries>> /\ phase = "decode" /\ phase' = "done"
        /\ boundaries = <<>> /\ answer' = [ok |-> TRUE, blocks |-> <<>>] /\ UNCHANGED mapVars
    BY <1>1 DEF NoBlocks
  <2>2. MapInv(SUBSET Nat)' /\ MapBounded'
    BY <2>1, MapKept DEF ParInv
  <2>3. DOMAIN boundaries = {} /\ AnswerFrom(boundaries) = answer'
    <3>1. DOMAIN boundaries = {}
      BY <2>1
    <3>2. [i \in DOMAIN boundaries |-> Min(Decode(boundaries[i]))] = <<>>
      <4>1. [i \in {} |-> Min(Decode(boundaries[i]))] = <<>>
        OBVIOUS
      <4> QED BY <3>1, <4>1
    <3> QED BY <2>1, <3>1, <3>2 DEF AnswerFrom
  <2>4. Found' /\ JobAtHand' /\ Outcome'
    <3>1. AnswerFrom(boundaries)' = AnswerFrom(boundaries)'
      OBVIOUS
    <3>2. answer' = AnswerFrom(boundaries') /\ \A i \in DOMAIN boundaries' : ~ Panics(boundaries'[i])
      BY <2>1, <2>3
    <3>3. \A s : AnswerFrom(s)' = AnswerFrom(s) /\ Panics(s)' = Panics(s)
      BY <2>1, InputStays
    <3>4. SerialFound' = SerialFound /\ PartsFound' = PartsFound
      BY <2>1, InputStays
    <3>5. Outcome'
      BY <2>1, <2>3, <3>3 DEF Outcome
    <3>6. Found'
      BY <2>1, <3>4 DEF Found, ParInv
    <3> QED BY <2>1, <3>5, <3>6 DEF JobAtHand
  <2> QED BY <2>1, <2>2, <2>4 DEF ParInv
<1>2. CASE DecodeAll
  <2>1. UNCHANGED <<input, n, boundaries, answer>> /\ phase = "decode" /\ phase' = "assemble"
        /\ Call(DecodeJob(boundaries))
    BY <1>2 DEF DecodeAll
  <2>2. boundaries \in Seq(Whole.marks)
    BY <2>1, FoundType DEF ParInv, Found
  <2>3. MapInv(SUBSET Nat)' /\ MapBounded' /\ job' = DecodeJob(boundaries)
    BY <2>1, <2>2, DecodeJobType, CallKeeps DEF ParInv
  <2>4. Found' /\ JobAtHand' /\ Outcome'
    BY <2>1, <2>3, InputStays DEF ParInv, Found, JobAtHand, Outcome
  <2> QED BY <2>1, <2>3, <2>4 DEF ParInv
<1>3. CASE Assemble
  <2>1. /\ UNCHANGED <<input, n, boundaries>> /\ phase = "assemble" /\ phase' = "done"
        /\ UNCHANGED mapVars /\ job = DecodeJob(boundaries)
        /\ result = DecodeJob(boundaries).values /\ DecodeJob(boundaries).panics = {}
        /\ answer' = IF \E i \in DOMAIN result : result[i] = {}
                     THEN [ok |-> FALSE, blocks |-> <<>>]
                     ELSE [ok |-> TRUE, blocks |-> [i \in DOMAIN result |-> Min(result[i])]]
    BY <1>3 DEF Assemble, ParInv, JobAtHand, MapInv, ResultInOrder
  <2>2. boundaries \in Seq(Whole.marks)
    BY <2>1, FoundType DEF ParInv, Found
  <2>3. /\ DOMAIN result = DOMAIN boundaries
        /\ \A i \in DOMAIN boundaries : result[i] = Decode(boundaries[i]) /\ ~ Panics(boundaries[i])
    BY <2>1, <2>2 DEF DecodeJob
  <2>4. answer' = AnswerFrom(boundaries)
    BY <2>1, <2>3 DEF AnswerFrom, NoAnswer
  <2>5. MapInv(SUBSET Nat)' /\ MapBounded'
    BY <2>1, MapKept DEF ParInv
  <2>6. Found' /\ JobAtHand' /\ Outcome'
    BY <2>1, <2>3, <2>4, InputStays DEF ParInv, Found, JobAtHand, Outcome
  <2> QED BY <2>1, <2>5, <2>6 DEF ParInv
<1>4. CASE Unwind
  <2>1. UNCHANGED <<input, n, boundaries, answer>> /\ phase \in {"merge", "assemble"}
        /\ phase' = "panicked" /\ UNCHANGED mapVars /\ job.panics # {}
    BY <1>4 DEF Unwind, ParInv, MapInv, ResultInOrder
  <2>2. phase = "assemble" /\ DecodeJob(boundaries).panics # {}
    BY <2>1 DEF ParInv, JobAtHand, ScanJob
  <2>3. \E i \in DOMAIN boundaries : Panics(boundaries[i])
    BY <2>2 DEF DecodeJob
  <2>4. MapInv(SUBSET Nat)' /\ MapBounded'
    BY <2>1, MapKept DEF ParInv
  <2>5. Found' /\ JobAtHand' /\ Outcome'
    BY <2>1, <2>2, <2>3, InputStays DEF ParInv, Found, JobAtHand, Outcome
  <2> QED BY <2>1, <2>4, <2>5 DEF ParInv
<1> QED BY <1>1, <1>2, <1>3, <1>4

LEMMA ParInvStep == ParInv /\ [Next]_vars => ParInv'
<1> SUFFICES ASSUME ParInv, [Next]_vars PROVE ParInv'
  OBVIOUS
<1>1. CASE MainStep
  BY <1>1, ParInvScan, ParInvDecode DEF MainStep
<1>2. CASE MapStep /\ UNCHANGED mainVars
  BY <1>2, ParInvMap
<1>3. CASE UNCHANGED vars
  BY <1>3, ParInvMap DEF vars
<1> QED BY <1>1, <1>2, <1>3 DEF Next, Finished

LEMMA ParInvHolds == Spec => []ParInv
<1>1. Init => ParInv
  BY ParInvInit
<1> QED BY <1>1, ParInvStep, PTL DEF Spec

\* Either scan finds magics only, and covers all that are not too close to the
\* end.
LEMMA ScansCover ==
  ASSUME input \in Inputs, n \in Parallelism, NEW S \in {SerialFound, PartsFound}
  PROVE  /\ S \in SUBSET Whole.marks
         /\ \A t \in Whole.marks : t + Window * ByteBits <= input.size * ByteBits => Covered(S, t)
<1> DEFINE Covers(s) == /\ s \subseteq InBuffer(Whole)
                        /\ \A t \in Whole.marks :
                             t + Window * ByteBits <= TotalBits(Whole) => Covered(s, t)
<1>1. /\ BufferType(Whole) /\ TotalBits(Whole) = input.size * ByteBits
      /\ InBuffer(Whole) = Whole.marks
  BY WholeFile
<1>2. n \in Nat \ {0}
  BY ParallelismAssumption
<1>3. Covers(SerialFound)
  <2> SUFFICES Covers(FindAllBlocks(Whole))
    BY DEF SerialFound
  <2> QED BY <1>1, FindAll
<1>4. Covers(PartsFound)
  <2>1. PartsFound = UNION {ScanPart(Whole, n, i) : i \in 0 .. n - 1}
    BY DEF PartsFound
  <2> HIDE DEF Covers
  <2>2. Covers(PartsFound)
    BY <1>1, <1>2, <2>1, PartsMissNothing DEF Covers
  <2> QED BY <2>2
<1>5. Covers(S)
  <2> HIDE DEF Covers
  <2> QED BY <1>3, <1>4
<1> QED BY <1>1, <1>5

\* What either scan misses of magics that do not overlap is too close to the
\* end.
LEMMA MissedAtEnd ==
  ASSUME input \in Inputs, n \in Parallelism, Apart(Whole.marks, MagicBits),
         NEW S \in {SerialFound, PartsFound}
  PROVE  /\ S \in SUBSET Whole.marks
         /\ \A t \in Whole.marks \ S : t + Window * ByteBits > input.size * ByteBits
<1>1. /\ BufferType(Whole) /\ TotalBits(Whole) = input.size * ByteBits
      /\ InBuffer(Whole) = Whole.marks /\ input.size * ByteBits \in Nat
  BY WholeFile
<1>2. n \in Nat \ {0} /\ Window * ByteBits \in Nat /\ MagicBits \in Nat \ {0}
  BY ParallelismAssumption, Widths
<1>3. /\ S \in SUBSET Whole.marks
      /\ \A t \in Whole.marks : t + Window * ByteBits <= input.size * ByteBits => Covered(S, t)
  BY ScansCover
<1>4. ASSUME NEW t \in Whole.marks, Covered(S, t) PROVE t \in S
  <2>1. PICK x \in S : x <= t /\ t < x + MagicBits
    BY <1>4 DEF Covered
  <2>2. x \in Whole.marks /\ x \in Nat /\ t \in Nat
    BY <1>1, <1>3, <2>1 DEF BufferType
  <2>3. x < t => x + MagicBits <= t
    BY <2>2 DEF Apart
  <2> QED BY <1>2, <2>1, <2>2, <2>3
<1>5. ASSUME NEW t \in Whole.marks \ S PROVE t + Window * ByteBits > input.size * ByteBits
  <2>1. ~(t + Window * ByteBits <= input.size * ByteBits)
    BY <1>3, <1>4, <1>5
  <2>2. t \in Nat
    BY <1>1 DEF BufferType
  <2> QED BY <1>1, <1>2, <2>1, <2>2
<1> QED BY <1>3, <1>5

\* In a file without magics by coincidence either scan finds the first blocks,
\* in order, and no further one unless it is near the end.
LEMMA FoundWithoutFakes ==
  ASSUME input \in Inputs, n \in Parallelism, input.fakes = {}, NEW S \in {SerialFound, PartsFound}
  PROVE  \E k \in 0 .. Len(input.blocks) :
              /\ Sorted(S) = [i \in 1 .. k |-> input.blocks[i].first]
              /\ \A i \in 1 .. k : input.blocks[i].first + MagicBits <= input.size * ByteBits
              /\ k + 1 \in DOMAIN input.blocks =>
                   input.blocks[k + 1].first + Window * ByteBits > input.size * ByteBits
<1> DEFINE z == 0
           L == Len(input.blocks)
           F(i) == input.blocks[i].first
           top == input.size * ByteBits
           W == Window * ByteBits
<1>1. /\ WellFormed(input) /\ input.size \in Nat /\ top \in Nat /\ BufferType(Whole)
      /\ TotalBits(Whole) = top /\ InBuffer(Whole) = Whole.marks
      /\ \A x \in Whole.marks : x \in Magics(input)
  BY WholeFile
<1>2. /\ L \in Nat /\ DOMAIN input.blocks = 1 .. L /\ \A i \in 1 .. L : F(i) \in Nat
  BY <1>1, BlocksType
<1>3. z \in Nat /\ z <= input.size /\ z * ByteBits = 0 /\ Whole = Buffer(input, Bytes(z, input.size))
      /\ z \in 0 .. L /\ z = 0
  BY <1>1, <1>2, Widths DEF Whole, Data
<1> HIDE DEF z
<1>4. Apart(Whole.marks, MagicBits)
  BY <1>1, <1>3, StretchApart
<1>5. /\ S \in SUBSET Whole.marks
      /\ \A t \in Whole.marks \ S : t + W > top
  BY <1>4, MissedAtEnd
<1>6. \A x \in Whole.marks : \E i \in 1 .. L : x = F(i)
  BY <1>1, <1>2 DEF Magics
<1>7. \A i, j \in 1 .. L : i < j => F(i) + W <= F(j)
  BY <1>1, <1>2, FirstsAscend
<1>8. ASSUME NEW t \in Whole.marks \ S, NEW x \in S PROVE x < t
  <2>1. PICK i \in 1 .. L : t = F(i)
    BY <1>6
  <2>2. PICK j \in 1 .. L : x = F(j)
    BY <1>5, <1>6
  <2>3. t \in Nat /\ x \in Nat /\ t # x /\ W \in Nat \ {0}
    BY <1>2, <2>1, <2>2, Widths
  <2>4. x < top
    BY <1>1, <1>5 DEF InBuffer
  <2>5. t + W > top
    BY <1>5
  <2>6. \/ t + W <= x
        \/ x + W <= t
    <3>1. i < j \/ j < i
      BY <1>2, <2>1, <2>2, <2>3
    <3> QED BY <1>7, <2>1, <2>2, <3>1
  <2> HIDE DEF W, top
  <2> QED BY <1>1, <2>3, <2>4, <2>5, <2>6
<1>9. \A c \in DOMAIN input.blocks : c <= z <=> input.blocks[c].first < z * ByteBits
  <2> SUFFICES ASSUME NEW c \in 1 .. L PROVE c <= z <=> F(c) < z * ByteBits
    BY <1>2
  <2> QED BY <1>2, <1>3
<1>10. PICK k \in 0 .. L - z : FindsBehind(input, z, input.size, z, k, S)
  <2> DEFINE wh == Whole
  <2>1. /\ S \in SUBSET InBuffer(wh) /\ wh = Buffer(input, Bytes(z, input.size))
        /\ \A t \in InBuffer(wh) \ S :
             (\A x \in S : x < t) /\ t + Window * ByteBits > TotalBits(wh)
    BY <1>1, <1>3, <1>5, <1>8
  <2> HIDE DEF wh
  <2> QED BY <1>1, <1>3, <1>9, <2>1, FoundBehind
<1>11. k \in 0 .. L /\ k \in Nat /\ z + k + 1 = k + 1
  BY <1>2, <1>3
<1>12. \A i \in 1 .. k : z + i = i /\ F(i) - z * ByteBits = F(i)
  BY <1>2, <1>3, <1>11
<1>13. Sorted(S) = [i \in 1 .. k |-> F(i)]
  <2>1. Sorted(S) = [i \in 1 .. k |-> F(z + i) - z * ByteBits]
    BY <1>10 DEF FindsBehind
  <2> QED BY <1>12, <2>1
<1>14. \A i \in 1 .. k : F(i) + MagicBits <= top
  BY <1>10, <1>12 DEF FindsBehind
<1>15. k + 1 \in DOMAIN input.blocks => F(k + 1) + W > top
  BY <1>10, <1>11 DEF FindsBehind
<1> QED BY <1>11, <1>13, <1>14, <1>15

\* At the magic of a block stands that block, if the file holds all of it.
LEMMA BlockAtFirst ==
  ASSUME input \in Inputs, NEW i \in Blocks, input.blocks[i].first < input.size * ByteBits
  PROVE  BlockAt(input, Data, input.blocks[i].first) =
           IF input.blocks[i].end <= input.size * ByteBits THEN {i} ELSE {}
<1> DEFINE z == 0
           F(c) == input.blocks[c].first
           E(c) == input.blocks[c].end
           top == input.size * ByteBits
<1>1. /\ WellFormed(input) /\ input.size \in Nat /\ top \in Nat
  BY WholeFile
<1>2. /\ \A c \in Blocks : F(c) \in Nat /\ E(c) \in Nat
      /\ Blocks = 1 .. Len(input.blocks) /\ Len(input.blocks) \in Nat
  BY <1>1, BlocksType DEF Blocks
<1>3. z \in Nat /\ z <= input.size /\ z * ByteBits = 0 /\ Data = Bytes(z, input.size)
      /\ input.size - z = input.size
  BY <1>1, Widths DEF Data
<1> HIDE DEF z
<1>4. \A c \in Blocks : F(c) = F(i) => c = i
  <2>1. \A c, e \in Blocks : c < e => F(c) + Window * ByteBits <= F(e)
    BY <1>1, FirstsAscend DEF Blocks
  <2>2. Window * ByteBits \in Nat \ {0}
    BY Widths
  <2> QED BY <1>2, <2>1, <2>2
<1>5. BlockAt(input, Data, F(i)) = {c \in Blocks : F(c) = F(i) + z * ByteBits /\ E(c) <= top}
  <2>1. F(i) \in Nat /\ F(i) < (input.size - z) * ByteBits
    BY <1>2, <1>3
  <2>2. BlockAt(input, Bytes(z, input.size), F(i)) = StandsAt(input, F(i) + z * ByteBits, top)
    BY <1>1, <1>3, <2>1, BlockAtStretch
  <2> QED BY <1>3, <2>2 DEF Blocks, StandsAt
<1>6. F(i) + z * ByteBits = F(i)
  BY <1>2, <1>3
<1> HIDE DEF F, E, top
<1>7. BlockAt(input, Data, F(i)) = {c \in Blocks : F(c) = F(i) /\ E(c) <= top}
  BY <1>5, <1>6
<1>8. {c \in Blocks : F(c) = F(i) /\ E(c) <= top} = IF E(i) <= top THEN {i} ELSE {}
  BY <1>4
<1> QED BY <1>7, <1>8 DEF F, E, top

LEMMA MinOfOne == ASSUME NEW x \in Nat PROVE Min({x}) = x
BY MinOfNats

\* What decode_block makes of the first bit of a block.
LEMMA DecodeFirst ==
  ASSUME input \in Inputs, NEW i \in Blocks, input.blocks[i].first < input.size * ByteBits
  PROVE  LET s == input.blocks[i].first IN
         /\ input.blocks[i].end <= input.size * ByteBits =>
              Decode(s) = {i} /\ Min(Decode(s)) = i /\ ~ Panics(s)
         /\ ~(input.blocks[i].end <= input.size * ByteBits) /\ Decode(s) # {} =>
              Min(Decode(s)) = Rubbish
<1> DEFINE s == input.blocks[i].first
           whole == input.blocks[i].end <= input.size * ByteBits
<1>1. BlockAt(input, Data, s) = IF whole THEN {i} ELSE {}
  BY BlockAtFirst
<1>2. i \in Nat
  BY DecodeGives
<1>3. Min({i}) = i /\ Min({Rubbish}) = Rubbish
  BY <1>2, MinOfOne DEF Rubbish
<1> HIDE DEF s, whole
<1>4. CASE whole
  BY <1>1, <1>3, <1>4 DEF Decode, Panics, s, whole
<1>5. CASE ~ whole
  <2>1. Decode(s) = IF input.fate[s] # "error" THEN {Rubbish} ELSE {}
    BY <1>1, <1>5 DEF Decode
  <2> QED BY <1>3, <1>5, <2>1 DEF s, whole
<1> QED BY <1>4, <1>5

LEMMA ScannedBoundaries ==
  ASSUME ParInv, phase \notin {"scan", "merge"}, input.fakes = {}
  PROVE  \E k \in 0 .. Len(input.blocks) :
              /\ boundaries = [i \in 1 .. k |-> input.blocks[i].first]
              /\ \A i \in 1 .. k : i \in Blocks /\ input.blocks[i].first < input.size * ByteBits
              /\ \A i \in Blocks : i > k => input.blocks[i].first + Window * ByteBits > input.size * ByteBits
<1> DEFINE L == Len(input.blocks)
           F(i) == input.blocks[i].first
           top == input.size * ByteBits
           W == Window * ByteBits
<1>1. input \in Inputs /\ n \in Parallelism /\ \E S \in {SerialFound, PartsFound} : boundaries = Sorted(S)
  BY DEF ParInv, Found
<1> PICK S \in {SerialFound, PartsFound} : boundaries = Sorted(S)
  BY <1>1
<1>2. WellFormed(input) /\ top \in Nat
  BY <1>1, WholeFile
<1>3. L \in Nat /\ Blocks = 1 .. L /\ DOMAIN input.blocks = 1 .. L /\ \A i \in 1 .. L : F(i) \in Nat
  BY <1>2, BlocksType DEF Blocks
<1>4. PICK k \in 0 .. L :
              /\ Sorted(S) = [i \in 1 .. k |-> F(i)]
              /\ \A i \in 1 .. k : F(i) + MagicBits <= top
              /\ k + 1 \in DOMAIN input.blocks => F(k + 1) + W > top
  BY <1>1, FoundWithoutFakes
<1>5. boundaries = [i \in 1 .. k |-> F(i)]
  BY <1>4
<1>6. MagicBits \in Nat \ {0} /\ W \in Nat
  BY Widths
<1>7. \A i, j \in 1 .. L : i < j => F(i) + W <= F(j)
  BY <1>2, <1>3, FirstsAscend
<1> HIDE DEF F, W, top, L
<1>8. \A i \in 1 .. k : i \in Blocks /\ F(i) < top
  <2>1. \A i \in 1 .. k : i \in 1 .. L
    BY <1>3
  <2> QED BY <1>2, <1>3, <1>4, <1>6, <2>1
<1>9. ASSUME NEW i \in 1 .. L, i > k PROVE F(i) + W > top
  <2>1. k + 1 \in 1 .. L
    BY <1>3, <1>9
  <2>2. F(k + 1) + W > top
    BY <1>3, <1>4, <2>1
  <2>3. i = k + 1 \/ F(k + 1) + W <= F(i)
    BY <1>3, <1>7, <1>9, <2>1
  <2> QED BY <1>2, <1>3, <1>6, <2>1, <2>2, <2>3
<1> QED BY <1>3, <1>5, <1>8, <1>9 DEF F, W, top, L

LEMMA AnswerType ==
  ASSUME input \in Inputs, NEW s \in Seq(Whole.marks)
  PROVE  AnswerFrom(s).ok \in BOOLEAN /\ AnswerFrom(s).blocks \in Seq(Blocks \cup {Rubbish})
<1>1. CASE \E i \in DOMAIN s : Decode(s[i]) = {}
  BY <1>1 DEF AnswerFrom, NoAnswer
<1>2. CASE ~ \E i \in DOMAIN s : Decode(s[i]) = {}
  <2> DEFINE v == [i \in DOMAIN s |-> Min(Decode(s[i]))]
  <2>1. DOMAIN s = 1 .. Len(s) /\ Len(s) \in Nat
    OBVIOUS
  <2>2. \A i \in 1 .. Len(s) : v[i] \in Blocks \cup {Rubbish}
    <3> SUFFICES ASSUME NEW i \in 1 .. Len(s) PROVE Min(Decode(s[i])) \in Blocks \cup {Rubbish}
      BY <2>1
    <3> QED BY <1>2, <2>1, DecodeGives
  <2>3. v = [i \in 1 .. Len(s) |-> v[i]]
    BY <2>1
  <2>4. AnswerFrom(s) = [ok |-> TRUE, blocks |-> v]
    BY <1>2 DEF AnswerFrom
  <2> HIDE DEF v
  <2>5. v \in [1 .. Len(s) -> Blocks \cup {Rubbish}]
    BY <2>2, <2>3
  <2>6. v \in Seq(Blocks \cup {Rubbish})
    BY <2>1, <2>5
  <2> QED BY <2>4, <2>6
<1> QED BY <1>1, <1>2

\* The counter of par_map: an item for each value, and one step past the end
\* for each thread.
LEMMA CounterBound ==
  ASSUME MapInv(SUBSET Nat), MapBounded
  PROVE  next \in 1 .. Len(job.values) + WorkerCount + 1
<1> DEFINE c == Cardinality({t \in Threads : thread[t] = "done"})
           L == Len(job.values)
<1>1. c \in 0 .. WorkerCount /\ next <= L + 1 + c /\ L \in Nat /\ next \in Nat \ {0}
  BY DoneCount DEF MapInv, MapTypeInv, MapBounded
<1>2. WorkerCount \in Nat
  BY WorkerCountAssumption
<1> HIDE DEF c, L
<1>3. next \in 1 .. L + WorkerCount + 1
  BY <1>1, <1>2
<1> QED BY <1>3 DEF L

LEMMA ParInvTypes == ParInv => TypeOK
<1> SUFFICES ASSUME ParInv PROVE TypeOK
  OBVIOUS
<1>1. boundaries \in {<<>>, Sorted(SerialFound), Sorted(PartsFound)}
      /\ input \in Inputs /\ n \in Parallelism
  BY DEF ParInv, Found
<1>2. boundaries \in Seq(0 .. input.size * ByteBits) /\ boundaries \in Seq(Whole.marks)
  BY <1>1, FoundType
<1>3. answer.ok \in BOOLEAN /\ answer.blocks \in Seq(Blocks \cup {Rubbish})
  <2>1. CASE phase = "done"
    <3>1. answer = AnswerFrom(boundaries)
      BY <2>1 DEF ParInv, Outcome
    <3>2. /\ AnswerFrom(boundaries).ok \in BOOLEAN
          /\ AnswerFrom(boundaries).blocks \in Seq(Blocks \cup {Rubbish})
      BY <1>1, <1>2, AnswerType
    <3> QED BY <3>1, <3>2
  <2>2. CASE phase # "done"
    <3>1. answer = [ok |-> FALSE, blocks |-> <<>>]
      BY <2>2 DEF ParInv, Outcome, NoAnswer
    <3> QED BY <3>1
  <2> QED BY <2>1, <2>2
<1>4. next \in 1 .. Len(job.values) + WorkerCount + 1
  BY CounterBound DEF ParInv
<1> QED BY <1>2, <1>3, <1>4 DEF ParInv, TypeOK, MapInv, MapTypeInv, MapBounded

\* A set is what its sorting enumerates.
LEMMA SortedSet ==
  ASSUME input \in Inputs, NEW S \in SUBSET Whole.marks
  PROVE  ToSet(Sorted(S)) = S
<1>1. S \in SUBSET Int /\ IsFiniteSet(S)
  BY MarksType
<1> DEFINE c == Cardinality(S)
           s == Sorted(S)
<1>2. s \in [1 .. c -> S] /\ \A x \in S : \E i \in 1 .. c : s[i] = x
  BY <1>1, SortedAscends
<1> HIDE DEF c, s
<1>3. {s[i] : i \in DOMAIN s} = S
  BY <1>2
<1> QED
  BY <1>3 DEF ToSet, s

LEMMA ParInvMagics == ParInv => NoMagicMissed
<1> DEFINE top == input.size * ByteBits
           W == Window * ByteBits
<1> SUFFICES ASSUME ParInv, Scanned
             PROVE  LET buffer == Buffer(input, Data)
                        found == ToSet(boundaries)
                        serial == FindAllBlocks(buffer)
                    IN  /\ boundaries = Sorted(found) /\ found \subseteq buffer.marks
                        /\ \A m \in buffer.marks :
                             InSight(m) => \E o \in found : o <= m /\ m < o + MagicBits
                        /\ ~MagicsOverlap =>
                             \A m \in (found \ serial) \cup (serial \ found) : ~InSight(m)
  BY DEF NoMagicMissed
<1>1. input \in Inputs /\ n \in Parallelism /\ n \in Nat \ {0}
      /\ \E S \in {SerialFound, PartsFound} : boundaries = Sorted(S)
  BY ParallelismAssumption DEF ParInv, Found, Scanned
<1>2. /\ BufferType(Whole) /\ TotalBits(Whole) = top /\ top \in Nat
      /\ InBuffer(Whole) = Whole.marks /\ Whole.marks \subseteq Nat
  BY <1>1, WholeFile DEF BufferType
<1>3. PICK S \in {SerialFound, PartsFound} : boundaries = Sorted(S)
  BY <1>1
<1>4. /\ S \in SUBSET Whole.marks
      /\ \A m \in Whole.marks : m + W <= top => Covered(S, m)
  BY <1>1, <1>3, ScansCover
<1>5. ToSet(boundaries) = S
  BY <1>1, <1>3, <1>4, SortedSet
<1>6. SerialFound \subseteq Whole.marks
  BY <1>1, WholeFile
<1>7. ASSUME ~MagicsOverlap, NEW m \in (S \ SerialFound) \cup (SerialFound \ S)
      PROVE  ~InSight(m)
  <2>1. Apart(Whole.marks, MagicBits)
    <3>1. \A t, u \in Whole.marks : ~(t < u /\ u < t + MagicBits)
      BY <1>7 DEF MagicsOverlap, Whole
    <3>2. MagicBits \in Nat
      BY Widths
    <3> QED BY <1>2, <3>1, <3>2 DEF Apart
  <2>2. /\ \A t \in Whole.marks \ S : t + W > top
        /\ \A t \in Whole.marks \ SerialFound : t + W > top
    BY <1>1, <1>3, <2>1, MissedAtEnd
  <2>3. m \in Whole.marks /\ m \in Nat /\ m + W > top
    BY <1>2, <1>4, <1>6, <1>7, <2>2
  <2>4. W \in Nat
    BY Widths
  <2> HIDE DEF W, top
  <2>5. ~(m + W <= top)
    BY <1>2, <2>3, <2>4
  <2> QED BY <2>5 DEF InSight, W, top
<1> QED BY <1>3, <1>4, <1>5, <1>7 DEF InSight, Covered, SerialFound, Whole

\* In a complete file no block begins near the end.
LEMMA IntactAway ==
  ASSUME input \in Inputs, Intact
  PROVE  /\ \A b \in Blocks : input.blocks[b].first + Window * ByteBits <= input.size * ByteBits
         /\ \A b \in Blocks : input.blocks[b].end <= input.size * ByteBits
<1> DEFINE F(b) == input.blocks[b].first
           E(b) == input.blocks[b].end
           top == input.size * ByteBits
           W == Window * ByteBits
<1>1. WellFormed(input) /\ top \in Nat /\ \A x \in Whole.marks : x \in Magics(input)
  BY WholeFile
<1>2. \A b \in Blocks : F(b) \in Nat /\ E(b) \in Nat /\ F(b) + W <= E(b) /\ E(b) < top
  BY <1>1, BlocksType DEF Blocks, WellFormed, Intact
<1>3. W \in Nat
  BY Widths
<1>4. \A b \in Blocks : F(b) + W <= top /\ E(b) <= top
  <2> HIDE DEF F, E, W, top
  <2> QED BY <1>1, <1>2, <1>3
<1> QED BY <1>4

LEMMA ParInvIntact == ParInv => IntactDecompresses
<1> SUFFICES ASSUME ParInv, Intact PROVE /\ phase = "done" => answer = [ok |-> TRUE, blocks |-> [b \in Blocks |-> b]]
                                         /\ phase # "panicked"
  BY DEF IntactDecompresses
<1> DEFINE F(b) == input.blocks[b].first
           E(b) == input.blocks[b].end
           top == input.size * ByteBits
           W == Window * ByteBits
<1>1. input \in Inputs /\ input.fakes = {}
  BY DEF ParInv, Intact
<1>2. \A b \in Blocks : F(b) + W <= top /\ E(b) <= top
  BY <1>1, IntactAway
<1>3. SUFFICES ASSUME phase \in {"done", "panicked"}
               PROVE  phase = "done" /\ answer = [ok |-> TRUE, blocks |-> [b \in Blocks |-> b]]
  OBVIOUS
<1>4. PICK k \in 0 .. Len(input.blocks) :
        /\ boundaries = [i \in 1 .. k |-> F(i)]
        /\ \A i \in 1 .. k : i \in Blocks /\ F(i) < top
        /\ \A i \in Blocks : i > k => F(i) + W > top
  BY <1>1, <1>2, <1>3, ScannedBoundaries
<1>5. Blocks = 1 .. Len(input.blocks) /\ Len(input.blocks) \in Nat /\ top \in Nat /\ W \in Nat
      /\ \A b \in Blocks : F(b) \in Nat
  BY <1>1, WholeFile, BlocksType, Widths DEF Blocks
<1>6. Blocks = 1 .. k
  <2>1. \A i \in Blocks : ~(i > k)
    <3> HIDE DEF F, top, W
    <3> QED BY <1>2, <1>4, <1>5
  <2> QED BY <1>4, <1>5, <2>1
<1>7. DOMAIN boundaries = Blocks /\ \A i \in Blocks : boundaries[i] = F(i)
  BY <1>4, <1>6
<1>8. \A i \in Blocks : /\ Decode(boundaries[i]) = {i} /\ Min(Decode(boundaries[i])) = i
                        /\ ~ Panics(boundaries[i])
  BY <1>1, <1>2, <1>4, <1>6, <1>7, DecodeFirst
<1>9. phase = "done"
  BY <1>3, <1>7, <1>8 DEF ParInv, Outcome
<1>10. AnswerFrom(boundaries) = [ok |-> TRUE, blocks |-> [b \in Blocks |-> b]]
  BY <1>7, <1>8 DEF AnswerFrom
<1> QED BY <1>9, <1>10 DEF ParInv, Outcome

LEMMA ParInvPrefix == ParInv => OkIsPrefix
<1> SUFFICES ASSUME ParInv, phase = "done", answer.ok, input.fakes = {},
                    NEW i \in DOMAIN answer.blocks, answer.blocks[i] # i
             PROVE  answer.blocks[i] = Rubbish /\ i = Len(answer.blocks)
  BY DEF OkIsPrefix
<1> DEFINE F(b) == input.blocks[b].first
           E(b) == input.blocks[b].end
           top == input.size * ByteBits
<1>1. input \in Inputs /\ answer = AnswerFrom(boundaries)
  BY DEF ParInv, Outcome
<1>2. PICK k \in 0 .. Len(input.blocks) :
        /\ boundaries = [j \in 1 .. k |-> F(j)]
        /\ \A j \in 1 .. k : j \in Blocks /\ F(j) < top
  BY ScannedBoundaries
<1>3. /\ Blocks = 1 .. Len(input.blocks) /\ Len(input.blocks) \in Nat /\ top \in Nat /\ k \in Nat
      /\ \A b \in Blocks : F(b) \in Nat /\ E(b) \in Nat
      /\ \A b, c \in Blocks : b < c => E(b) <= F(c)
  BY <1>1, WholeFile, BlocksType, BlocksAscend DEF Blocks
<1>4. /\ DOMAIN boundaries = 1 .. k /\ \A j \in 1 .. k : boundaries[j] = F(j)
  BY <1>2
<1>5. /\ \A j \in 1 .. k : Decode(F(j)) # {}
      /\ answer.blocks = [j \in 1 .. k |-> Min(Decode(F(j)))]
  <2>1. ~ \E j \in DOMAIN boundaries : Decode(boundaries[j]) = {}
    BY <1>1 DEF AnswerFrom, NoAnswer
  <2>2. answer.blocks = [j \in DOMAIN boundaries |-> Min(Decode(boundaries[j]))]
    BY <1>1, <2>1 DEF AnswerFrom
  <2> QED BY <1>4, <2>1, <2>2
<1>6. i \in 1 .. k /\ answer.blocks[i] = Min(Decode(F(i))) /\ i \in Blocks /\ F(i) < top
  BY <1>2, <1>5
<1>7. ~(E(i) <= top) /\ answer.blocks[i] = Rubbish
  BY <1>1, <1>5, <1>6, DecodeFirst
<1>8. i = k
  <2> SUFFICES ASSUME i < k PROVE FALSE
    BY <1>3, <1>6
  <2>1. k \in 1 .. k
    BY <1>3, <1>6
  <2>2. k \in Blocks /\ F(k) < top
    BY <1>2, <2>1
  <2>3. E(i) <= F(k) /\ E(i) \in Nat /\ F(k) \in Nat
    BY <1>3, <1>6, <2>2
  <2> HIDE DEF F, E, top
  <2> QED BY <1>3, <1>7, <2>2, <2>3
<1>9. Len(answer.blocks) = k
  <2> DEFINE v == answer.blocks
  <2>1. DOMAIN v = 1 .. k
    BY <1>5
  <2>2. v = [j \in 1 .. k |-> v[j]]
    BY <1>5
  <2> HIDE DEF v
  <2>3. v \in [1 .. k -> {v[j] : j \in 1 .. k}]
    BY <2>2
  <2> QED BY <1>3, <2>3 DEF v
<1> QED BY <1>7, <1>8, <1>9

\* Every variable of decompress_parallel has its type, for every file, number
\* of cores and schedule of the threads.
THEOREM ParallelTypeCorrect == Spec => []TypeOK
BY ParInvHolds, ParInvTypes, PTL

\* For every file, cut and number of threads: find_all_blocks_parallel finds
\* every magic, but one that overlaps another that it found or one in the last
\* bytes; and without overlaps it differs from the serial scan only there.
THEOREM PartsMissNoMagic == Spec => []NoMagicMissed
BY ParInvHolds, ParInvMagics, PTL

\* decompress_parallel gives the blocks of a complete file in order.
THEOREM IntactFilesDecompress == Spec => []IntactDecompresses
BY ParInvHolds, ParInvIntact, PTL

\* Of a file cut short it gives an error, a panic or the blocks from the first
\* on; only the one that is cut can be made up.
THEOREM OkGivesPrefix == Spec => []OkIsPrefix
BY ParInvHolds, ParInvPrefix, PTL

-----------------------------------------------------------------------------
(* ParallelBz2Read                                                         *)

Batch == SubSeq(starts, nextBlock + 1, BatchEnd)
Range0 == {Pieces[i] : i \in DOMAIN starts}

StartsOK ==
  /\ input \in Inputs
  /\ Len(starts) \in Nat /\ DOMAIN starts = 1 .. Len(starts)

\* The buffer is the stretch of the pieces that ends at next_block, and the
\* caller has what lies before bufPos.
Place ==
  /\ nextBlock \in 0 .. Len(starts)
  /\ Len(buf) \in 0 .. nextBlock /\ bufPos \in 0 .. Len(buf)
  /\ buf = SubSeq(Pieces, nextBlock - Len(buf) + 1, nextBlock)
  /\ delivered = SubSeq(Pieces, 1, nextBlock - Len(buf) + bufPos)

InBatch ==
  phase = "batch" => job = DecodeJob(Batch) /\ Remaining > 0 /\ bufPos = Len(buf)

SliceInv == StartsOK /\ Place /\ InBatch /\ MapInv(SUBSET Nat)

LEMMA PiecesSeq == ASSUME StartsOK
                   PROVE  /\ Pieces \in Seq(Range0) /\ Len(Pieces) = Len(starts)
                          /\ DOMAIN Pieces = 1 .. Len(starts)
<1>1. Pieces = [i \in 1 .. Len(starts) |-> Pieces[i]] /\ \A i \in 1 .. Len(starts) : Pieces[i] \in Range0
  BY DEF StartsOK, Pieces, Range0
<1>2. Pieces \in [1 .. Len(starts) -> Range0] /\ Len(starts) \in Nat
  BY <1>1 DEF StartsOK
<1> QED
  BY <1>2

\* What decode_block gives is a set of block numbers.
LEMMA DecodeType == ASSUME StartsOK, NEW s PROVE Decode(s) \in SUBSET Nat
<1>1. Decode(s) \in SUBSET (Blocks \cup {Rubbish}) /\ Blocks \cup {Rubbish} \subseteq Nat
  BY DecodeGives DEF StartsOK, Rubbish
<1> QED
  BY <1>1

LEMMA BatchEndType ==
  ASSUME StartsOK, nextBlock \in 0 .. Len(starts)
  PROVE  /\ Remaining \in Nat /\ Remaining = Len(starts) - nextBlock
         /\ BatchEnd \in nextBlock .. Len(starts)
         /\ Remaining > 0 => BatchEnd > nextBlock
<1>1. Remaining \in Nat /\ BatchSize \in Nat \ {0} /\ Remaining = Len(starts) - nextBlock
  BY SliceAssumption DEF StartsOK, Remaining
<1>2. BatchEnd = nextBlock + (IF Remaining <= BatchSize THEN Remaining ELSE BatchSize)
  BY <1>1, MinOfTwo DEF BatchEnd
<1>3. nextBlock \in Nat /\ Len(starts) \in Nat
  BY DEF StartsOK
<1> HIDE DEF Remaining, BatchEnd
<1>4. CASE Remaining <= BatchSize
  BY <1>1, <1>2, <1>3, <1>4
<1>5. CASE ~(Remaining <= BatchSize)
  BY <1>1, <1>2, <1>3, <1>5
<1> QED
  BY <1>1, <1>3, <1>4, <1>5

\* The job of a batch is one par_map can be given.
LEMMA BatchJob ==
  ASSUME StartsOK, nextBlock \in 0 .. Len(starts)
  PROVE  /\ DecodeJob(Batch) \in Jobs(SUBSET Nat)
         /\ DOMAIN DecodeJob(Batch).values = 1 .. (BatchEnd - nextBlock)
         /\ \A i \in 1 .. (BatchEnd - nextBlock) :
              DecodeJob(Batch).values[i] = Decode(starts[nextBlock + i])
<1> DEFINE m == BatchEnd - nextBlock
<1>1. m \in Nat /\ nextBlock \in Nat /\ BatchEnd \in Nat /\ BatchEnd <= Len(starts)
  BY BatchEndType DEF StartsOK
<1>2. /\ Batch \in Seq({starts[i] : i \in 1 .. Len(starts)}) /\ Len(Batch) = m
      /\ \A i \in 1 .. m : Batch[i] = starts[nextBlock + i]
  <2> DEFINE R == {starts[j] : j \in 1 .. Len(starts)}
  <2>1. \A i \in nextBlock + 1 .. BatchEnd : starts[i] \in R
    BY <1>1
  <2> HIDE DEF R
  <2>2. /\ Batch \in Seq(R)
        /\ Len(Batch) = IF nextBlock + 1 <= BatchEnd THEN BatchEnd - (nextBlock + 1) + 1 ELSE 0
        /\ \A i \in 1 .. BatchEnd - (nextBlock + 1) + 1 : Batch[i] = starts[nextBlock + 1 + i - 1]
    <3>1. nextBlock + 1 \in Int /\ BatchEnd \in Int
      BY <1>1
    <3> QED
      BY <2>1, <3>1, SubSeqProperties DEF Batch
  <2>3. Len(Batch) = m
    BY <1>1, <2>2
  <2>4. \A i \in 1 .. m : Batch[i] = starts[nextBlock + i]
    BY <1>1, <2>2
  <2> QED BY <2>2, <2>3, <2>4 DEF R
<1>3. DOMAIN Batch = 1 .. m
  BY <1>1, <1>2
<1>4. DecodeJob(Batch).values \in [1 .. m -> SUBSET Nat]
  BY <1>3, DecodeType DEF DecodeJob
<1>5. DecodeJob(Batch).values \in Seq(SUBSET Nat) /\ Len(DecodeJob(Batch).values) = m
  BY <1>1, <1>4
<1>6. DecodeJob(Batch).panics \subseteq 1 .. m
  BY <1>3 DEF DecodeJob
<1>7. DecodeJob(Batch) \in [values : Seq(SUBSET Nat), panics : SUBSET Nat]
  BY <1>1, <1>5, <1>6 DEF DecodeJob
<1>8. \A i \in 1 .. m : DecodeJob(Batch).values[i] = Decode(starts[nextBlock + i])
  BY <1>2, <1>3 DEF DecodeJob
<1> QED
  BY <1>4, <1>5, <1>6, <1>7, <1>8 DEF Jobs

\* Copying from a stretch of the pieces that ends at e hands out what comes
\* next.
LEMMA CopyHandsOn ==
  ASSUME StartsOK, NEW u, NEW e \in 0 .. Len(starts), NEW from, NEW k \in Nat \ {0},
         Len(u) \in 0 .. e, from \in 0 .. Len(u) - 1,
         u = SubSeq(Pieces, e - Len(u) + 1, e),
         delivered = SubSeq(Pieces, 1, e - Len(u) + from),
         CopyOut(u, from, k)
  PROVE  /\ bufPos' \in from + 1 .. Len(u)
         /\ delivered' = SubSeq(Pieces, 1, e - Len(u) + bufPos')
         /\ reply' = "bytes"
         /\ \E n_1 \in Len(delivered) + 1 .. Len(Pieces) : delivered' = SubSeq(Pieces, 1, n_1)
<1> DEFINE L == Len(u)
           m == Min({k, L - from})
           P == Pieces
<1>1. /\ L \in Nat /\ from \in Nat /\ e \in Nat /\ L <= e /\ from < L
      /\ e <= Len(starts) /\ Len(starts) \in Nat
  BY DEF StartsOK
<1>2. m \in 1 .. L - from
  <2> DEFINE r == L - from
  <2>1. r \in Nat \ {0} /\ k \in Int /\ r \in Int
    BY <1>1
  <2> HIDE DEF r
  <2>2. Min({k, r}) = IF k <= r THEN k ELSE r
    BY <2>1, MinOfTwo
  <2>3. Min({k, r}) \in 1 .. r
    BY <2>1, <2>2
  <2> QED
    BY <2>3 DEF r
<1>3. /\ delivered' = delivered \o SubSeq(u, from + 1, from + m)
      /\ bufPos' = from + m /\ reply' = "bytes"
  BY <1>2, <1>1 DEF CopyOut
<1> HIDE DEF m
<1>4. P \in Seq(Range0) /\ Len(P) = Len(starts)
  BY PiecesSeq
<1> HIDE DEF P, L
<1>5. u = SubSeq(P, e - L + 1, e) /\ delivered = SubSeq(P, 1, e - L + from)
  BY DEF P, L
<1>6. SubSeq(u, from + 1, from + m) = SubSeq(P, e - L + from + 1, e - L + from + m)
  <2> DEFINE a == e - L + 1
             c == from + 1
             d == from + m
  <2>1. /\ a \in 1 .. Len(P) /\ e \in 1 .. Len(P)
        /\ c \in 1 .. e - a + 1 /\ d \in 1 .. e - a + 1
    BY <1>1, <1>2, <1>4
  <2>2. a + c - 1 = e - L + from + 1 /\ a + d - 1 = e - L + from + m
    BY <1>1, <1>2
  <2> HIDE DEF a, c, d
  <2>3. SubSeq(SubSeq(P, a, e), c, d) = SubSeq(P, a + c - 1, a + d - 1)
    BY <1>4, <2>1, SubSeqOfSubSeq
  <2> QED
    BY <1>5, <2>2, <2>3 DEF a, c, d
<1>7. delivered' = SubSeq(P, 1, e - L + from + m)
  <2> DEFINE a == e - L + from
  <2>1. /\ 1 \in 1 .. Len(P) + 1 /\ a \in 1 - 1 .. Len(P) /\ a + m \in a .. Len(P)
    BY <1>1, <1>2, <1>4
  <2> HIDE DEF a
  <2>2. SubSeq(P, 1, a) \o SubSeq(P, a + 1, a + m) = SubSeq(P, 1, a + m)
    BY <1>4, <2>1, ConcatAdjacentSubSeq
  <2> QED
    BY <1>3, <1>5, <1>6, <2>2 DEF a
<1>8. Len(delivered) = e - L + from
  <2> DEFINE a == e - L + from
  <2>1. a \in Nat /\ a <= Len(P) /\ \A i \in 1 .. a : P[i] \in Range0
    BY <1>1, <1>4
  <2> HIDE DEF a
  <2>2. Len(SubSeq(P, 1, a)) = IF 1 <= a THEN a - 1 + 1 ELSE 0
    BY <2>1, SubSeqProperties
  <2>3. Len(SubSeq(P, 1, a)) = a
    BY <2>1, <2>2
  <2> QED
    BY <1>5, <2>3 DEF a
<1>9. e - L + bufPos' = e - L + from + m
  BY <1>1, <1>2, <1>3
<1>10. e - L + from + m \in Len(delivered) + 1 .. Len(P)
  BY <1>1, <1>2, <1>4, <1>8
<1>11. bufPos' \in from + 1 .. L
  BY <1>1, <1>2, <1>3
<1> QED
  BY <1>3, <1>7, <1>9, <1>10, <1>11 DEF P, L

\* The file and its boundaries stay, and with them the pieces.
LEMMA FileStays ==
  ASSUME StartsOK, UNCHANGED <<input, starts>>
  PROVE  StartsOK' /\ Pieces' = Pieces
BY DEF StartsOK, Pieces, PieceOf, Decode, BlockAt, Data, Missing, Rubbish

\* While the threads run, they run the batch.
LEMMA BatchStays ==
  ASSUME UNCHANGED <<input, starts, nextBlock>>
  PROVE  /\ DecodeJob(Batch)' = DecodeJob(Batch)
         /\ Remaining' = Remaining /\ BatchEnd' = BatchEnd
BY DEF DecodeJob, Batch, BatchEnd, Remaining, Decode, Panics, Data, Rubbish

\* Before the first call, nothing is decoded.
LEMMA SliceInvInit == ASSUME SliceInit PROVE SliceInv
<1>1. StartsOK
  <2> DEFINE S == SerialFound
  <2>1. input \in Inputs /\ starts = Sorted(S)
    BY DEF SliceInit, SerialFound, Whole
  <2>2. IsFiniteSet(S)
    BY <2>1, WholeFile, MarksType
  <2> HIDE DEF S
  <2>3. Cardinality(S) \in Nat /\ DOMAIN starts = 1 .. Cardinality(S)
    BY <2>1, <2>2, FS_CardinalityType DEF Sorted
  <2>4. starts \in [1 .. Cardinality(S) -> {starts[i] : i \in 1 .. Cardinality(S)}]
    BY <2>1, <2>3 DEF Sorted
  <2>5. Len(starts) = Cardinality(S)
    BY <2>3, <2>4, LenProperties
  <2> QED
    BY <2>1, <2>3, <2>5 DEF StartsOK
<1>2. Place
  <2>1. SubSeq(Pieces, 1, 0) = <<>>
    BY SubSeqEmpty
  <2>2. Len(starts) \in Nat /\ Len(buf) = 0 /\ nextBlock = 0 /\ bufPos = 0
        /\ buf = <<>> /\ delivered = <<>>
    BY <1>1 DEF SliceInit, Unread, StartsOK
  <2> QED
    BY <2>1, <2>2 DEF Place
<1>3. InBatch /\ MapInv(SUBSET Nat)
  BY MapInvInit DEF SliceInit, InBatch
<1> QED
  BY <1>1, <1>2, <1>3 DEF SliceInv

LEMMA ServesBuffered ==
  ASSUME SliceInv, NEW k \in BufSizes, ReadBuffered(k)
  PROVE  StartsOK' /\ Place' /\ InBatch' /\ Promise!Piece
<1>1. StartsOK /\ Place /\ StartsOK' /\ Pieces' = Pieces
  BY FileStays DEF SliceInv, ReadBuffered, vars, mainVars
<1>2. /\ bufPos < Len(buf) /\ CopyOut(buf, bufPos, k)
      /\ UNCHANGED <<starts, nextBlock, buf, phase>> /\ phase = "idle"
  BY DEF ReadBuffered, Calls, vars, mainVars
<1>3. /\ bufPos \in 0 .. Len(buf) - 1 /\ k \in Nat \ {0} /\ nextBlock \in 0 .. Len(starts)
      /\ Len(buf) \in 0 .. nextBlock /\ Len(buf) \in Nat
      /\ buf = SubSeq(Pieces, nextBlock - Len(buf) + 1, nextBlock)
      /\ delivered = SubSeq(Pieces, 1, nextBlock - Len(buf) + bufPos)
  BY <1>1, <1>2, SliceAssumption DEF Place, StartsOK
<1>4. /\ bufPos' \in bufPos + 1 .. Len(buf)
      /\ delivered' = SubSeq(Pieces, 1, nextBlock - Len(buf) + bufPos')
      /\ reply' = "bytes"
      /\ \E n_1 \in Len(delivered) + 1 .. Len(Pieces) : delivered' = SubSeq(Pieces, 1, n_1)
  BY <1>1, <1>2, <1>3, CopyHandsOn
<1>5. bufPos' \in 0 .. Len(buf)
  BY <1>3, <1>4
<1>6. Place'
  BY <1>1, <1>2, <1>3, <1>4, <1>5 DEF Place
<1>7. InBatch'
  BY <1>2 DEF InBatch
<1> QED
  BY <1>1, <1>4, <1>6, <1>7 DEF Promise!Piece

LEMMA ServesBatch ==
  ASSUME SliceInv, NEW k \in BufSizes, BatchServes(k)
  PROVE  StartsOK' /\ Place' /\ InBatch' /\ Promise!Piece
<1>1. StartsOK /\ Place /\ StartsOK' /\ Pieces' = Pieces
  BY FileStays DEF SliceInv, BatchServes
<1>2. /\ result = DecodeJob(Batch).values /\ Remaining > 0 /\ bufPos = Len(buf)
      /\ k \in Nat \ {0} /\ nextBlock \in 0 .. Len(starts) /\ nextBlock \in Nat
      /\ Len(starts) \in Nat
  BY SliceAssumption DEF SliceInv, BatchServes, InBatch, MapInv, ResultInOrder, Place, StartsOK
<1> DEFINE m == BatchEnd - nextBlock
<1>3. /\ DOMAIN result = 1 .. m
      /\ \A i \in 1 .. m : result[i] = Decode(starts[nextBlock + i])
  BY <1>1, <1>2, BatchJob
<1>4. BatchEnd \in nextBlock .. Len(starts) /\ BatchEnd \in Nat /\ m \in Nat \ {0}
  BY <1>1, <1>2, BatchEndType
<1> HIDE DEF m
<1>5. buf' = [i \in 1 .. m |-> Pieces[nextBlock + i]]
  <2>1. \A i \in 1 .. m : nextBlock + i \in 1 .. Len(starts)
    BY <1>2, <1>4 DEF m
  <2>2. \A i \in 1 .. m : Pieces[nextBlock + i] = PieceOf(Decode(starts[nextBlock + i]))
    BY <1>1, <2>1 DEF Pieces, StartsOK
  <2>3. buf' = [i \in 1 .. m |-> PieceOf(result[i])]
    BY <1>3 DEF BatchServes
  <2> QED
    BY <1>3, <2>2, <2>3
<1>6. /\ buf' = SubSeq(Pieces, nextBlock + 1, BatchEnd)
      /\ Len(buf') = m
  <2>1. SubSeq(Pieces, nextBlock + 1, BatchEnd)
          = [i \in 1 .. BatchEnd - (nextBlock + 1) + 1 |-> Pieces[nextBlock + 1 + i - 1]]
    BY <1>2, <1>4, Stretch
  <2>2. /\ BatchEnd - (nextBlock + 1) + 1 = m
        /\ \A i \in 1 .. m : nextBlock + 1 + i - 1 = nextBlock + i
    BY <1>2, <1>4 DEF m
  <2>3. buf' = SubSeq(Pieces, nextBlock + 1, BatchEnd)
    BY <1>5, <2>1, <2>2
  <2>4. buf' \in [1 .. m -> {Pieces[nextBlock + i] : i \in 1 .. m}] /\ m \in Nat
    BY <1>4, <1>5
  <2>5. Len(buf') = m
    BY <2>4
  <2> QED
    BY <2>3, <2>5
<1>7. BatchEnd - m = nextBlock /\ m \in 0 .. BatchEnd /\ 0 \in 0 .. m - 1
  BY <1>2, <1>4 DEF m
<1>8. delivered = SubSeq(Pieces, 1, BatchEnd - m + 0)
  <2>1. nextBlock - Len(buf) + Len(buf) = nextBlock /\ BatchEnd - m + 0 = nextBlock
    BY <1>1, <1>2, <1>7 DEF Place
  <2> QED
    BY <1>1, <1>2, <2>1 DEF Place
<1>9. CopyOut(buf', 0, k) /\ nextBlock' = BatchEnd /\ phase' = "idle"
  BY DEF BatchServes
<1>10. PICK u : u = buf'
  OBVIOUS
<1>11. /\ bufPos' \in 0 + 1 .. Len(u)
       /\ delivered' = SubSeq(Pieces, 1, BatchEnd - Len(u) + bufPos')
       /\ reply' = "bytes"
       /\ \E n_1 \in Len(delivered) + 1 .. Len(Pieces) : delivered' = SubSeq(Pieces, 1, n_1)
  <2>1. /\ Len(u) = m /\ Len(u) \in 0 .. BatchEnd /\ 0 \in 0 .. Len(u) - 1
        /\ u = SubSeq(Pieces, BatchEnd - Len(u) + 1, BatchEnd)
        /\ delivered = SubSeq(Pieces, 1, BatchEnd - Len(u) + 0)
        /\ CopyOut(u, 0, k) /\ BatchEnd \in 0 .. Len(starts)
    BY <1>2, <1>4, <1>6, <1>7, <1>8, <1>9, <1>10
  <2> QED
    BY <1>1, <1>2, <2>1, CopyHandsOn
<1>12. Place'
  <2>1. bufPos' \in 0 .. Len(buf') /\ Len(buf') \in 0 .. nextBlock'
        /\ nextBlock' \in 0 .. Len(starts')
    <3>1. Len(starts') = Len(starts)
      BY DEF BatchServes
    <3> QED
      BY <1>2, <1>4, <1>6, <1>7, <1>9, <1>10, <1>11, <3>1
  <2>2. nextBlock' - Len(buf') + 1 = nextBlock + 1
    BY <1>6, <1>7, <1>9
  <2> QED
    BY <1>1, <1>6, <1>9, <1>10, <1>11, <2>1, <2>2 DEF Place
<1>13. InBatch'
  BY <1>9 DEF InBatch
<1> QED
  BY <1>1, <1>11, <1>12, <1>13 DEF Promise!Piece, BatchServes

LEMMA AnswersZero ==
  ASSUME SliceInv, ReadAtEnd
  PROVE  StartsOK' /\ Place' /\ InBatch' /\ Promise!EndOfFile
<1>1. StartsOK /\ Place /\ StartsOK' /\ Pieces' = Pieces
  BY FileStays DEF SliceInv, ReadAtEnd, vars, mainVars
<1>2. /\ buf' = <<>> /\ bufPos' = 0 /\ reply' = "zero" /\ phase = "idle"
      /\ UNCHANGED <<phase, nextBlock, delivered, starts>>
  BY DEF ReadAtEnd, Fills, Calls, vars, mainVars
<1>3. nextBlock = Len(starts) /\ bufPos = Len(buf) /\ Len(buf) \in Nat /\ nextBlock \in Nat
  <2>1. /\ bufPos >= Len(buf) /\ Len(starts) - nextBlock = 0
        /\ bufPos \in 0 .. Len(buf) /\ Len(buf) \in 0 .. nextBlock
        /\ nextBlock \in 0 .. Len(starts) /\ Len(starts) \in Nat
    BY <1>1 DEF ReadAtEnd, Fills, Remaining, Place, StartsOK
  <2>2. nextBlock \in Nat /\ Len(buf) \in Nat /\ bufPos \in Nat
    BY <2>1
  <2> QED
    BY <2>1, <2>2
<1>4. delivered = SubSeq(Pieces, 1, Len(Pieces)) /\ Pieces \in Seq(Range0)
  <2>1. nextBlock - Len(buf) + bufPos = Len(starts)
    BY <1>3
  <2> QED
    BY <1>1, <2>1, PiecesSeq DEF Place
<1>5. delivered = Pieces
  BY <1>4, SubSeqFull
<1>6. /\ Len(buf') = 0 /\ nextBlock' - Len(buf') + bufPos' = Len(Pieces)
      /\ nextBlock' - Len(buf') + 1 > nextBlock'
      /\ nextBlock' - Len(buf') + 1 \in Int /\ nextBlock' \in Int
  BY <1>1, <1>2, <1>3, PiecesSeq
<1>7. buf' = SubSeq(Pieces, nextBlock' - Len(buf') + 1, nextBlock')
  BY <1>2, <1>6, SubSeqEmpty
<1>8. Place'
  BY <1>1, <1>2, <1>3, <1>4, <1>6, <1>7 DEF Place
<1> QED
  BY <1>1, <1>2, <1>5, <1>8 DEF InBatch, Promise!EndOfFile

\* The other steps hand out nothing.
LEMMA HandsOutNothing ==
  ASSUME SliceInv, UNCHANGED <<input, starts, nextBlock, buf, bufPos, delivered>>
  PROVE  StartsOK' /\ Place' /\ Pieces' = Pieces
<1>1. StartsOK' /\ Pieces' = Pieces
  BY FileStays DEF SliceInv
<1> QED
  BY <1>1 DEF SliceInv, Place

LEMMA NothingHanded ==
  ASSUME Pieces' = Pieces, UNCHANGED <<delivered, reply>>
  PROVE  [Promise!Next]_(Promise!vars)
BY DEF Promise!vars

LEMMA PromiseKept ==
  ASSUME Promise!Piece \/ Promise!EndOfFile \/ Promise!Fail
  PROVE  [Promise!Next]_(Promise!vars)
BY DEF Promise!Next

LEMMA MapGoesOn ==
  ASSUME SliceInv, [MapStep]_mapVars PROVE MapInv(SUBSET Nat)'
<1>1. [MapStep \/ \E j \in {} : Call(j)]_mapVars
  OBVIOUS
<1> QED
  BY <1>1, MapInvStep DEF SliceInv

LEMMA MapCalled ==
  ASSUME SliceInv, FillBatch PROVE MapInv(SUBSET Nat)'
<1>1. DecodeJob(Batch) \in Jobs(SUBSET Nat) /\ Call(DecodeJob(Batch))
  BY BatchJob DEF SliceInv, Place, FillBatch, Batch
<1> QED
  BY <1>1, MapInvSequential, MapInvParallel DEF Call, SliceInv

\* Every step keeps the invariant and is one the contract of Read allows.
LEMMA SliceStep ==
  ASSUME SliceInv, [SliceNext]_allVars
  PROVE  SliceInv' /\ [Promise!Next]_(Promise!vars)
<1> DEFINE Good == StartsOK' /\ Place' /\ InBatch' /\ MapInv(SUBSET Nat)'
                   /\ [Promise!Next]_(Promise!vars)
<1> SUFFICES Good
  BY DEF SliceInv
<1>1. ASSUME NEW k \in BufSizes, ReadBuffered(k) PROVE Good
  <2>1. [MapStep]_mapVars
    BY <1>1 DEF ReadBuffered, vars
  <2> QED
    BY <1>1, <2>1, MapGoesOn, ServesBuffered, PromiseKept
<1>2. ASSUME NEW k \in BufSizes, BatchServes(k) PROVE Good
  <2>1. [MapStep]_mapVars
    BY <1>2 DEF BatchServes
  <2> QED
    BY <1>2, <2>1, MapGoesOn, ServesBatch, PromiseKept
<1>3. CASE ReadAtEnd
  <2>1. [MapStep]_mapVars
    BY <1>3 DEF ReadAtEnd, vars
  <2> QED
    BY <1>3, <2>1, MapGoesOn, AnswersZero, PromiseKept
<1>4. CASE FillBatch
  <2>1. StartsOK' /\ Place' /\ Pieces' = Pieces /\ UNCHANGED <<delivered, reply>>
    BY <1>4, HandsOutNothing DEF FillBatch, readVars
  <2>2. /\ Remaining' = Remaining /\ DecodeJob(Batch)' = DecodeJob(Batch)
        /\ Remaining > 0 /\ bufPos' = bufPos /\ buf' = buf
    BY <1>4, BatchStays DEF FillBatch, readVars
  <2>3. bufPos = Len(buf)
    <3>1. bufPos >= Len(buf) /\ bufPos \in 0 .. Len(buf) /\ Len(buf) \in Nat
      BY <1>4 DEF FillBatch, Fills, SliceInv, Place, StartsOK
    <3> QED
      BY <3>1
  <2>4. job' = DecodeJob(Batch)
    BY <1>4 DEF FillBatch, Batch, Call, CallSequential, CallParallel
  <2>5. InBatch'
    BY <2>2, <2>3, <2>4 DEF InBatch
  <2> QED
    BY <1>4, <2>1, <2>5, MapCalled, NothingHanded
<1>5. CASE BatchFails
  <2>1. StartsOK' /\ Place' /\ Pieces' = Pieces /\ [MapStep]_mapVars
    BY <1>5, HandsOutNothing DEF BatchFails
  <2>2. InBatch' /\ Promise!Fail
    BY <1>5, <2>1 DEF BatchFails, InBatch, Promise!Fail
  <2> QED
    BY <2>1, <2>2, MapGoesOn, PromiseKept
<1>6. CASE BatchPanics
  <2>1. StartsOK' /\ Place' /\ Pieces' = Pieces /\ [MapStep]_mapVars
    BY <1>6, HandsOutNothing DEF BatchPanics, readVars
  <2>2. InBatch' /\ UNCHANGED <<delivered, reply>>
    BY <1>6 DEF BatchPanics, readVars, InBatch
  <2> QED
    BY <2>1, <2>2, MapGoesOn, NothingHanded
<1>7. CASE ThreadsRun
  <2>1. StartsOK' /\ Place' /\ Pieces' = Pieces /\ [MapStep]_mapVars
    BY <1>7, HandsOutNothing DEF ThreadsRun, mainVars, readVars
  <2>2. InBatch'
    <3>1. UNCHANGED <<input, starts, nextBlock, buf, bufPos, phase>>
      BY <1>7 DEF ThreadsRun, mainVars, readVars
    <3>2. job' = job
      BY <1>7 DEF ThreadsRun, MapStep, ThreadStep, Join, Claim, Store, Panic
    <3> QED
      BY <3>1, <3>2, BatchStays DEF InBatch, SliceInv
  <2>3. UNCHANGED <<delivered, reply>>
    BY <1>7 DEF ThreadsRun, readVars
  <2> QED
    BY <2>1, <2>2, <2>3, MapGoesOn, NothingHanded
<1>8. CASE UNCHANGED allVars
  <2>1. StartsOK' /\ Place' /\ Pieces' = Pieces /\ [MapStep]_mapVars
    BY <1>8, HandsOutNothing DEF allVars, vars, mainVars, readVars
  <2>2. InBatch'
    BY <1>8, BatchStays DEF InBatch, SliceInv, allVars, vars, mainVars, mapVars, readVars
  <2>3. UNCHANGED <<delivered, reply>>
    BY <1>8 DEF allVars, readVars
  <2> QED
    BY <2>1, <2>2, <2>3, MapGoesOn, NothingHanded
<1> QED
  BY <1>1, <1>2, <1>3, <1>4, <1>5, <1>6, <1>7, <1>8
     DEF SliceNext, ReadStep, ReadEnded

\* Whatever the file, the threads and the sizes of batches and buffers,
\* ParallelBz2Read hands its caller the decoded blocks in order, each once,
\* and zero bytes only when all are delivered, also after errors.
THEOREM SliceImplementsRead == SliceSafeSpec => SliceKeepsPromise
<1>1. SliceInit => SliceInv
  BY SliceInvInit
<1>2. SliceInit => Promise!Init
  BY DEF SliceInit, Unread, Promise!Init
<1>3. SliceInv /\ [SliceNext]_allVars => SliceInv' /\ [Promise!Next]_(Promise!vars)
  BY SliceStep
<1> QED
  BY <1>1, <1>2, <1>3, PTL DEF SliceSafeSpec, SliceKeepsPromise, Promise!Spec

-----------------------------------------------------------------------------
(* Damaged blocks, and the types                                           *)

\* Every block served was decoded, a batch ends where the next one begins
\* or at the end, and a caller that has given up does not wait for a batch.
Sound == \A i \in 1 .. nextBlock : Decode(starts[i]) # {}
WholeBatches == nextBlock = Len(starts) \/ \E q \in Nat : nextBlock = q * BatchSize
Caller ==
  /\ reply \in {"none", "bytes", "zero", "error"}
  /\ failures \in 0 .. Retries + 1
  /\ phase = "batch" => failures <= Retries

BatchInv == Sound /\ WholeBatches /\ Caller

LEMMA BatchInvInit == ASSUME SliceInit PROVE BatchInv
<1>1. nextBlock = 0 * BatchSize /\ 0 \in Nat /\ Retries \in Nat
  BY SliceAssumption DEF SliceInit, Unread
<1> QED
  BY <1>1 DEF SliceInit, Unread, BatchInv, Sound, WholeBatches, Caller

\* Steps that serve no batch.
LEMMA SameBatch ==
  ASSUME BatchInv, UNCHANGED <<input, starts, nextBlock>>, Caller'
  PROVE  BatchInv'
<1>1. \A i \in 1 .. nextBlock : Decode(starts[i])' = Decode(starts[i])
  BY DEF Decode, BlockAt, Data
<1> QED
  BY <1>1 DEF BatchInv, Sound, WholeBatches

LEMMA NextBatch ==
  ASSUME SliceInv, BatchInv, NEW k \in BufSizes, BatchServes(k)
  PROVE  BatchInv'
<1>1. StartsOK /\ Place /\ InBatch /\ StartsOK' /\ UNCHANGED <<input, starts>>
  BY FileStays DEF SliceInv, BatchServes
<1>2. /\ result = DecodeJob(Batch).values /\ Remaining > 0
      /\ nextBlock \in 0 .. Len(starts) /\ nextBlock \in Nat
      /\ Len(starts) \in Nat /\ BatchSize \in Nat \ {0}
  BY SliceAssumption DEF SliceInv, BatchServes, InBatch, MapInv, ResultInOrder, Place, StartsOK
<1>3. /\ DOMAIN result = 1 .. BatchEnd - nextBlock
      /\ \A i \in 1 .. BatchEnd - nextBlock : result[i] = Decode(starts[nextBlock + i])
  BY <1>1, <1>2, BatchJob
<1>4. /\ BatchEnd \in nextBlock .. Len(starts) /\ BatchEnd \in Nat
      /\ Remaining \in Nat /\ Remaining = Len(starts) - nextBlock
  BY <1>1, <1>2, BatchEndType
<1>5. nextBlock' = BatchEnd /\ ~Failed
  BY DEF BatchServes
<1>6. \A i \in 1 .. BatchEnd : Decode(starts[i])' = Decode(starts[i])
  BY <1>1 DEF Decode, BlockAt, Data
<1>7. ASSUME NEW i \in 1 .. BatchEnd PROVE Decode(starts[i]) # {}
  <2>1. CASE i <= nextBlock
    BY <1>2, <2>1 DEF BatchInv, Sound
  <2>2. CASE i > nextBlock
    <3> DEFINE j == i - nextBlock
    <3>1. j \in 1 .. BatchEnd - nextBlock /\ nextBlock + j = i
      BY <1>2, <1>4, <2>2
    <3> HIDE DEF j
    <3> QED
      BY <1>3, <1>5, <3>1 DEF Failed
  <2> QED
    BY <1>2, <2>1, <2>2
<1>8. Sound'
  BY <1>1, <1>5, <1>6, <1>7 DEF Sound
<1>9. WholeBatches'
  <2>1. Min({Remaining, BatchSize}) = IF Remaining <= BatchSize THEN Remaining ELSE BatchSize
    BY <1>2, <1>4, MinOfTwo
  <2>2. CASE Remaining <= BatchSize
    <3>1. BatchEnd = Len(starts)
      BY <1>2, <1>4, <2>1, <2>2 DEF BatchEnd
    <3> QED
      BY <1>1, <1>5, <3>1 DEF WholeBatches
  <2>3. CASE ~(Remaining <= BatchSize)
    <3>1. nextBlock # Len(starts) /\ BatchEnd = nextBlock + BatchSize
      BY <1>2, <1>4, <2>1, <2>3 DEF BatchEnd
    <3>2. PICK q \in Nat : nextBlock = q * BatchSize
      BY <3>1 DEF BatchInv, WholeBatches
    <3>3. BatchEnd = (q + 1) * BatchSize /\ q + 1 \in Nat
      BY <1>2, <3>1, <3>2
    <3> QED
      BY <1>5, <3>3 DEF WholeBatches
  <2> QED
    BY <2>2, <2>3
<1>10. Caller'
  BY DEF BatchServes, CopyOut, BatchInv, Caller
<1> QED
  BY <1>8, <1>9, <1>10 DEF BatchInv

LEMMA BatchInvStep ==
  ASSUME SliceInv, BatchInv, [SliceNext]_allVars
  PROVE  BatchInv'
<1>1. ASSUME NEW k \in BufSizes, ReadBuffered(k) PROVE BatchInv'
  <2>1. Caller' /\ UNCHANGED <<input, starts, nextBlock>>
    BY <1>1 DEF ReadBuffered, Calls, CopyOut, BatchInv, Caller, vars, mainVars
  <2> QED
    BY <2>1, SameBatch
<1>2. ASSUME NEW k \in BufSizes, BatchServes(k) PROVE BatchInv'
  BY <1>2, NextBatch
<1>3. CASE ReadAtEnd
  <2>1. Caller' /\ UNCHANGED <<input, starts, nextBlock>>
    BY <1>3 DEF ReadAtEnd, Fills, Calls, BatchInv, Caller, vars, mainVars
  <2> QED
    BY <2>1, SameBatch
<1>4. CASE FillBatch
  <2>1. Caller' /\ UNCHANGED <<input, starts, nextBlock>>
    BY <1>4 DEF FillBatch, Fills, Calls, BatchInv, Caller, readVars
  <2> QED
    BY <2>1, SameBatch
<1>5. CASE BatchFails
  <2>1. Caller' /\ UNCHANGED <<input, starts, nextBlock>>
    BY <1>5, SliceAssumption DEF BatchFails, BatchInv, Caller
  <2> QED
    BY <2>1, SameBatch
<1>6. CASE BatchPanics
  <2>1. Caller' /\ UNCHANGED <<input, starts, nextBlock>>
    BY <1>6 DEF BatchPanics, BatchInv, Caller, readVars
  <2> QED
    BY <2>1, SameBatch
<1>7. CASE ThreadsRun \/ UNCHANGED allVars
  <2>1. Caller' /\ UNCHANGED <<input, starts, nextBlock>>
    BY <1>7 DEF ThreadsRun, BatchInv, Caller, allVars, vars, mainVars, readVars
  <2> QED
    BY <2>1, SameBatch
<1> QED
  BY <1>1, <1>2, <1>3, <1>4, <1>5, <1>6, <1>7 DEF SliceNext, ReadStep, ReadEnded

\* What lies before a block lies before its batch.
LEMMA BatchOf ==
  ASSUME NEW s \in Nat \ {0}, NEW q \in Nat, NEW i \in Nat, q * s <= i
  PROVE  q * s <= (i \div s) * s
<1> DEFINE d == i \div s
<1>1. d \in Nat /\ i < (d + 1) * s
  <2>1. d \in Nat /\ i = s * d + (i % s) /\ i % s \in 0 .. s - 1
    OBVIOUS
  <2>2. (d + 1) * s = s * d + s
    BY <2>1
  <2> QED
    BY <2>1, <2>2
<1> HIDE DEF d
<1>2. q <= d
  <2> SUFFICES ASSUME q >= d + 1 PROVE FALSE
    BY <1>1
  <2>1. q = (d + 1) + (q - d - 1) /\ q - d - 1 \in Nat
    BY <1>1
  <2>2. q * s = (d + 1) * s + (q - d - 1) * s /\ (q - d - 1) * s \in Nat
    BY <1>1, <2>1
  <2> QED
    BY <1>1, <2>2
<1>3. d * s = q * s + (d - q) * s /\ (d - q) * s \in Nat
  BY <1>1, <1>2
<1> QED
  BY <1>1, <1>3 DEF d

LEMMA DamageIsAhead == ASSUME SliceInv, BatchInv PROVE DamageStops
<1> SUFFICES ASSUME NEW i \in DOMAIN starts, Decode(starts[i]) = {}
             PROVE  Len(delivered) <= ((i - 1) \div BatchSize) * BatchSize
  BY DEF DamageStops
<1>1. /\ StartsOK /\ Place /\ i \in 1 .. Len(starts) /\ Len(starts) \in Nat
      /\ nextBlock \in Nat /\ nextBlock <= Len(starts) /\ BatchSize \in Nat \ {0}
  BY SliceAssumption DEF SliceInv, StartsOK, Place
<1>2. i > nextBlock
  BY <1>1 DEF BatchInv, Sound
<1>3. PICK q \in Nat : nextBlock = q * BatchSize
  BY <1>1, <1>2 DEF BatchInv, WholeBatches
<1>4. nextBlock <= ((i - 1) \div BatchSize) * BatchSize
  <2>1. i - 1 \in Nat /\ q * BatchSize <= i - 1
    BY <1>1, <1>2, <1>3
  <2> QED
    BY <1>1, <1>3, <2>1, BatchOf
<1>5. Len(delivered) \in Nat /\ Len(delivered) <= nextBlock
  <2> DEFINE a == nextBlock - Len(buf) + bufPos
  <2>1. a \in Nat /\ a <= nextBlock
    BY <1>1 DEF Place
  <2>2. delivered = SubSeq(Pieces, 1, a)
    BY <1>1 DEF Place
  <2> HIDE DEF a
  <2>3. delivered = [j \in 1 .. a - 1 + 1 |-> Pieces[1 + j - 1]]
    BY <2>1, <2>2, Stretch
  <2>4. Len(delivered) = a
    BY <2>1, <2>3
  <2> QED
    BY <2>1, <2>4
<1>6. (i - 1) \div BatchSize \in Nat
  BY <1>1
<1>7. ((i - 1) \div BatchSize) * BatchSize \in Nat
  BY <1>1, <1>6
<1> QED
  BY <1>1, <1>4, <1>5, <1>7

\* A block that decodes gives a piece of the file, or rubbish.
LEMMA PieceType ==
  ASSUME StartsOK, NEW i \in DOMAIN starts, Decode(starts[i]) # {}
  PROVE  Pieces[i] \in Blocks \cup {Rubbish}
<1> DEFINE D == Decode(starts[i])
<1>1. D \subseteq Blocks \cup {Rubbish}
  BY DEF Decode, BlockAt, Blocks
<1>2. D \in SUBSET Nat /\ D # {}
  BY DecodeType
<1>3. Pieces[i] = Min(D)
  BY DEF Pieces, PieceOf
<1> HIDE DEF D
<1> QED
  BY <1>1, <1>2, <1>3, MinOfNats

LEMMA SliceTypes == ASSUME SliceInv, BatchInv PROVE SliceTypeOK
<1> DEFINE T == Blocks \cup {Rubbish}
<1>1. /\ StartsOK /\ Place /\ Len(starts) \in Nat /\ DOMAIN starts = 1 .. Len(starts)
      /\ nextBlock \in Nat /\ nextBlock <= Len(starts)
      /\ Len(buf) \in Nat /\ Len(buf) <= nextBlock
      /\ bufPos \in Nat /\ bufPos <= Len(buf)
  BY DEF SliceInv, StartsOK, Place
<1>2. \A i \in 1 .. nextBlock : Pieces[i] \in T
  BY <1>1, PieceType DEF BatchInv, Sound
<1> HIDE DEF T
<1>3. ASSUME NEW a \in Nat, NEW b \in Nat, 1 <= a, a <= b + 1, b <= nextBlock
      PROVE  SubSeq(Pieces, a, b) \in Seq(T)
  <2>1. \A i \in a .. b : Pieces[i] \in T
    BY <1>1, <1>2, <1>3
  <2> QED
    BY <1>3, <2>1, SubSeqProperties
<1>4. buf \in Seq(T)
  <2>1. nextBlock - Len(buf) + 1 \in Nat /\ 1 <= nextBlock - Len(buf) + 1
        /\ nextBlock - Len(buf) + 1 <= nextBlock + 1 /\ nextBlock <= nextBlock
    BY <1>1
  <2>2. SubSeq(Pieces, nextBlock - Len(buf) + 1, nextBlock) \in Seq(T)
    BY <1>1, <1>3, <2>1
  <2> QED
    BY <1>1, <2>2 DEF Place
<1>5. delivered \in Seq(T)
  <2> DEFINE a == nextBlock - Len(buf) + bufPos
  <2>1. a \in Nat /\ 1 <= a + 1 /\ a <= nextBlock /\ 1 \in Nat /\ 1 <= 1
    BY <1>1
  <2>2. delivered = SubSeq(Pieces, 1, a)
    BY <1>1 DEF Place
  <2> HIDE DEF a
  <2> QED
    BY <1>3, <2>1, <2>2
<1> QED
  BY <1>1, <1>4, <1>5 DEF SliceTypeOK, Place, BatchInv, Caller, T

LEMMA BatchInvHolds == SliceSafeSpec => [](SliceInv /\ BatchInv)
<1>1. SliceInit => SliceInv /\ BatchInv
  BY SliceInvInit, BatchInvInit
<1>2. SliceInv /\ BatchInv /\ [SliceNext]_allVars => SliceInv' /\ BatchInv'
  BY SliceStep, BatchInvStep
<1> QED
  BY <1>1, <1>2, PTL DEF SliceSafeSpec

\* The variables keep their types; a caller that tries again is answered
\* with pieces of the file or rubbish, never with a block that failed.
THEOREM SliceTypeCorrect == SliceSafeSpec => []SliceTypeOK
<1>1. SliceInv /\ BatchInv => SliceTypeOK
  BY SliceTypes
<1> QED
  BY <1>1, BatchInvHolds, PTL

\* No piece of a batch with a damaged block, nor of one behind it, ever
\* reaches the caller, however often it calls again (reader.rs, fill_batch).
THEOREM DamageNeverDelivered == SliceSafeSpec => []DamageStops
<1>1. SliceInv /\ BatchInv => DamageStops
  BY DamageIsAhead
<1> QED
  BY <1>1, BatchInvHolds, PTL
=============================================================================
