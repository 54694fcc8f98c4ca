------------------------------ MODULE ParMap -------------------------------
(***************************************************************************)
(* par_map of src/par.rs: scoped threads claim the indexes 1 .. n by       *)
(* fetch_add on a shared counter, compute f and store the value in the     *)
(* slot of the index; the caller joins them and collects the slots.        *)
(*                                                                         *)
(* A job stands for n and f: values[i] is f(i), panics the indexes at      *)
(* which f panics instead.  par_map is called again and again, so a call   *)
(* is an action that a composing module takes when the last one is over.   *)
(***************************************************************************)
EXTENDS Naturals, Sequences

CONSTANT WorkerCount   \* worker_count(): LBZIP2_THREADS or the CPUs, at least 1

ASSUME WorkerCountAssumption == WorkerCount \in Nat \ {0}

VARIABLES
  job,     \* [values, panics] of the current or last call
  next,    \* the counter
  thread,  \* "claim", "busy", "done", "panicked"
  item,    \* the index a busy thread computes
  slots,   \* Mutex<Option<T>> per index: {} or the set of the value
  status,  \* "idle", "running", "returned", "panicked"
  result   \* what the call returned

mapVars == <<job, next, thread, item, slots, status, result>>

Threads == 1 .. WorkerCount
Indexes == 1 .. Len(job.values)

\* A call spawns no more threads than there are items.
Spawned(j) == {t \in Threads : t <= Len(j.values)}

MapInit ==
  /\ job = [values |-> <<>>, panics |-> {}]
  /\ next = 1
  /\ thread = [t \in Threads |-> "done"] /\ item = [t \in Threads |-> 0]
  /\ slots = <<>>
  /\ status = "idle" /\ result = <<>>

\* With fewer than two threads to spawn the caller maps the items itself.
CallSequential(j) ==
  /\ status # "running"
  /\ WorkerCount = 1 \/ Len(j.values) <= 1
  /\ job' = j /\ next' = 1
  /\ thread' = [t \in Threads |-> "done"] /\ item' = [t \in Threads |-> 0]
  /\ slots' = [i \in 1 .. Len(j.values) |-> {}]
  /\ \/ j.panics = {} /\ status' = "returned" /\ result' = j.values
     \/ j.panics # {} /\ status' = "panicked" /\ UNCHANGED result

CallParallel(j) ==
  /\ status # "running"
  /\ WorkerCount > 1 /\ Len(j.values) > 1
  /\ job' = j /\ next' = 1
  /\ thread' = [t \in Threads |-> IF t \in Spawned(j) THEN "claim" ELSE "done"]
  /\ item' = [t \in Threads |-> 0]
  /\ slots' = [i \in 1 .. Len(j.values) |-> {}]
  /\ status' = "running"
  /\ UNCHANGED result

Call(j) == CallSequential(j) \/ CallParallel(j)

\* Faulty variants: an index too high, no increment, no end.
ClaimNext(t) ==
  /\ status = "running" /\ thread[t] = "claim"
  /\ next' = next + 1
  /\ \/ /\ next \in Indexes
        /\ item' = [item EXCEPT ![t] = next + 1]
        /\ thread' = [thread EXCEPT ![t] = "busy"]
     \/ /\ next \notin Indexes
        /\ thread' = [thread EXCEPT ![t] = "done"]
        /\ UNCHANGED item
  /\ UNCHANGED <<job, slots, status, result>>
ClaimAgain(t) ==
  /\ status = "running" /\ thread[t] = "claim"
  /\ \/ /\ next \in Indexes
        /\ item' = [item EXCEPT ![t] = next]
        /\ thread' = [thread EXCEPT ![t] = "busy"]
     \/ /\ next \notin Indexes
        /\ thread' = [thread EXCEPT ![t] = "done"]
        /\ UNCHANGED item
  /\ UNCHANGED <<job, next, slots, status, result>>
ClaimForever(t) ==
  /\ status = "running" /\ thread[t] = "claim"
  /\ \/ /\ next \in Indexes
        /\ next' = next + 1
        /\ item' = [item EXCEPT ![t] = next]
        /\ thread' = [thread EXCEPT ![t] = "busy"]
     \/ next \notin Indexes /\ UNCHANGED <<next, item, thread>>
  /\ UNCHANGED <<job, slots, status, result>>

\* fetch_add; the counter moves on even when nothing is left.
Claim(t) ==
  /\ status = "running" /\ thread[t] = "claim"
  /\ next' = next + 1
  /\ \/ /\ next \in Indexes
        /\ item' = [item EXCEPT ![t] = next]
        /\ thread' = [thread EXCEPT ![t] = "busy"]
     \/ /\ next \notin Indexes
        /\ thread' = [thread EXCEPT ![t] = "done"]
        /\ UNCHANGED item
  /\ UNCHANGED <<job, slots, status, result>>

Store(t) ==
  /\ status = "running" /\ thread[t] = "busy" /\ item[t] \notin job.panics
  /\ slots' = [slots EXCEPT ![item[t]] = {job.values[item[t]]}]
  /\ thread' = [thread EXCEPT ![t] = "claim"]
  /\ UNCHANGED <<job, next, item, status, result>>

Panic(t) ==
  /\ status = "running" /\ thread[t] = "busy" /\ item[t] \in job.panics
  /\ thread' = [thread EXCEPT ![t] = "panicked"]
  /\ UNCHANGED <<job, next, item, slots, status, result>>

\* Faulty variant: the first thread that ends ends the scope.
JoinFirst ==
  /\ status = "running"
  /\ \E t \in Threads : thread[t] \in {"done", "panicked"}
  /\ IF (\E t \in Threads : thread[t] = "panicked") \/ (\E i \in Indexes : slots[i] = {})
     THEN status' = "panicked" /\ UNCHANGED result
     ELSE /\ status' = "returned"
          /\ result' = [i \in Indexes |-> CHOOSE v \in slots[i] : TRUE]
  /\ UNCHANGED <<job, next, thread, item, slots>>

\* The scope ends when every thread has; it panics if one of them did, and
\* collecting an empty slot ("slot filled") would panic as well.
Join ==
  /\ status = "running"
  /\ \A t \in Threads : thread[t] \in {"done", "panicked"}
  /\ IF (\E t \in Threads : thread[t] = "panicked") \/ (\E i \in Indexes : slots[i] = {})
     THEN status' = "panicked" /\ UNCHANGED result
     ELSE /\ status' = "returned"
          /\ result' = [i \in Indexes |-> CHOOSE v \in slots[i] : TRUE]
  /\ UNCHANGED <<job, next, thread, item, slots>>

ThreadStep(t) == Claim(t) \/ Store(t) \/ Panic(t)
MapStep == Join \/ \E t \in Threads : ThreadStep(t)
\* The jobs with values in V.
Jobs(V) == {j \in [values : Seq(V), panics : SUBSET Nat] : j.panics \subseteq 1 .. Len(j.values)}

\* A caller that maps jobs of J one after the other.
MapSpec(J) == MapInit /\ [][MapStep \/ \E j \in J : Call(j)]_mapVars

-----------------------------------------------------------------------------
(* Properties                                                              *)

\* No two threads compute the same item, and none computes an item again.
ClaimedOnce ==
  status = "running" =>
    \A t \in Threads : thread[t] = "busy" =>
      /\ slots[item[t]] = {}
      /\ \A u \in Threads \ {t} : thread[u] = "busy" => item[u] # item[t]

\* par_map returns the values in index order, whatever the threads did, and
\* panics only if f does: the counter hands out every index, so that
\* expect("slot filled") never fires.
ResultInOrder ==
  /\ status = "returned" => result = job.values /\ job.panics = {}
  /\ status = "panicked" => job.panics # {}
=============================================================================
