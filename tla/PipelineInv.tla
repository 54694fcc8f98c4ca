---------------------------- MODULE PipelineInv ----------------------------
(***************************************************************************)
(* The inductive invariant behind SlotIntact.  It holds until a failure of *)
(* the writer has made the collector panic, and in the end if the writer   *)
(* does not fail.  A token is a segment on its way: an item in the work    *)
(* channel or held by a busy worker, or a result in the collector channel. *)
(* The argument: tokens are unique and stand for results still missing,    *)
(* done_count counts the results present, so a slot whose count is full    *)
(* has no token left and may be flushed and recycled.                      *)
(***************************************************************************)
EXTENDS Pipeline

Busy == {w \in Workers : worker[w] = "busy"}
Returning == {i \in DOMAIN coll : coll[i].kind = "result"}

\* The facts about single variables that TypeOK needs to be inductive.
TypeInv ==
  /\ TypeOK
  /\ reader # "done" => sent < Last
  /\ got <= sent
  /\ main \in {"announce", "post"} => got >= 1
  /\ collector = "drain" => drained.chunk >= 1
  /\ \A w \in Busy : held[w] \in Items

\* The collector has not been unwound, and the writer outlives it or panics.
DownstreamAlive ==
  /\ writer = "exited" => collector = "exited"
  /\ collector # "panicked"

\* Chunks the collector knows of, or will once it empties its channel, have
\* been split and announced.
Announced(c) == c <= got /\ plan[c] # <<>> /\ (main = "announce" => c # got)
RegisteredAnnounced ==
  /\ \A c \in Chunks : buf[c] \in {"queued", "inflight", "drain"} => Announced(c)
  /\ \A i \in DOMAIN coll : Announced(coll[i].chunk)

\* The chunk main is posting can not be complete.
PostingOpen ==
  /\ main \in {"announce", "post"} => plan[got] # <<>>
  /\ main = "post" /\ nextSeg <= Len(plan[got]) => buf[got] \in {"queued", "inflight"}

DrainedHeld == collector = "drain" => buf[drained.chunk] = "drain"

\* Results that can not be there yet.
Unposted(c, s) ==
  \/ c > got
  \/ c = got /\ main = "announce"
  \/ c = got /\ main = "post" /\ s >= nextSeg
UnpostedEmpty ==
  \A c \in Chunks : \A s \in Segs(c) : Unposted(c, s) => results[c][s] = 0

\* A token belongs to an announced chunk, and its result is still missing.
TokenOK(t) ==
  /\ t.chunk <= got
  /\ t.seg \in Segs(t.chunk)
  /\ t.id = id[t.chunk]
  /\ ~Unposted(t.chunk, t.seg)
  /\ results[t.chunk][t.seg] = 0
TokensOK ==
  /\ \A i \in DOMAIN work : TokenOK(work[i])
  /\ \A w \in Busy : TokenOK(held[w])
  /\ \A i \in Returning : TokenOK(coll[i])

\* No segment has two tokens.
Same(t, u) == t.chunk = u.chunk /\ t.seg = u.seg
TokensUnique ==
  /\ \A i, j \in DOMAIN work : i # j => ~Same(work[i], work[j])
  /\ \A w, v \in Busy : w # v => ~Same(held[w], held[v])
  /\ \A i, j \in Returning : i # j => ~Same(coll[i], coll[j])
  /\ \A i \in DOMAIN work, w \in Busy : ~Same(work[i], held[w])
  /\ \A i \in DOMAIN work, j \in Returning : ~Same(work[i], coll[j])
  /\ \A w \in Busy, j \in Returning : ~Same(held[w], coll[j])

\* chunk_id tells accepted chunks apart.
IdsUnique ==
  /\ main = "recv" =>
       \A c \in Chunks : c <= got /\ plan[c] # <<>> => id[c] < chunkId
  /\ main \in {"announce", "post"} =>
       /\ id[got] = chunkId
       /\ \A c \in Chunks : c < got /\ plan[c] # <<>> => id[c] < chunkId
  /\ \A c, d \in Chunks :
       c < d /\ d <= got /\ plan[c] # <<>> /\ plan[d] # <<>> => id[c] < id[d]

\* done_count is the number of results present.
Present(c) == {s \in Segs(c) : results[c][s] # 0}
DoneCounts == \A c \in Chunks : done[c] = Cardinality(Present(c))

IInv ==
  /\ TypeInv
  /\ DownstreamAlive
  /\ RegisteredAnnounced
  /\ PostingOpen
  /\ DrainedHeld
  /\ UnpostedEmpty
  /\ TokensOK
  /\ TokensUnique
  /\ IdsUnique
  /\ DoneCounts
  /\ SlotIntact

\* Where the tokens, the slots and the results are, in every state up to the
\* one in which a failed write unwinds the collector.
InvKept == collector # "panicked" => IInv
=============================================================================
