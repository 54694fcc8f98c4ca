---- MODULE MCParallelDecompress ----
(***************************************************************************)
(* Instances of ParallelDecompress and SliceRead for TLC: whole files,     *)
(* files in which the magic occurs by coincidence, and files cut off at    *)
(* every byte.  A behaviour is a call of decompress_parallel or the life   *)
(* of a ParallelBz2Read.                                                   *)
(***************************************************************************)
EXTENDS SliceRead, TLC

HeaderSize == 4
Whole == {PatternFile(HeaderSize, p, c, g, t, FALSE) :
            p \in {<<9>>, <<11, 10>>}, c \in {0, 1, 3, 4}, g \in {0, 3}, t \in {3}}
Faked == {PatternFile(HeaderSize, <<13, 8, 10>>, 3, 0, 3, TRUE),
          [PatternFile(HeaderSize, <<13>>, 3, 0, 3, FALSE) EXCEPT !.fakes = {26}]}
CutShort == {[PatternFile(HeaderSize, <<11, 10>>, 3, 0, 3, FALSE) EXCEPT !.size = s] :
               s \in HeaderSize .. 21}
Fated(files) == UNION {WithFates(f, {"error", "rubbish", "panic"}) : f \in files}
AllFiles == Fated(Whole \cup Faked \cup CutShort)
CutFiles == Fated(CutShort)

\* Calls of decompress_parallel alone.
CallSpec == Init /\ starts = <<>> /\ Unread /\ [][Next /\ UNCHANGED readVars]_allVars

AnySpec ==
  /\ (Init /\ starts = <<>> /\ Unread) \/ SliceInit
  /\ [][(Next /\ UNCHANGED readVars) \/ SliceNext]_allVars
  /\ Fairness /\ SliceFairness
====
