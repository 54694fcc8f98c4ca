---- MODULE OrderedOutput ----
(***************************************************************************)
(* What decompression promises, whatever the number of threads: the output *)
(* is the decoded segments in input order, each once, none skipped.  The   *)
(* serial decoder (stream.rs, decompress) is exactly this: one loop that   *)
(* appends each block it decodes to the output.                            *)
(*                                                                         *)
(* The plan of an input is a sequence of chunks; each chunk is a sequence  *)
(* of segments, "data" when decoding it yields bytes and "blank" when it   *)
(* yields none.                                                            *)
(***************************************************************************)
EXTENDS Naturals, Sequences

VARIABLES
  plan,   \* the chunks of the input and the segments of each
  out     \* the <<chunk, segment>> pairs emitted so far

Segments(p) == UNION {{c} \X DOMAIN p[c] : c \in DOMAIN p}

Productive(p) == {s \in Segments(p) : p[s[1]][s[2]] = "data"}

Precedes(s, t) == s[1] < t[1] \/ (s[1] = t[1] /\ s[2] < t[2])

Emitted == {out[i] : i \in DOMAIN out}

Remaining == Productive(plan) \ Emitted

Init == out = <<>>

\* Emit the earliest segment not emitted yet.
Emit ==
  \E s \in Remaining :
    /\ \A t \in Remaining \ {s} : Precedes(s, t)
    /\ out' = Append(out, s)
    /\ UNCHANGED plan

vars == <<plan, out>>

\* Safety alone: a run may stop early, it may never reorder or invent.
SafeSpec == Init /\ [][Emit]_vars

\* All of it is emitted in the end.
Fairness == WF_vars(Emit)

Spec == SafeSpec /\ Fairness
====
