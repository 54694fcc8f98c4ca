----------------------------- MODULE BitSource -----------------------------
(***************************************************************************)
(* What a reader of bits promises its callers (src/bitreader.rs): the bits *)
(* of a slice one after the other, each exactly once, and None only when   *)
(* fewer are left than asked for.  A bit is known by its position.         *)
(***************************************************************************)
EXTENDS Integers, Sequences

CONSTANTS ReadCounts, PeekCounts, SkipCounts

VARIABLES
  total,   \* bits of the slice
  pos,     \* bits consumed
  answer   \* the bits returned last, each as a set of positions; <<>>: None

vars == <<total, pos, answer>>

None == <<>>
Following(n) == [i \in 1 .. n |-> {pos + i - 1}]
Left == total - pos

Init == total \in Nat /\ pos \in 0 .. total /\ answer = None

Read(n) ==
  /\ \/ Left >= n /\ answer' = Following(n) /\ pos' = pos + n
     \/ Left < n /\ answer' = None /\ UNCHANGED pos
  /\ UNCHANGED total

Peek(n) ==
  /\ answer' = IF Left >= n THEN Following(n) ELSE None
  /\ UNCHANGED <<total, pos>>

Consume(n) ==
  /\ n <= Left
  /\ pos' = pos + n /\ answer' = None
  /\ UNCHANGED total

Skip(n) ==
  /\ pos' = IF Left >= n THEN pos + n ELSE total
  /\ answer' = None
  /\ UNCHANGED total

Next ==
  \/ \E n \in ReadCounts : Read(n)
  \/ \E n \in PeekCounts : Peek(n)
  \/ \E n \in PeekCounts : Consume(n)
  \/ \E n \in SkipCounts : Skip(n)

Spec == Init /\ [][Next]_vars
=============================================================================
