---- MODULE ReadContract ----
(***************************************************************************)
(* What a decompressor that implements std::io::Read promises its caller   *)
(* (the impls of Read in src/reader.rs): every call returns the next piece *)
(* of the output, zero bytes only at its end, or an error and no bytes.    *)
(***************************************************************************)
EXTENDS Naturals, Sequences

VARIABLES
  whole,      \* the decompressed file
  delivered,  \* what the caller has received
  reply       \* the last answer: "none", "bytes", "zero", "error"

vars == <<whole, delivered, reply>>

Init == delivered = <<>> /\ reply = "none"

Piece ==
  /\ \E n \in Len(delivered) + 1 .. Len(whole) : delivered' = SubSeq(whole, 1, n)
  /\ reply' = "bytes"
  /\ UNCHANGED whole

EndOfFile ==
  /\ delivered = whole
  /\ reply' = "zero"
  /\ UNCHANGED <<whole, delivered>>

Fail ==
  /\ reply' = "error"
  /\ UNCHANGED <<whole, delivered>>

Next == Piece \/ EndOfFile \/ Fail

Spec == Init /\ [][Next]_vars
====
