------------------------------ MODULE Huffman ------------------------------
(***************************************************************************)
(* HuffmanTree::from_lengths (src/huffman.rs): canonical codes, a table    *)
(* for short ones and a tree for all.  lengths[s] is the length of the     *)
(* code of symbol s; a path is the sequence of bits that leads to a node.  *)
(* The insertions of the code are given by what they add up to: a node     *)
(* replaces a leaf, and of two leaves or entries in one place the later    *)
(* stays.                                                                  *)
(***************************************************************************)
EXTENDS Integers, Sequences, FiniteSets, Functions

CONSTANTS
  FastBits,  \* FAST_BITS
  MaxNodes   \* MAX_TREE_NODES

ASSUME HuffmanAssumption == {FastBits, MaxNodes} \subseteq Nat \ {0}

\* 1 << n.
Pow2[n \in Nat] == IF n = 0 THEN 1 ELSE 2 * Pow2[n - 1]

Used(lengths) == {s \in DOMAIN lengths : lengths[s] > 0}

\* The order of symbols by length, then by value.
Before(lengths, s) ==
  {t \in Used(lengths) : lengths[t] < lengths[s] \/ (lengths[t] = lengths[s] /\ t < s)}

Latest(lengths, S) == CHOOSE s \in S : S \ {s} \subseteq Before(lengths, s)

\* Faulty variant: the code is not shifted when the length grows.
CodeUnshifted(lengths, s) == Cardinality(Before(lengths, s))

\* One more than the code before, shifted by the difference of the lengths.
Code(lengths, s) ==
  SumFunction([t \in Before(lengths, s) |-> Pow2[lengths[s] - lengths[t]]])

\* The low bits of the code.
Path(lengths, s) ==
  LET code == Code(lengths, s) IN
  [i \in 1 .. lengths[s] |-> (code \div Pow2[lengths[s] - i]) % 2]

Inner(lengths) ==
  UNION {{SubSeq(Path(lengths, s), 1, k - 1) : k \in 1 .. lengths[s]} : s \in Used(lengths)}

TooLarge(lengths) == Cardinality(Inner(lengths)) > MaxNodes

\* The symbol of the leaf at path, if there is one.
LeafAt(lengths, path) ==
  LET S == {s \in Used(lengths) : Path(lengths, s) = path} IN
  IF path \in Inner(lengths) \/ S = {} THEN {} ELSE {Latest(lengths, S)}

\* The entry of the fast table at index v, if it is not 0.
FastEntry(lengths, v) ==
  LET S == {s \in Used(lengths) :
              /\ lengths[s] <= FastBits
              /\ v \div Pow2[FastBits - lengths[s]] = Code(lengths, s)} IN
  IF S = {} THEN {} ELSE {Latest(lengths, S)}

\* Filling the table would index beyond its end, which panics.
PastTable(lengths) ==
  \E s \in Used(lengths) : lengths[s] <= FastBits /\ Code(lengths, s) >= Pow2[lengths[s]]

\* What the walk of the tree finds for the bits v.
Walk(lengths, v) ==
  LET prefix(k) == [i \in 1 .. k |-> (v \div Pow2[FastBits - i]) % 2] IN
  UNION {LeafAt(lengths, prefix(k)) : k \in 1 .. FastBits}

\* Table and tree tell the same of every FastBits bits.
FastIsWalk(lengths) == \A v \in 0 .. Pow2[FastBits] - 1 : FastEntry(lengths, v) = Walk(lengths, v)
=============================================================================
