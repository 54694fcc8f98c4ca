---- MODULE MCCarryLoop ----
(***************************************************************************)
(* Instances of CarryLoop for TLC, scaled down: a byte of the model stands *)
(* for about 1 MB, so that a chunk is 200 bytes, the headroom 32 and a     *)
(* block a few bytes.                                                      *)
(***************************************************************************)
EXTENDS CarryLoop, TLC

Patterns == {<<9>>, <<11, 10>>, <<13, 8, 10>>}
SmallFiles == {PatternFile(HeaderSize, p, c, g, t, TRUE) : p \in Patterns, c \in {0, 1, 40, 75, 90},
                                  g \in {0, 1}, t \in {1, 3}}
\* Files whose last read is exactly full, so that another, empty one follows;
\* and the file that is a header and nothing else.
ExactFiles ==
  UNION {{[f EXCEPT !.size = HeaderSize + k * ChunkSize] :
            f \in {g \in {PatternFile(HeaderSize, p, c, 0, 1, TRUE) : p \in Patterns, c \in 0 .. 90} :
                     HeaderSize + k * ChunkSize - g.size \in 0 .. 4}} : k \in 0 .. 2}
\* A file of the longest two patterns with a block that fails, a magic that
\* passes the verification, or both; and one that can be read up to any byte.
Sound(f) == [size |-> f.size, blocks |-> f.blocks, fakes |-> f.fakes, damaged |-> {}, forged |-> {}]
Damaged(f, b) == [f EXCEPT !.damaged = {b}]
Forged(f, b) ==
  LET m == f.blocks[b].first + MagicBits + 1 IN
  [f EXCEPT !.fakes = @ \cup {m}, !.forged = {m}]
Long == {Sound(PatternFile(HeaderSize, p, c, g, 1, FALSE)) :
           p \in {<<11, 10>>, <<12, 14>>}, c \in {40, 75}, g \in {0, 1}}
Harmed ==
  UNION {{Damaged(f, b) : b \in DOMAIN f.blocks} \cup {Forged(f, b) : b \in DOMAIN f.blocks}
         \cup {Damaged(Forged(f, b), c) : b \in {5, 37}, c \in {7, 36, 40}} : f \in Long}
CutOff == {[f EXCEPT !.size = s] :
             f \in {Sound(PatternFile(HeaderSize, <<11, 10>>, 75, 1, 1, TRUE))}, s \in HeaderSize .. 420}

OrdinaryFiles == {Sound(f) : f \in SmallFiles \cup ExactFiles}
AllFiles == OrdinaryFiles \cup Harmed \cup CutOff
====
