---- MODULE MCStreamingRead ----
(***************************************************************************)
(* Instances of StreamingRead for TLC.  A chunk holds four or five blocks, *)
(* where the program's 100 MB hold a hundred or more.                      *)
(***************************************************************************)
EXTENDS StreamingRead, TLC

Patterns == {<<9>>, <<11, 10>>, <<13, 8, 10>>}
Counts == {0, 1, 4, 5, 11}
Files == {PatternFile(HeaderSize, p, c, g, 1, FALSE) : p \in Patterns, c \in Counts, g \in {0, 1}}
FakedFiles == {PatternFile(HeaderSize, p, 5, 0, 1, TRUE) : p \in Patterns}
\* Files whose last read is exactly full, and files with blocks of which a
\* chunk holds fewer than two.
ExactFiles == {[f EXCEPT !.size = HeaderSize + 2 * ChunkSize] :
                 f \in {g \in {PatternFile(HeaderSize, p, c, 0, 1, FALSE) :
                                 p \in Patterns, c \in 0 .. 11} :
                          HeaderSize + 2 * ChunkSize - g.size \in 0 .. 4}}
LongBlocks == {PatternFile(HeaderSize, <<50, 9>>, 4, 0, 1, FALSE)}
LongTails == {PatternFile(HeaderSize, <<11, 10>>, 6, 0, 60, FALSE)}
CutFiles == {[f EXCEPT !.size = @ - 3] : f \in {PatternFile(HeaderSize, <<11, 10>>, 11, 0, 1, FALSE)}}
AllFiles == Files \cup FakedFiles \cup ExactFiles \cup LongBlocks \cup LongTails \cup CutFiles
====
