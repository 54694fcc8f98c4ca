----------------------------- MODULE FileBuffer -----------------------------
(***************************************************************************)
(* Files and buffers for the modules that follow bytes around.  A file is  *)
(* a record: size in bytes; blocks, the intervals of bits its compressed   *)
(* blocks occupy, magic included, between which there may be a stream      *)
(* trailer and a new header as pbzip2 writes them; fakes, the bits where   *)
(* the block magic occurs by coincidence.  A buffer is the sequence of the *)
(* file's bytes it holds, numbered from 0; Junk is a byte of no file.      *)
(***************************************************************************)
EXTENDS BlockScan

Junk == -5

\* What the modules assume of files: the blocks stand one after the other, and
\* none is shorter than the window (a magic, a CRC, a bit and a pointer of 24
\* bits are read of each), also where the file ends before they do.
WellFormed(file) ==
  /\ file.size \in Nat /\ file.fakes \subseteq Nat
  /\ file.blocks \in Seq([first : Nat, end : Nat])
  /\ \A b \in DOMAIN file.blocks :
       /\ file.blocks[b].first + Window * ByteBits <= file.blocks[b].end
       /\ b + 1 \in DOMAIN file.blocks => file.blocks[b].end <= file.blocks[b + 1].first

\* The bits a magic begins at.
Magics(file) == {file.blocks[b].first : b \in DOMAIN file.blocks} \cup file.fakes

Bytes(from, to) == [i \in 1 .. to - from |-> from + i - 1]

\* The index up to which data holds consecutive bytes of the file from i on.
RunEnd(data, i) ==
  Min({j \in i .. Len(data) : j = Len(data) \/ data[j + 1] # data[j] + 1})

\* The bit offsets in data at which the magic at bit m of the file shows up.
Occurrences(data, m) ==
  {(i - 1) * ByteBits + (m % ByteBits) :
     i \in {j \in DOMAIN data :
              /\ data[j] = m \div ByteBits
              /\ data[RunEnd(data, j)] >= (m + MagicBits - 1) \div ByteBits}}

Buffer(file, data) ==
  LET sound == UNION {Occurrences(data, file.blocks[b].first) : b \in DOMAIN file.blocks} IN
  [bytes |-> Len(data), sound |-> sound,
   marks |-> sound \cup UNION {Occurrences(data, m) : m \in file.fakes}]

\* decode_block at bit offset start of data: the block that begins there, if
\* one does and data holds all of it.
BlockAt(file, data, start) ==
  LET i == start \div ByteBits + 1
      shift == (data[i] - (i - 1)) * ByteBits
      runEnd == (data[RunEnd(data, i)] + 1) * ByteBits
  IN  {b \in DOMAIN file.blocks :
         file.blocks[b].first = start + shift /\ file.blocks[b].end <= runEnd}

\* The files that differ from file in what becomes of the magics that start
\* no complete block.
WithFates(file, fates) ==
  LET data == Bytes(0, file.size)
      bad == {m \in Buffer(file, data).marks : BlockAt(file, data, m) = {}}
  IN  {[size |-> file.size, blocks |-> file.blocks, fakes |-> file.fakes, fate |-> f] :
         f \in [bad -> fates]}

\* A file of count blocks whose lengths in bits repeat the pattern, each
\* followed by gap bits, tail bytes behind the last, and a false magic
\* inside every third block if asked for.
PatternFile(header, pattern, count, gap, tail, faked) ==
  LET period == Len(pattern)
      size(b) == pattern[1 + ((b - 1) % period)]
      sum(k) == MapThenSumSet(LAMBDA i : pattern[i] + gap, 1 .. k)
      first(b) == header * ByteBits + ((b - 1) \div period) * sum(period)
                                    + sum((b - 1) % period)
  IN  [size |-> first(count + 1) \div ByteBits + tail,
       blocks |-> [b \in 1 .. count |-> [first |-> first(b), end |-> first(b) + size(b)]],
       fakes |-> IF faked THEN {first(b) + MagicBits + 1 :
                    b \in {c \in 1 .. count : c % 3 = 0 /\ size(c) >= 2 * MagicBits + 2}}
                 ELSE {}]
=============================================================================
