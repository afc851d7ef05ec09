------------------------------- MODULE FileCut -------------------------------
(***************************************************************************)
(* How a file is cut into blocks and put together again: partition_*_file, *)
(* add_block and reconstruct_file of filetable.c, over file_ltraverse and  *)
(* file_btraverse.  A byte is its position in the file, so that what was   *)
(* put together can be compared with what was cut.                         *)
(***************************************************************************)
EXTENDS Integers, SequencesExt

CONSTANTS
  BlockSize,  \* BLOCK_SIZE
  Chunk       \* the bytes file_btraverse reads at a time

ASSUME CutAssumption ==
  BlockSize \in Nat \ {0} /\ Chunk \in Nat \ {0} /\ BlockSize % Chunk = 0

\* A text file is the lengths of its lines, a binary file its size.
TextFile(lines)  == [type |-> "text", pieces |-> lines]
BinFile(size)    == [type |-> "bin", pieces |->
  [k \in 1 .. (size + Chunk - 1) \div Chunk |->
     IF k * Chunk <= size THEN Chunk ELSE size % Chunk]]

SizeOf(file) == FoldLeft(+, 0, file.pieces)
Content(size) == [k \in 1 .. size |-> k]

\* A piece that does not fit ends the block; a line needs a byte more, for the
\* zero sprintf puts after it.  add_block ignores an empty buffer.
AddBlock(sizes, size) == IF size = 0 THEN sizes ELSE Append(sizes, size)
Fits(file, size, piece) ==
  size + piece + (IF file.type = "text" THEN 1 ELSE 0) <= BlockSize

\* The sizes of the blocks of a file: t_block.size, in order.
Partition(file) ==
  LET last == FoldLeft(LAMBDA st, piece :
                         IF Fits(file, st.size, piece)
                         THEN [st EXCEPT !.size = @ + piece]
                         ELSE [sizes |-> AddBlock(st.sizes, st.size), size |-> piece],
                       [sizes |-> <<>>, size |-> 0], file.pieces)
  IN  AddBlock(last.sizes, last.size)

\* count_file_blocks, before the file is cut: the room and the block file it
\* is given depend on it.
CountBlocks(file) ==
  IF file.type = "text" THEN Len(Partition(file))
  ELSE (SizeOf(file) + BlockSize - 1) \div BlockSize

\* What is sent as block i: the buffer, with what it held after the content.
Pad == 0
BlockData(sizes, i) ==
  LET start == FoldLeft(+, 0, SubSeq(sizes, 1, i))
  IN  [k \in 1 .. BlockSize |-> IF k <= sizes[i + 1] THEN start + k ELSE Pad]

\* A stored file: its t_yfile and what the DataNodes hold of it.
Stored(file) ==
  LET sizes == Partition(file)
  IN  [type  |-> file.type, length |-> SizeOf(file), count |-> CountBlocks(file),
       sizes |-> sizes, data |-> [i \in 0 .. Len(sizes) - 1 |-> BlockData(sizes, i)]]

\* reconstruct_file: the chunks of the block file, each of which is copied up to
\* the end of the content of the block it is taken to belong to; when that is
\* reached, the rest of the chunk is skipped, and the next chunk is taken for
\* the beginning of the next block.
Reconstruct(sizes, bytes) ==
  LET chunks == [k \in 1 .. Len(bytes) \div Chunk |->
                   SubSeq(bytes, (k - 1) * Chunk + 1, k * Chunk)]
      Copy(st, chunk) ==
        LET left == sizes[st.index] - st.read IN
        IF st.index > Len(sizes) THEN st
        ELSE IF left <= Chunk
        THEN [out |-> st.out \o SubSeq(chunk, 1, left), index |-> st.index + 1, read |-> 0]
        ELSE [st EXCEPT !.out = @ \o chunk, !.read = @ + Chunk]
  IN  FoldLeft(Copy, [out |-> <<>>, index |-> 1, read |-> 0], chunks).out
=============================================================================
