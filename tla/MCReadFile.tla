----------------------------- MODULE MCReadFile -----------------------------
(* An instance of ReadFile for TLC.                                        *)
EXTENDS ReadFile, TLC

CONSTANTS n1, n2

\* Two blocks whose copies have the same numbers on different nodes, and one
\* without a second copy.
Placement(i, c) ==
  CASE i = 2 -> IF c = 0 THEN [node |-> n1, blockno |-> 2] ELSE NoLoc
    [] c = 0 -> [node |-> IF i = 0 THEN n1 ELSE n2, blockno |-> 0]
    [] OTHER -> [node |-> IF i = 0 THEN n2 ELSE n1, blockno |-> 1]

\* Every text of up to MaxLines lines and every binary file of up to MaxSize
\* bytes that fill up to three blocks.
CONSTANTS MaxLines, MaxSize
SomeFiles ==
  {f \in {TextFile(l) : l \in BoundedSeq(1 .. Chunk - 1, MaxLines)}
           \cup {BinFile(s) : s \in 1 .. MaxSize} :
     SizeOf(f) > 0 /\ Len(Partition(f)) <= 3}
=============================================================================
