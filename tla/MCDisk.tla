------------------------------ MODULE MCDisk --------------------------------
(* What the FileSystem keeps on disk for TLC.                               *)
EXTENDS Disk, TLC

CONSTANTS n1, n2, d1, d2, f1, f2

\* No name is the end of another one.
Itself == [n \in Name |-> {n}]

\* Names, files and nodes are interchangeable.
Sym == Permutations(Name) \cup Permutations(File) \cup Permutations(Node)
=============================================================================
