---------------------------- MODULE MCBlockStore ----------------------------
(* Instances of BlockStore for TLC: two or three nodes, one or two files.  *)
EXTENDS BlockStoreInv, TLC

CONSTANTS n1, n2, n3, w1, w2, f1, f2, main

TwoNodes == {n1, n2}

\* Sizes of the nodes.
ThreeEach == [n \in Node |-> 3]
OneThree  == [n \in Node |-> IF n = n1 THEN 1 ELSE 3]

\* Sizes of the files.
TwoBlocks == [f \in File |-> 2]

OneAndTwo == [f \in File |-> IF f = f1 THEN 1 ELSE 2]

\* The names of the files.
OwnName  == [f \in File |-> f]

\* Who stores what.
Anything == [t \in Storer \cup {Console} |-> File]
OwnPath  == [t \in Storer \cup {Console} |-> IF t = w1 THEN {f1} ELSE {f2}]
=============================================================================
