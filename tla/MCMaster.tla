------------------------------- MODULE MCMaster ------------------------------
(* A Master's threads and the Workers for TLC.                              *)
EXTENDS MasterAndWorkers, TLC

CONSTANTS n1, n2, t1, t2, t3, l1, l2, g, s

\* Three blocks on one node, and one on another.
MostOnOne == [h \in Hilo |-> IF h = 2 THEN n2 ELSE n1]

TheRequests == {t1, t2, t3, l1, l2, g, s}
TheOp == t1 :> "transform" @@ t2 :> "transform" @@ t3 :> "transform" @@ l1 :> "local" @@
         l2 :> "local" @@ g :> "global" @@ s :> "store"
TheAt == [r \in TheRequests |-> IF r \in {t3, l2} THEN n2 ELSE n1]
\* Block 0 has two lines, block 1 three, with something after them.
TheBlock == [r \in TheRequests |-> IF r = t2 THEN 1 ELSE 0]
TheBytes == [r \in TheRequests |-> IF r = t2 THEN 3 ELSE 2]
TheData == n1 :> <<6, 2, 9, 9, 7, 1, 4, 9>> @@ n2 :> <<5, 3, 9, 9>>

\* A job whose two blocks are on one node, and jobs with a block on each of two;
\* the reductions let something through, or nothing of one node.
All == [r \in TheRequests |-> 1 .. 9]
NoIns == [r \in TheRequests |-> <<>>]
OneNode(program) ==
  [sent |-> {t1, t2, l1, g}, program |-> program,
   ins |-> [NoIns EXCEPT ![l1] = <<t1, t2>>, ![g] = <<l1>>]]
TwoNodes(program) ==
  [sent |-> {t2, t3, l1, l2, g, s}, program |-> program,
   ins |-> [NoIns EXCEPT ![l1] = <<t2>>, ![l2] = <<t3>>, ![g] = <<l1, l2>>, ![s] = <<g>>]]
TheJobs == {OneNode([All EXCEPT ![l1] = {1, 2, 4, 6}, ![g] = {2, 4}]),
            TwoNodes([All EXCEPT ![g] = {1, 3, 4}]), TwoNodes([All EXCEPT ![l2] = {}])}
=============================================================================
