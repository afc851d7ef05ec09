--------------------------- MODULE MCMasterThreads --------------------------
(* Instances of MasterThreads for TLC.                                     *)
EXTENDS MasterThreads, TLC

CONSTANTS n1, n2

\* Three blocks on one node, and one on another.
MostOnOne == [h \in Hilo |-> IF h = 2 THEN n2 ELSE n1]
=============================================================================
