----------------------------- MODULE MCJobTable -----------------------------
(* An instance of JobTable for TLC.                                        *)
EXTENDS JobTable, TLC

CONSTANTS n1, n2, n3, j1

\* Two blocks that share one node.
Chained  == 0 :> {n1, n2} @@ 1 :> {n2, n3}
=============================================================================
