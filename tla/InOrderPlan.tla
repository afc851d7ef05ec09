---------------------------- MODULE InOrderPlan -----------------------------
(***************************************************************************)
(* The abstract planner: the blocks of a file are assigned one by one, in  *)
(* the order of the file, each to an active worker that keeps a copy, and  *)
(* what was assigned is never taken back.                                  *)
(***************************************************************************)
EXTENDS Assignment, Sequences

VARIABLES
  activos,  \* the active workers
  copias,   \* copias[b]: the active workers that keep block b
  plan      \* the workers of the first blocks

vars == <<activos, copias, plan>>

Init ==
  /\ activos \in (SUBSET Node) \ {{}}
  /\ copias \in [Block -> (SUBSET activos) \ {{}}]
  /\ plan = <<>>

Assign(n) ==
  /\ Len(plan) < NumBlocks
  /\ n \in copias[Len(plan)]
  /\ plan' = Append(plan, n)
  /\ UNCHANGED <<activos, copias>>

Next == \E n \in activos : Assign(n)

Spec == Init /\ [][Next]_vars

\* The plan as a function of the blocks.
AsFunction == [b \in Block |-> plan[b + 1]]
=============================================================================
