----------------------------- MODULE Assignment -----------------------------
(***************************************************************************)
(* What YAMA's planner promises to the rest of YAMA: every block of a file *)
(* goes to a worker that is active and keeps a copy of it.  Module         *)
(* InOrderPlan states how, module Planner models the algorithms CLOCK and  *)
(* WCLOCK and implements it, and module JobTable takes any such plan.      *)
(***************************************************************************)
EXTENDS Integers, FiniteSets

CONSTANTS
  Node,       \* the DataNodes, each with its Worker
  NumBlocks   \* blocks of the file

ASSUME AssignmentAssumption == NumBlocks \in Nat \ {0}

Block == 0 .. NumBlocks - 1

\* The assignments of the blocks to the nodes of A, where copias[b] are the
\* nodes that keep a copy of block b.
Plans(A, copias) == {p \in [Block -> A] : \A b \in Block : p[b] \in copias[b]}
=============================================================================
