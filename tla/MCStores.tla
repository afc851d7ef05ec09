------------------------------ MODULE MCStores -------------------------------
(* Two cases of BlockStore for TLC in which no block is released while a    *)
(* worker stores: two workers and the operator store, or the operator alone *)
(* stores and removes.  The first state decides which one a behaviour is.   *)
EXTENDS MCBlockStore

VARIABLE case

Operated  == [t \in Storer \cup {Console} |-> IF t = Console THEN File ELSE {}]
Alone == INSTANCE BlockStore WITH
  NumBlocks <- OneAndTwo, Wants <- Operated, MaxCmds <- 4,
  ConsoleOps <- {"cpfrom", "rm", "rmblock"}

StoresInit == case \in {"stores", "operator"} /\ Init
StoresNext ==
  /\ \/ case = "stores" /\ Next
     \/ case = "operator" /\ Alone!Next
  /\ UNCHANGED case
StoresSpec ==
  /\ StoresInit /\ [][StoresNext]_<<vars, case>>
  /\ case = "stores" => Fairness
=============================================================================
