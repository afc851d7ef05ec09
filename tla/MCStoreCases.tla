---------------------------- MODULE MCStoreCases -----------------------------
(* Three cases of BlockStore for TLC: a worker stores while the operator    *)
(* stores and removes, with the data race; two workers store files of one   *)
(* name while a connection is lost; and the operator alone stores, removes  *)
(* and copies blocks.  The first state decides which one a behaviour is.    *)
EXTENDS BlockStoreInv, TLC

CONSTANTS n1, n2, w1, w2, f1, f2, main
VARIABLE case

TwoEach   == [n \in Node |-> 2]
FourEach  == [n \in Node |-> 4]
OneBlock  == [f \in File |-> 1]
OneAndTwo == [f \in File |-> IF f = f1 THEN 1 ELSE 2]
OwnName   == [f \in File |-> f]
SameName  == [f \in File |-> f1]

\* A worker and the operator may store any file.
Contended == [t \in {w1, main} |-> File]
\* Two workers store files of one name, and so in one local file.
Requested == w1 :> File @@ w2 :> {f2} @@ main :> {}
Lossy == INSTANCE BlockStore WITH
  Storer <- {w1, w2}, MaxBlocks <- 2, NumBlocks <- OneAndTwo, Wants <- Requested,
  Total <- FourEach, Base <- SameName, ConsoleOps <- {}, MaxCmds <- 0, MaxDrops <- 1

\* The operator alone stores, takes copies away and makes new ones.
Typed == w1 :> {} @@ main :> File
Copied == INSTANCE BlockStore WITH
  MaxBlocks <- 2, NumBlocks <- OneAndTwo, Wants <- Typed, Total <- TwoEach,
  ConsoleOps <- {"cpfrom", "rm", "rmblock", "cpblock"}, MaxCmds <- 5, MaxDrops <- 0

CaseInit ==
  \/ case = "race" /\ Init
  \/ case = "losses" /\ Lossy!Init
  \/ case = "copies" /\ Copied!Init
CaseNext ==
  /\ \/ case = "race" /\ Next
     \/ case = "losses" /\ Lossy!Next
     \/ case = "copies" /\ Copied!Next
  /\ UNCHANGED case
CaseSpec == CaseInit /\ [][CaseNext]_<<vars, case>>

\* After a loss every block of a stored file keeps a copy, and its two copies
\* are on two nodes; so are those cpblock makes, in blocks that it chose before
\* two exchanges with the nodes and that nobody else was given meanwhile.
CopiesKept ==
  /\ case = "losses" => Lossy!KeepsACopy /\ Lossy!MirrorsApart
  /\ case = "copies" => Copied!MirrorsApart /\ Copied!NoSharing /\ Copied!BlocksMarked

\* EveryBlockReadable where the data race, which lets two stores share a block,
\* is not at work.
StoredReadable == case = "losses" => Lossy!EveryBlockReadable
=============================================================================
