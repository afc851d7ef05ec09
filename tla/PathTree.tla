------------------------------ MODULE PathTree ------------------------------
(***************************************************************************)
(* What the directories and the names of yamafs promise to their users: a  *)
(* set of paths that is closed under prefixes, and a file at some of them. *)
(* No operation takes a path or a file away but the one that was asked to; *)
(* a FileSystem that dies while it moves a file leaves it at both paths.   *)
(***************************************************************************)
EXTENDS Functions, SequencesExt

CONSTANT FileId

VARIABLES
  tree,  \* the paths of directories: sequences of names
  names  \* the file at each path

Under(p, q) == IsPrefix(p, q)
Moved(p, q, r) == IF Under(p, r) THEN q \o SubSeq(r, Len(p) + 1, Len(r)) ELSE r

\* A file at p is not in the directory p.
FileMoved(p, q, r) == Append(Moved(p, q, Front(r)), Last(r))

Grown(p) == tree \cup Prefixes(p)
With(p, f) == [r \in DOMAIN names \cup {p} |-> IF r = p THEN f ELSE names[r]]

Init == tree = {<<>>} /\ names = <<>>

Mkdir(p) == tree' = Grown(p) /\ UNCHANGED names

\* A directory that exists goes to a free path outside of itself, with all
\* that is under it.
MoveDir(p, q) ==
  /\ p # <<>> /\ q \notin tree /\ ~Under(p, q)
  /\ tree' = {Moved(p, q, r) : r \in tree} \cup Prefixes(Front(q))
  /\ names' = [r \in {FileMoved(p, q, s) : s \in DOMAIN names} |->
                 names[CHOOSE s \in DOMAIN names : FileMoved(p, q, s) = r]]

Rmdir(p) ==
  /\ p # <<>>
  /\ \A r \in tree \ {p} : ~Under(p, r)
  /\ \A r \in DOMAIN names : ~(Under(p, r) /\ p # r)
  /\ tree' = tree \ {p} /\ UNCHANGED names

Store(p, f) ==
  /\ p \notin DOMAIN names /\ f \notin Range(names)
  /\ tree' = Grown(Front(p)) /\ names' = With(p, f)

MoveFile(p, q) ==
  /\ q \notin DOMAIN names /\ Front(q) \in tree
  /\ names' = Restrict(With(q, names[p]), (DOMAIN names \cup {q}) \ {p})
  /\ UNCHANGED tree

MovedByHalves(p, q) ==
  /\ q \notin DOMAIN names /\ Front(q) \in tree
  /\ names' = With(q, names[p]) /\ UNCHANGED tree

Rm(p) == names' = Restrict(names, DOMAIN names \ {p}) /\ UNCHANGED tree

Format == tree' = {<<>>} /\ names' = <<>>

\* A step's paths are among those that it adds and those that it takes away.
New  == DOMAIN names' \ DOMAIN names
Next ==
  \/ \E p \in tree' : Mkdir(p)
  \/ \E p \in tree \ tree' : Rmdir(p) \/ \E q \in tree' \ tree : MoveDir(p, q)
  \/ \E p \in New : \/ \E f \in FileId : Store(p, f)
                    \/ \E q \in DOMAIN names : MoveFile(q, p) \/ MovedByHalves(q, p)
  \/ \E p \in DOMAIN names \ DOMAIN names' : Rm(p)
  \/ Format

Spec == Init /\ [][Next]_<<tree, names>>
=============================================================================
