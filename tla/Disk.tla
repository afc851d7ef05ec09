-------------------------------- MODULE Disk --------------------------------
(***************************************************************************)
(* What the FileSystem keeps on disk: its nodes and blocks (Metadata), and *)
(* its directories and the names of its files (DirTree).  The first state  *)
(* decides which of the two a behaviour is about; the other one does       *)
(* nothing.                                                                *)
(***************************************************************************)
EXTENDS Metadata, SequencesExt

CONSTANTS  \* those of DirTree
  Name, Root, NoName, Suffix, MaxSize, MaxOnDisk, MaxLen, IntoItself, CrashAt

VARIABLES
  part,  \* "names" or "blocks"
  view,  \* what commands can see of the directories and the names
  dirs, files, known, dirfile, rdirs, ondisk, listed, starts, pending \* those of DirTree
nameVars == <<dirs, files, known, dirfile, rdirs, ondisk, listed, starts, pending>>

Paths == INSTANCE DirTree WITH
  FileId <- File, formatted <- known, dat <- dirfile, nodos <- listed, up <- starts
ASSUME PathsAssumption == Paths!DirTreeAssumption

\* What commands can see: the paths at which there is a directory, and the
\* file at each path.  TLC computes it once a state.
Shown(t, fs) ==
  LET found == {<<p, Paths!Find(t, p)>> : p \in BoundedSeq(Name, MaxSize - 1)}
      there == {d \in found : d[2] # Paths!NoDir}
      named == {x \in there \X DOMAIN fs : x[1][2] = x[2][1]}
      at    == {<<Append(x[1][1], x[2][2]), fs[x[2]]>> : x \in named}
  IN [tree  |-> {d[1] : d \in there},
      names |-> [p \in {x[1] : x \in at} |-> (CHOOSE x \in at : x[1] = p)[2]]]

NoNames ==
  /\ dirs = None /\ files = None /\ known = None /\ dirfile = None /\ rdirs = None
  /\ ondisk = None /\ listed = None /\ starts = None /\ pending = None
  /\ view = [tree |-> {<<>>}, names |-> <<>>]
DiskInit ==
  /\ Init
  /\ \/ part = "names" /\ Paths!Init /\ view = Shown(dirs, files)
     \/ part = "blocks" /\ NoNames
DiskNext ==
  /\ \/ /\ part = "names" /\ Paths!Next /\ UNCHANGED vars
        /\ view' = IF UNCHANGED <<dirs, files>> THEN view ELSE Shown(dirs', files')
     \/ part = "blocks" /\ Next /\ UNCHANGED <<nameVars, view>>
  /\ UNCHANGED part
DiskSpec == DiskInit /\ [][DiskNext]_<<vars, nameVars, view, part>>
-----------------------------------------------------------------------------
Tree == INSTANCE PathTree WITH
  FileId <- File, tree <- view.tree, names <- view.names

\* Commands do to the paths and to the files at them what PathTree says, and
\* quitting, dying and starting again nothing, whatever entries of the table
\* are reused, moved or missing (dirtree.c, filetable.c, cmd_rm).
ImplementsTree == Tree!Spec

\* A path names one directory (SiblingsApart of DirTree: find_dir_by_name).
SiblingsApart == part = "names" => Paths!SiblingsApart

\* What is on disk starts (StartsUp of DirTree: dirtree_init, dir_traverser).
StartsUp == part = "names" => Paths!StartsUp
=============================================================================
