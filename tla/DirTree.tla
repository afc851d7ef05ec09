------------------------------ MODULE DirTree -------------------------------
(***************************************************************************)
(* The directories of yamafs and the names of its files: the table dirs of *)
(* dirtree.c, the list of files of filetable.c, their copies on disk, and  *)
(* the console's commands mkdir, mv, rename, rm, rm -d, cpfrom and format. *)
(* A file lies in the local directory metadata/archivos/<index of its      *)
(* directory>.  The FileSystem quits or dies, and starts from what is on   *)
(* disk.  Blocks are left out (BlockStore), and so are Workers' stores,    *)
(* which write dirs in a data race with the console.                       *)
(***************************************************************************)
EXTENDS Integers, FiniteSets, TLC, Functions, SequencesExt

CONSTANTS
  Name,       \* names of directories and files
  Root,       \* the name "/"
  NoName,     \* the name of a free entry, which nobody reads
  Suffix,     \* Suffix[n]: the names that end with n, n among them
  MaxSize,    \* entries of dirs: 100
  FileId,     \* bound: files
  MaxOnDisk,  \* bound: files on disk, with the copies of those that are moved
  MaxLen,     \* bound: components of a path given in a command
  IntoItself, \* bound: the operator moves directories into themselves
  CrashAt     \* bound: where the FileSystem dies: "idle", "move" (a file, copied
              \* and not removed), "rmdir" (the local directory removed and dirs
              \* not saved), "early" (nodos.bin is without nodes)

\* What the constants must be.
DirTreeAssumption ==
  /\ MaxSize \in Nat \ {0} /\ MaxLen \in Nat \ {0}
  /\ MaxOnDisk \in Nat /\ IntoItself \in BOOLEAN
  /\ CrashAt \subseteq {"idle", "move", "rmdir", "early"}
  /\ Root \notin Name /\ NoName \notin Name \cup {Root}
  /\ Suffix \in [Name -> SUBSET Name] /\ \A n \in Name : n \in Suffix[n]

VARIABLES
  dirs,      \* the table in memory
  files,     \* the list of files: real path -> file
  formatted, \* fs.formatted
  dat,       \* directorios.dat, or NoDat
  rdirs,     \* the local directories under metadata/archivos
  ondisk,    \* the files in them: real path -> file
  nodos,     \* nodos.bin lists the nodes
  up,        \* FALSE when the FileSystem cannot start
  pending    \* what remains of the command that is under way

mem  == <<dirs, files, formatted>>
disk == <<dat, rdirs, ondisk, nodos>>
vars == <<mem, disk, up, pending>>

Slot == 0 .. MaxSize - 1
NoDir == -1
NoDat == <<>>
Idle == [op |-> "idle"]
Free == [name |-> NoName, parent |-> -2]
Fresh == [i \in Slot |-> IF i = 0 THEN [name |-> Root, parent |-> -1] ELSE Free]

Arg == BoundedSeq(Name, MaxLen)     \* the paths given in commands
NewArg == Arg \ {<<>>}            \* and those that can be a file's
-----------------------------------------------------------------------------
(* The table.                                                              *)
Exists(t, i) == t[i].parent >= -1
Dirs(t) == {i \in Slot : Exists(t, i)}
Holes(t) == {i \in Slot : ~Exists(t, i)}
Children(t, i) == {c \in Dirs(t) : t[c].parent = i}

\* find_dir_by_name: the first one with this name and parent.
ByName(t, n, p) ==
  LET found == {i \in Dirs(t) : t[i].name = n /\ t[i].parent = p}
  IN IF found = {} THEN NoDir ELSE Min(found)

\* dirtree_find.
Find(t, path) ==
  LET at[k \in 0 .. Len(path)] ==
        IF k = 0 THEN 0
        ELSE LET d == at[k - 1] IN IF d = NoDir THEN NoDir ELSE ByName(t, path[k], d)
  IN at[Len(path)]

\* add_directory, after the directories of the path so far: the state of the
\* table, the last directory, those that were made, and whether a NULL entry
\* was not written.
AddDirectory(s, n) ==
  LET d == ByName(s.table, n, s.dir)
      i == Min(Holes(s.table))
  IN IF ~s.ok THEN s
     ELSE IF d # NoDir THEN [s EXCEPT !.dir = d]
     ELSE IF Holes(s.table) = {} THEN [s EXCEPT !.ok = FALSE]
     ELSE [table |-> [s.table EXCEPT ![i] = [name |-> n, parent |-> s.dir]],
           dir |-> i, made |-> s.made \cup {i}, ok |-> TRUE]

\* dirtree_add refuses any path once the last entry is in use, even one
\* whose directories exist, and returns NULL.
Refused(t) == Exists(t, MaxSize - 1)

Add(t, path) ==
  LET start == [table |-> t, dir |-> 0, made |-> {}, ok |-> TRUE]
  IN IF Refused(t) THEN [start EXCEPT !.dir = NoDir]
     ELSE FoldLeft(AddDirectory, start, path)

\* dirtree_path: the path of an entry, NoPath when its parents do not lead
\* to the root.
NoPath == <<NoName>>
PathOf(t, i) ==
  LET up_to[k \in Nat] ==
        [d \in Slot |->
           IF d = 0 THEN <<>>
           ELSE IF k = 0 \/ t[d].parent \notin Dirs(t) THEN NoPath
           ELSE LET rest == up_to[k - 1][t[d].parent]
                IN IF rest = NoPath THEN NoPath ELSE Append(rest, t[d].name)]
  IN up_to[MaxSize][i]

\* real_file_path: a local directory and a name in it, or no path at all.
RealPath(t, path) == <<Find(t, Front(path)), Last(path)>>
HasRealPath(t, path) == Find(t, Front(path)) # NoDir
FileAt(path) == RealPath(dirs, path) \in DOMAIN files
FilesIn(d) == {r \in DOMAIN files : r[1] = d}

\* Where mv puts something called n: at the new path, if its text ends with
\* n, and otherwise in it.
Target(n, new_path) ==
  IF new_path # <<>> /\ Last(new_path) \in Suffix[n] THEN new_path
  ELSE Append(new_path, n)

Saved(t) == IF formatted THEN t ELSE dat  \* save_to_file
NodosSaved == nodos \/ formatted          \* update_file of nodelist.c
-----------------------------------------------------------------------------
(* The console's commands.  One that only prints an error is no step.      *)
Command == up /\ formatted /\ pending = Idle

\* init: the table and the files that a start finds on disk.  The files of an
\* entry are those of the directory that dirtree_rpath gives for its path;
\* their sizes and blocks, read with them, are left out.
\* A directory whose local one is missing stops the program, and one that
\* does not lead to the root keeps it in dirtree_path, or is a NULL there.
Loaded(d) == IF d = NoDat THEN Fresh ELSE d
Readable(t, local) == \A i \in Dirs(t) : i \in local /\ PathOf(t, i) # NoPath
FilesOf(t, found) ==
  LET read == {Find(t, PathOf(t, i)) : i \in Dirs(t)}
  IN Restrict(found, {r \in DOMAIN found : r[1] \in read})

Boot(t, local, found, nodes) ==
  /\ dirs' = t /\ formatted' = nodes
  /\ files' = IF Readable(t, local) THEN FilesOf(t, found) ELSE <<>>
  /\ up' = Readable(t, local)
  /\ pending' = Idle

\* The process is gone, by a NULL pointer or from outside, and starts again:
\* without its memory, and with the local directories it had made.
Dead(made, nodes) ==
  /\ nodes \/ "early" \in CrashAt
  /\ rdirs' = rdirs \cup made /\ nodos' = nodes
  /\ Boot(Loaded(dat), rdirs \cup made, ondisk, nodes)
  /\ UNCHANGED <<dat, ondisk>>

\* What dirtree_add left: it saves, unless it refused or was given the root.
Added(a, path) ==
  /\ rdirs' = rdirs \cup a.made
  /\ dat' = IF a.dir = NoDir \/ path = <<>> THEN dat ELSE Saved(a.table)

Mkdir(path) ==
  LET a == Add(dirs, path)
  IN /\ Command /\ Cardinality(Dirs(dirs)) # MaxSize
     /\ \/ /\ a.ok
           /\ dirs' = a.table /\ Added(a, path)
           /\ UNCHANGED <<files, formatted, ondisk, nodos, up, pending>>
        \/ ~a.ok /\ Dead(a.made, nodos)

\* dirtree_move: the NULL that dirtree_add may return is not looked at.
MvDir(path, new_path) ==
  LET d == Find(dirs, path)
      target == Target(dirs[d].name, new_path)
      a == Add(dirs, Front(target))
      moved == [a.table EXCEPT ![d].parent = a.dir]
  IN /\ Command
     /\ d # 0 /\ Find(dirs, target) = NoDir
     /\ IntoItself \/ ~IsPrefix(path, target)
     /\ \/ /\ a.ok /\ a.dir # NoDir
           /\ dirs' = moved /\ dat' = Saved(moved) /\ rdirs' = rdirs \cup a.made
           /\ UNCHANGED <<files, formatted, ondisk, nodos, up, pending>>
        \/ (~a.ok \/ a.dir = NoDir) /\ Dead(a.made, nodos)

\* A name at the root is looked for, wherever the directory is.
NameTaken_M(path, new_name) == Find(dirs, <<new_name>>) # NoDir

\* The test of dirtree_rename.
NameTaken(path, new_name) == Find(dirs, Append(Front(path), new_name)) # NoDir

RenameDir(path, new_name) ==
  LET d == Find(dirs, path)
  IN /\ Command
     /\ d # 0 /\ ~NameTaken(path, new_name)
     /\ dirs' = [dirs EXCEPT ![d].name = new_name] /\ dat' = Saved(dirs')
     /\ UNCHANGED <<files, formatted, rdirs, ondisk, nodos, up, pending>>

\* Files are not counted.
Empty_M(d) == Children(dirs, d) = {}

\* The test of rm -d.
Empty(d) == Children(dirs, d) = {} /\ FilesIn(d) = {}

\* rm -d: the entry is freed and its local directory removed; the root's
\* never is.  Then the table is saved.
RmDir(path) ==
  LET d == Find(dirs, path)
  IN /\ Command
     /\ Empty(d)
     /\ IF d = 0 THEN UNCHANGED <<dirs, rdirs, ondisk>>
        ELSE /\ dirs' = [dirs EXCEPT ![d] = Free]
             /\ rdirs' = rdirs \ {d}
             /\ ondisk' = Restrict(ondisk, {r \in DOMAIN ondisk : r[1] # d})
     /\ pending' = [op |-> "rmdir"]
     /\ UNCHANGED <<files, formatted, dat, nodos, up>>

\* The table is not saved.
RmDirSave_M ==
  /\ up /\ pending.op = "rmdir" /\ pending' = Idle
  /\ UNCHANGED <<mem, disk, up>>

RmDirSave ==
  /\ up /\ pending.op = "rmdir"
  /\ dat' = Saved(dirs) /\ pending' = Idle
  /\ UNCHANGED <<mem, rdirs, ondisk, nodos, up>>

\* cpfrom of a file whose blocks could be stored: nodos.bin is saved with
\* the first of them.  filetable_add ignores a file that exists, and a path
\* without a directory is a NULL that real_file_path reads.
Store(path, f) ==
  LET a == Add(dirs, Front(path))
      real == RealPath(a.table, path)
  IN /\ Command
     /\ f \notin Range(files) \cup Range(ondisk)
     /\ Cardinality(DOMAIN ondisk) < MaxOnDisk
     /\ \/ /\ a.ok /\ HasRealPath(a.table, path)
           /\ dirs' = a.table /\ Added(a, Front(path))
           /\ IF real \in DOMAIN files THEN UNCHANGED <<files, ondisk>>
              ELSE files' = files @@ (real :> f) /\ ondisk' = (real :> f) @@ ondisk
           /\ nodos' = TRUE /\ UNCHANGED <<formatted, up, pending>>
        \/ ~(a.ok /\ HasRealPath(a.table, path)) /\ Dead(a.made, TRUE)

\* path_move copies the file to its new real path, and then removes it.
Copy(from, to) ==
  /\ Cardinality(DOMAIN ondisk) < MaxOnDisk
  /\ ondisk' = (to :> files[from]) @@ ondisk
  /\ pending' = [op |-> "move", from |-> from, to |-> to]

\* mv of a path at which there is a file and no directory.
MvFile(path, new_path) ==
  LET target == Target(Last(path), new_path)
      a == Add(dirs, Front(target))
  IN /\ Command
     /\ ~FileAt(target)
     /\ \/ /\ a.ok /\ HasRealPath(a.table, target)
           /\ dirs' = a.table /\ Added(a, Front(target))
           /\ Copy(RealPath(dirs, path), RealPath(a.table, target))
           /\ UNCHANGED <<files, formatted, nodos, up>>
        \/ ~(a.ok /\ HasRealPath(a.table, target)) /\ Dead(a.made, nodos)

RenameFile(path, new_name) ==
  LET to == <<Find(dirs, Front(path)), new_name>>
  IN /\ Command
     /\ to \notin DOMAIN files
     /\ Copy(RealPath(dirs, path), to)
     /\ UNCHANGED <<mem, dat, rdirs, nodos, up>>

\* The new key of the entry of a file that is moved.
Renamed(from, to) ==
  [r \in (DOMAIN files \ {from}) \cup {to} |->
     IF r = to THEN files[from] ELSE files[r]]

MoveDone ==
  /\ up /\ pending.op = "move"
  /\ ondisk' = Restrict(ondisk, DOMAIN ondisk \ {pending.from})
  /\ files' = Renamed(pending.from, pending.to)
  /\ pending' = Idle
  /\ UNCHANGED <<dirs, formatted, dat, rdirs, nodos, up>>

\* rm of a file; its blocks are released too.
RmFile(path) ==
  LET real == RealPath(dirs, path)
  IN /\ Command
     /\ files' = Restrict(files, DOMAIN files \ {real})
     /\ ondisk' = Restrict(ondisk, DOMAIN ondisk \ {real})
     /\ nodos' = NodosSaved
     /\ UNCHANGED <<dirs, formatted, dat, rdirs, up, pending>>

\* format, with a node connected, clears the table before fs.formatted is
\* set, so that the first format saves nothing.
Format ==
  /\ up /\ pending = Idle
  /\ dirs' = [i \in Slot |-> IF i = 0 THEN dirs[0] ELSE Free]
  /\ dat' = Saved(dirs')
  /\ rdirs' = rdirs \ (Slot \ {0})
  /\ files' = <<>>
  /\ ondisk' = Restrict(ondisk, {r \in DOMAIN ondisk : r[1] = 0 /\ r \notin DOMAIN files})
  /\ nodos' = NodosSaved /\ formatted' = TRUE
  /\ UNCHANGED <<up, pending>>
-----------------------------------------------------------------------------
(* The process.                                                            *)
\* quit, and a new start: nodelist_term and dirtree_term save.
Quit ==
  /\ up /\ pending = Idle
  /\ dat' = Saved(dirs) /\ nodos' = NodosSaved
  /\ Boot(Loaded(Saved(dirs)), rdirs, ondisk, NodosSaved)
  /\ UNCHANGED <<rdirs, ondisk>>

Crash == up /\ pending.op \in CrashAt /\ Dead({}, nodos)

\* A start with --clean: metadata is removed, and the root's directory made
\* with the first table.
Clean ==
  /\ dat' = NoDat /\ rdirs' = {0} /\ ondisk' = <<>> /\ nodos' = FALSE
  /\ Boot(Fresh, {0}, <<>>, FALSE)

Init ==
  /\ dirs = Fresh /\ files = <<>> /\ formatted = FALSE
  /\ dat = NoDat /\ rdirs = {0} /\ ondisk = <<>> /\ nodos = FALSE
  /\ up = TRUE /\ pending = Idle

\* dirtree_contains and filetable_contains of the paths of a command.
DirArg == {p \in Arg : Find(dirs, p) # NoDir}
FileArg == {p \in NewArg : FileAt(p)}

Next ==
  \/ \E p \in Arg \ DirArg : Mkdir(p)
  \/ \E p \in DirArg : \/ RmDir(p)
                       \/ \E q \in Arg : MvDir(p, q)
                       \/ \E n \in Name : RenameDir(p, n)
  \/ \E p \in NewArg, f \in FileId : Store(p, f)
  \/ \E p \in FileArg : RmFile(p)
  \/ \E p \in FileArg \ DirArg : \/ \E q \in Arg : MvFile(p, q)
                                 \/ \E n \in Name : RenameFile(p, n)
  \/ RmDirSave \/ MoveDone \/ Format \/ Quit \/ Crash \/ Clean

Spec == Init /\ [][Next]_vars
-----------------------------------------------------------------------------
(* Properties.                                                             *)

\* No two directories have one parent and one name, so that a path names
\* one directory (find_dir_by_name takes the first).
SiblingsApart ==
  \A i, j \in Dirs(dirs) :
    dirs[i].parent = dirs[j].parent /\ dirs[i].name = dirs[j].name => i = j

\* What is on disk always lets the FileSystem start: every directory that
\* was saved leads to the root and has its local one (dirtree_init,
\* dir_traverser).
StartsUp == up
=============================================================================
