------------------------------ MODULE Metadata -------------------------------
(***************************************************************************)
(* What the FileSystem keeps on disk of its nodes and of the blocks of its *)
(* files, over quits, deaths and starts: nodos.bin and the bitmaps         *)
(* (nodelist.c, bitmap.c), the metadata of the files (filetable.c), and    *)
(* the order of it all (FileSystem.c, node_listener).                      *)
(*                                                                         *)
(* A file has one block with a copy 0 and a copy 1.  stdio holds the last  *)
(* bitmap written to a file back until the next one.  Directories and the  *)
(* names of files are in DirTree.                                          *)
(***************************************************************************)
EXTENDS Integers, FiniteSets

CONSTANTS
  Node, File,
  Total,     \* blocks of a node
  Commands,  \* the commands the operator uses
  DiesAt,    \* the control points at which the FileSystem may die
  Strangers, \* nodes connect that the FileSystem does not accept
  MaxCmds, MaxEnds, \* bounds: commands, and quits and deaths
  None

VARIABLES
  up,        \* the FileSystem runs
  formatted, \* fs.formatted
  nodes,     \* the nodes it knows
  bits,      \* bits[n]: blocks marked in the bitmap of n
  free,      \* free[n]: n's free_blocks
  libre,     \* libre[n]: the value of nLibre in the t_config
  conn,      \* connected nodes
  copies,    \* copies[f]: the copies of the files in the table
  nodos,     \* nodos.bin
  dat, held, \* dat[n]: n's bitmap file; held[n]: what stdio has not written to it
  meta,      \* meta[f]: the metadata file of f, with its copies or empty
  pc, job,   \* control point of the console, and the file it works on
  draft,     \* the copies of a file being stored; or those yet to be released
  crashed,   \* a NULL node was dereferenced
  cmds, ends,\* counters of the bounds
  last,      \* history: how the FileSystem last ended, and with what
  unsaved    \* history: nodes whose count changed without a save

memory == <<formatted, nodes, bits, free, libre, copies>>
disk == <<nodos, dat, held, meta>>
vars == <<up, memory, conn, disk, pc, job, draft, crashed, cmds, ends, last, unsaved>>

Index == 0 .. Total - 1
NoCopies == <<None, None>>
Empty == <<>>
\* None stands for no bitmap and for no file.
ASSUME MetadataAssumption ==
  Total \in Nat /\ None # Empty /\ \A s \in SUBSET Index : s # None
At(n, b) == [node |-> n, block |-> b]
Active(n) == n \in nodes /\ n \in conn
FirstZero(n) == CHOOSE b \in Index \ bits[n] : \A a \in Index \ bits[n] : b <= a

Sync_M(n, new) == dat' = dat /\ held' = [held EXCEPT ![n] = new]
\* sync_file: rewind writes what stdio holds, fwrite gives it the new bitmap.
Sync(n, new) ==
  /\ dat' = [dat EXCEPT ![n] = IF held[n] = None THEN @ ELSE held[n]]
  /\ held' = [held EXCEPT ![n] = new]

\* update_file of nodelist.c.
Saved(names, counts) == [nodos EXCEPT !.names = names, !.libre = counts]
SaveNodos(names, counts) == nodos' = IF formatted THEN Saved(names, counts) ELSE nodos
\* add_node_to_file.
AddToFile(n, count) ==
  /\ libre' = [libre EXCEPT ![n] = count]
  /\ SaveNodos(nodes, libre')
  /\ unsaved' = unsaved \ {n}
-----------------------------------------------------------------------------
Init ==
  /\ up = FALSE /\ formatted = FALSE /\ nodes = {} /\ conn = {}
  /\ bits = [n \in Node |-> {}] /\ free = [n \in Node |-> 0]
  /\ libre = [n \in Node |-> None] /\ copies = [f \in File |-> None]
  /\ nodos = [names |-> {}, libre |-> [n \in Node |-> None]]
  /\ dat = [n \in Node |-> {}] /\ held = [n \in Node |-> None]
  /\ meta = [f \in File |-> None]
  /\ pc = "idle" /\ job = None /\ draft = NoCopies
  /\ crashed = FALSE /\ cmds = 0 /\ ends = 0
  /\ last = [how |-> "clean"] /\ unsaved = {}

\* init: filetable_init, with dir_traverser and load_blocks, and nodelist_init,
\* with create_node and bitmap_load of every node.
Load(names, counts, maps, metas) ==
  /\ up' = TRUE /\ formatted' = (names # {}) /\ nodes' = names
  /\ bits' = [n \in Node |-> IF n \in names THEN maps[n] ELSE {}]
  /\ free' = [n \in Node |-> IF n \in names THEN counts[n] ELSE 0]
  /\ libre' = counts
  /\ copies' = metas
Start ==
  /\ ~up /\ ~crashed /\ \A f \in File : meta[f] # Empty
  /\ Load(nodos.names, nodos.libre, dat, meta)
  /\ UNCHANGED <<conn, disk, pc, job, draft, crashed, cmds, ends, last, unsaved>>
\* clear_previous_state: --clean.
StartClean ==
  /\ ~up /\ ~crashed
  /\ nodos' = [names |-> {}, libre |-> [n \in Node |-> None]]
  /\ dat' = [n \in Node |-> {}] /\ meta' = [f \in File |-> None]
  /\ Load({}, nodos'.libre, dat', meta')
  /\ last' = [how |-> "clean"] /\ unsaved' = {}
  /\ UNCHANGED <<conn, held, pc, job, draft, crashed, cmds, ends>>

\* receive_node_info.  A node that is refused is NULL when its port is set.
ConnectOld(n) ==
  /\ up /\ n \in nodes \ conn
  /\ conn' = conn \cup {n}
  /\ UNCHANGED <<up, memory, disk, pc, job, draft, crashed, cmds, ends, last, unsaved>>
ConnectNew(n) ==
  /\ up /\ n \notin nodes /\ ~formatted /\ pc = "idle"
  /\ conn' = conn \cup {n} /\ nodes' = nodes \cup {n}
  /\ bits' = [bits EXCEPT ![n] = dat[n]] /\ free' = [free EXCEPT ![n] = Total]
  /\ libre' = [libre EXCEPT ![n] = Total]
  /\ UNCHANGED <<up, formatted, copies, disk, pc, job, draft, crashed, cmds, ends, last, unsaved>>
ConnectRefused(n) ==
  /\ up /\ Strangers /\ ((n \notin nodes /\ formatted) \/ Active(n))
  /\ up' = FALSE /\ crashed' = TRUE
  /\ UNCHANGED <<memory, conn, disk, pc, job, draft, cmds, ends, last, unsaved>>
Disconnect(n) ==
  /\ n \in conn /\ conn' = conn \ {n}
  /\ UNCHANGED <<up, memory, disk, pc, job, draft, crashed, cmds, ends, last, unsaved>>
-----------------------------------------------------------------------------
(* Commands.                                                               *)

\* execute_line.
Command(c) ==
  /\ up /\ pc = "idle" /\ c \in Commands /\ (formatted \/ c = "format")
  /\ cmds < MaxCmds /\ cmds' = cmds + 1

\* cmd_format, where no file is stored: the nodes that are not active are
\* removed, the others cleared, and nodos.bin saved if this is not the first
\* format.  The t_config keeps the counts of before.
CmdFormat ==
  /\ Command("format") /\ nodes # {} /\ \A f \in File : copies[f] = None
  /\ nodes' = nodes \cap conn
  /\ bits' = [n \in Node |-> {}]
  /\ free' = [n \in Node |-> IF Active(n) THEN Total ELSE 0]
  /\ libre' = [n \in Node |-> IF n \in nodes \ conn THEN None ELSE libre[n]]
  /\ dat' = [n \in Node |-> IF n \notin nodes \/ held[n] = None THEN dat[n] ELSE held[n]]
  /\ held' = [n \in Node |-> IF Active(n) THEN {} ELSE IF n \in nodes THEN None ELSE held[n]]
  /\ SaveNodos(nodes', libre')
  /\ formatted' = TRUE
  /\ unsaved' = {n \in Node : Active(n) /\ libre[n] # Total}
  /\ UNCHANGED <<up, copies, conn, meta, pc, job, draft, crashed, ends, last>>

\* nodelist_addblock.
Alloc(n, c) ==
  /\ bits' = [bits EXCEPT ![n] = @ \cup {FirstZero(n)}] /\ Sync(n, bits'[n])
  /\ free' = [free EXCEPT ![n] = @ - 1] /\ AddToFile(n, free'[n])
  /\ draft' = [draft EXCEPT ![c] = At(n, FirstZero(n))]
\* A node whose bitmap is full has no free block, though after a death or with a
\* count that was not saved free_blocks may say so.
Usable == {n \in Node : Active(n) /\ free[n] > 0 /\ bits[n] # Index}
\* cmd_cpfrom and filetable_cpfrom, where there is room: a copy on each of two
\* nodes, or one when a single block is free.
Store(f, n) ==
  /\ Command("store") /\ copies[f] = None /\ n \in Usable
  /\ Usable # {n} \/ free[n] = 1
  /\ Alloc(n, 1)
  /\ job' = f /\ pc' = IF Usable = {n} THEN "add" ELSE "mirror"
  /\ UNCHANGED <<up, formatted, nodes, copies, conn, meta, crashed, ends, last>>
StoreMirror(n) ==
  /\ up /\ pc = "mirror" /\ n \in Usable /\ n # draft[1].node
  /\ Alloc(n, 2)
  /\ pc' = "add"
  /\ UNCHANGED <<up, formatted, nodes, copies, conn, meta, job, crashed, cmds, ends, last>>
\* filetable_add: path_mkfile and then update_file with save_blocks.
Add ==
  /\ up /\ pc = "add"
  /\ copies' = [copies EXCEPT ![job] = draft]
  /\ meta' = [meta EXCEPT ![job] = Empty]
  /\ pc' = "save"
  /\ UNCHANGED <<up, formatted, nodes, bits, free, libre, conn, nodos, dat, held, job, draft,
                 crashed, cmds, ends, last, unsaved>>
Save ==
  /\ up /\ pc = "save"
  /\ meta' = [meta EXCEPT ![job] = copies[job]]
  /\ pc' = "idle" /\ job' = None /\ draft' = NoCopies
  /\ UNCHANGED <<up, memory, conn, nodos, dat, held, crashed, cmds, ends, last, unsaved>>

\* cmd_rm: path_remove, then nodelist_rmblock, a copy at a time.
Rm(f) ==
  /\ Command("rm") /\ copies[f] # None
  /\ meta' = [meta EXCEPT ![f] = None]
  /\ job' = f /\ draft' = copies[f] /\ pc' = "rm"
  /\ UNCHANGED <<up, memory, conn, nodos, dat, held, crashed, ends, last, unsaved>>
RmCopy(c) ==
  /\ up /\ pc = "rm" /\ draft[c] # None /\ \A b \in 1 .. c - 1 : draft[b] = None
  /\ draft' = [draft EXCEPT ![c] = None]
  /\ LET n == draft[c].node IN
     IF n \in nodes
     THEN /\ bits' = [bits EXCEPT ![n] = @ \ {draft[c].block}] /\ Sync(n, bits'[n])
          /\ free' = [free EXCEPT ![n] = @ + 1] /\ AddToFile(n, free'[n])
     ELSE UNCHANGED <<bits, free, libre, nodos, dat, held, unsaved>>
  /\ UNCHANGED <<up, formatted, nodes, copies, conn, meta, pc, job, crashed, cmds, ends, last>>
RmEnd ==
  /\ up /\ pc = "rm" /\ draft = NoCopies
  /\ copies' = [copies EXCEPT ![job] = None]
  /\ pc' = "idle" /\ job' = None
  /\ UNCHANGED <<up, formatted, nodes, bits, free, libre, conn, disk, draft, crashed, cmds, ends,
                 last, unsaved>>

\* update_file of filetable.c.
SaveBlocks(f, new) == meta' = [meta EXCEPT ![f] = new]
\* filetable_rm_block, of a copy that is not the last.
RmBlock(f, c) ==
  /\ Command("rmblock") /\ copies[f] # None /\ \A d \in {1, 2} : copies[f][d] # None
  /\ LET copy == copies[f][c] IN
     /\ bits' = [bits EXCEPT ![copy.node] = @ \ {copy.block}] /\ Sync(copy.node, bits'[copy.node])
     /\ free' = [free EXCEPT ![copy.node] = @ + 1]
     /\ unsaved' = unsaved \cup {copy.node}
  /\ copies' = [copies EXCEPT ![f][c] = None] /\ SaveBlocks(f, copies'[f])
  /\ UNCHANGED <<up, formatted, nodes, libre, conn, nodos, pc, job, draft, crashed, ends, last>>
\* filetable_cpblock, the content left out.
CpBlock(f, n) ==
  /\ Command("cpblock") /\ copies[f] # None /\ Active(n) /\ bits[n] # Index
  /\ \E c \in {1, 2} :
       /\ copies[f][c] = None /\ copies[f][3 - c].node # n
       /\ copies' = [copies EXCEPT ![f][c] = At(n, FirstZero(n))]
  /\ SaveBlocks(f, copies'[f])
  /\ bits' = [bits EXCEPT ![n] = @ \cup {FirstZero(n)}] /\ Sync(n, bits'[n])
  /\ free' = [free EXCEPT ![n] = @ - 1]
  /\ unsaved' = unsaved \cup {n}
  /\ UNCHANGED <<up, formatted, nodes, libre, conn, nodos, pc, job, draft, crashed, ends, last>>
-----------------------------------------------------------------------------
(* The end of the FileSystem.                                              *)

Ended(how) == [how |-> how, formatted |-> formatted, nodes |-> nodes, bits |-> bits,
               free |-> free, copies |-> copies]

Closed_M(n) == dat[n]
\* bitmap_destroy closes the file, and stdio writes what it holds.
Closed(n) == IF held[n] = None THEN dat[n] ELSE held[n]
\* term: nodelist_term with update_file.
Quit ==
  /\ up /\ pc = "idle" /\ ends < MaxEnds /\ ends' = ends + 1
  /\ up' = FALSE /\ conn' = {} /\ last' = Ended("quit")
  /\ SaveNodos(nodes, libre)
  /\ dat' = [n \in Node |-> Closed(n)] /\ held' = [n \in Node |-> None]
  /\ UNCHANGED <<memory, meta, pc, job, draft, crashed, cmds, unsaved>>
\* It is killed, with what stdio holds.
Die ==
  /\ up /\ pc \in DiesAt /\ ends < MaxEnds /\ ends' = ends + 1
  /\ up' = FALSE /\ conn' = {} /\ last' = Ended("died")
  /\ held' = [n \in Node |-> None]
  /\ pc' = "idle" /\ job' = None /\ draft' = NoCopies
  /\ UNCHANGED <<memory, nodos, dat, meta, crashed, cmds, unsaved>>

Next ==
  \/ Start \/ StartClean \/ CmdFormat \/ Add \/ Save \/ RmEnd \/ Quit \/ Die
  \/ \E n \in Node : ConnectOld(n) \/ ConnectNew(n) \/ ConnectRefused(n) \/ Disconnect(n) \/ StoreMirror(n)
  \/ \E f \in File : Rm(f) \/ \E n \in Node : Store(f, n) \/ CpBlock(f, n)
  \/ \E c \in {1, 2} : RmCopy(c) \/ \E f \in File : RmBlock(f, c)

Spec == Init /\ [][Next]_vars
-----------------------------------------------------------------------------
StartsAfter(how) == ~up /\ up' /\ last'.how = how /\ last.formatted

\* A FileSystem that was quit starts with the nodes, the marked blocks and the
\* files it had, whatever was done before; and with the counts of free blocks,
\* but for the nodes whose count was last changed by rm -b, cpblock or format
\* (nodelist_term, bitmap_destroy, bitmap_load, update_file, load_blocks,
\* add_node_to_file).
Kept ==
  StartsAfter("quit") =>
    /\ nodes' = last.nodes /\ bits' = last.bits /\ copies' = last.copies
    /\ \A n \in last.nodes \ unsaved : free'[n] = last.free[n]
QuitKeepsState == [][Kept]_vars

\* nodos.bin is kept like the list of nodes, with its counts (nodelist.h:21).
QuitKeepsAllCounts ==
  [][StartsAfter("quit") => \A n \in last.nodes : free'[n] = last.free[n]]_vars

\* A FileSystem that died starts with the copies of the files it had, without
\* the one it was removing; and of the marks of a node's blocks only the last
\* one set may be lost (sync_file).
AlmostKept ==
  StartsAfter("died") =>
    /\ \A f \in File : copies'[f] \in {last.copies[f], None}
    /\ \A n \in nodes' : Cardinality(last.bits[n] \ bits'[n]) <= 1
DeathLosesOneMark == [][AlmostKept]_vars

\* A node that is refused is told so, and the FileSystem goes on.
RefusalsSurvived == ~crashed
=============================================================================
