----------------------------- MODULE DiskProofs ------------------------------
(***************************************************************************)
(* Proofs about module Disk.  Of the nodes and the blocks (Metadata), for  *)
(* any nodes, files, commands and deaths: what was quit starts as it was,  *)
(* and a death loses at most one mark of a node and the file that was      *)
(* being removed.  Of the directories (DirTree), for any names, paths and  *)
(* size of the table: a path names one directory, and what is on disk lets *)
(* the FileSystem start.                                                   *)
(***************************************************************************)
EXTENDS Disk, FoldProofs

(* The nodes and the blocks.                                               *)

Place  == [node : Node, block : Index] \cup {None}
Places == [1 .. 2 -> Place]
Maps   == [Node -> SUBSET Index]

Types ==
  /\ nodes \subseteq Node /\ nodos.names \subseteq Node
  /\ nodos = [names |-> nodos.names, libre |-> [n \in Node |-> nodos.libre[n]]]
  /\ bits \in Maps /\ dat \in Maps
  /\ held \in [Node -> (SUBSET Index) \cup {None}]
  /\ free = [n \in Node |-> free[n]] /\ libre = [n \in Node |-> libre[n]]
  /\ copies \in [File -> Places \cup {None, Empty}] /\ meta \in [File -> Places \cup {None, Empty}]
  /\ draft \in Places
  /\ pc \in {"idle", "mirror", "add", "save", "rm"} /\ (pc # "idle" => job \in File)
  /\ up => \A f \in File : copies[f] # Empty

\* While the FileSystem runs: a node's bitmap is the last one handed to stdio, the
\* file is behind it by one change at most, and no other node has marks.
Marks == up =>
  /\ \A n \in nodes : bits[n] = Closed(n)
  /\ \A n \in Node \ nodes : bits[n] = {} /\ (~formatted => held[n] = None)
  /\ \A n \in Node : \A a, b \in bits[n] \ dat[n] : a = b

\* The t_config has the counts, but for the nodes in unsaved.
Counts == up => \A n \in nodes \ unsaved : libre[n] = free[n]

\* The metadata is that of the table of files, but for the one worked on.
FilesSaved == up =>
  /\ pc \in {"idle", "mirror", "add"} => meta = copies
  /\ pc \in {"save", "rm"} => \A f \in File \ {job} : meta[f] = copies[f]
  /\ pc = "save" => meta[job] = Empty
  /\ pc = "rm" => meta[job] = None

\* What is on disk after a quit, and after a death.
QuitLeft ==
  /\ nodos.names = last.nodes /\ meta = last.copies /\ last.bits \in Maps
  /\ \A n \in last.nodes : dat[n] = last.bits[n]
  /\ \A n \in Node \ last.nodes : last.bits[n] = {}
  /\ \A n \in last.nodes \ unsaved : nodos.libre[n] = last.free[n]
DeathLeft ==
  /\ \A f \in File : meta[f] \in {last.copies[f], None, Empty}
  /\ \A n \in Node : \A a, b \in last.bits[n] \ dat[n] : a = b
Stopped == ~up /\ ~crashed =>
  /\ pc = "idle" /\ \A n \in Node : held[n] = None
  /\ last.how = "quit" /\ last.formatted => QuitLeft
  /\ last.how = "died" => DeathLeft

\* The inductive invariant.
DiskInv == Types /\ Marks /\ Counts /\ FilesSaved /\ Stopped
-----------------------------------------------------------------------------
\* bitmap_firstzero finds an unmarked block where there is one.
LEMMA FirstZeroIsFree ==
  ASSUME NEW n, bits[n] \subseteq Index, bits[n] # Index
  PROVE  FirstZero(n) \in Index \ bits[n]
<1> DEFINE Zeros == Index \ bits[n]
<1>1. IsWellFoundedOn(OpToRel(<, Nat), Nat)
  BY NatLessThanWellFounded
<1>2. Zeros \subseteq Nat
  BY MetadataAssumption DEF Index
<1>3. Zeros # {}
  OBVIOUS
<1> HIDE DEF Zeros
<1>4. PICK b \in Zeros : \A a \in Zeros : ~ (<<a, b>> \in OpToRel(<, Nat))
  BY <1>1, <1>2, <1>3, WFMin
<1>5. \A a \in Zeros : ~ (a < b)
  BY <1>2, <1>4, Zenon DEF OpToRel
<1>6. \A a \in Zeros : b <= a
  BY <1>2, <1>5
<1> QED
  BY <1>4, <1>6 DEF FirstZero, Zeros

\* A change of one mark of a node, and its Sync.
LEMMA MarkWritten ==
  ASSUME Types, Marks, up, NEW n \in Node, NEW x \in Index, NEW new,
         \/ n \in nodes /\ new = bits[n] \cup {x}
         \/ new = bits[n] \ {x},
         n \in nodes \/ formatted,
         bits' = [bits EXCEPT ![n] = new], Sync(n, new),
         up', UNCHANGED <<nodes, formatted>>
  PROVE  /\ bits' \in Maps /\ dat' \in Maps /\ held' \in [Node -> (SUBSET Index) \cup {None}]
         /\ Marks'
<1>1. new \in SUBSET Index /\ new # None
  <2>1. bits[n] \subseteq Index
    BY DEF Types, Maps
  <2>2. new \in SUBSET Index
    BY <2>1
  <2> QED
    BY MetadataAssumption, <2>2
<1>2. /\ bits' \in Maps /\ dat' \in Maps /\ held' \in [Node -> (SUBSET Index) \cup {None}]
  BY <1>1 DEF Types, Maps, Sync
<1>3. /\ bits'[n] = new /\ held'[n] = new
      /\ dat'[n] = Closed(n)
  BY DEF Types, Maps, Sync, Closed
<1>4. \A m \in Node \ {n} : bits'[m] = bits[m] /\ held'[m] = held[m] /\ dat'[m] = dat[m]
  BY DEF Types, Maps, Sync
<1>5. \A m \in nodes : bits'[m] = Closed(m)'
  BY <1>1, <1>3, <1>4 DEF Types, Marks, Closed
<1>6. \A m \in Node \ nodes : bits'[m] = {} /\ (~formatted => held'[m] = None)
  BY <1>1, <1>3, <1>4 DEF Types, Marks
<1>7. \A m \in Node : \A a, b \in bits'[m] \ dat'[m] : a = b
  <2>1. CASE n \in nodes
    <3>1. dat'[n] = bits[n]
      BY <1>3, <2>1 DEF Marks
    <3> QED
      BY <1>3, <1>4, <3>1 DEF Marks
  <2>2. CASE n \notin nodes
    BY <1>3, <1>4, <2>2 DEF Marks
  <2> QED
    BY <2>1, <2>2
<1> QED
  BY <1>2, <1>5, <1>6, <1>7 DEF Marks

\* An allocation: the mark, its Sync, the counts and nodos.bin.
LEMMA Allocated ==
  ASSUME Types, Marks, Counts, up, NEW n \in Node, NEW c \in {1, 2},
         n \in nodes, bits[n] # Index, Alloc(n, c),
         up', UNCHANGED <<nodes, formatted>>
  PROVE  /\ bits' \in Maps /\ dat' \in Maps /\ held' \in [Node -> (SUBSET Index) \cup {None}]
         /\ Marks' /\ Counts' /\ draft' \in Places
         /\ free' = [m \in Node |-> free'[m]] /\ libre' = [m \in Node |-> libre'[m]]
         /\ nodos'.names \subseteq Node
         /\ nodos' = [names |-> nodos'.names, libre |-> [m \in Node |-> nodos'.libre[m]]]
<1>1. FirstZero(n) \in Index
  BY FirstZeroIsFree DEF Types, Maps
<1>2. /\ bits' = [bits EXCEPT ![n] = bits[n] \cup {FirstZero(n)}]
      /\ Sync(n, bits[n] \cup {FirstZero(n)})
  BY DEF Alloc, Types, Maps
<1>3. /\ bits' \in Maps /\ dat' \in Maps /\ held' \in [Node -> (SUBSET Index) \cup {None}]
      /\ Marks'
  BY <1>1, <1>2, MarkWritten
<1>4. draft' \in Places
  BY <1>1 DEF Alloc, Types, Places, Place, At
<1>5. /\ free' = [free EXCEPT ![n] = free[n] - 1] /\ libre' = [libre EXCEPT ![n] = free'[n]]
      /\ SaveNodos(nodes, libre') /\ unsaved' = unsaved \ {n}
  BY DEF Alloc, AddToFile
<1>6. free' = [m \in Node |-> free'[m]] /\ libre' = [m \in Node |-> libre'[m]]
  BY <1>5 DEF Types
<1>7. Counts'
  BY <1>5 DEF Types, Counts
<1>8. /\ nodos'.names \subseteq Node
      /\ nodos' = [names |-> nodos'.names, libre |-> [m \in Node |-> nodos'.libre[m]]]
  BY <1>5, <1>6 DEF Types, SaveNodos, Saved
<1> QED
  BY <1>3, <1>4, <1>6, <1>7, <1>8

-----------------------------------------------------------------------------
(* One lemma for each action.                                              *)

\* The invariant holds at first.
LEMMA InitDisk == ASSUME Init PROVE DiskInv
<1> USE DEF Init
<1>1. draft \in Places
  BY DEF NoCopies, Places, Place
<1>2. Types
  BY <1>1 DEF Types, Maps
<1>3. Marks /\ Counts /\ FilesSaved
  BY DEF Marks, Counts, FilesSaved
<1>4. Stopped
  BY DEF Stopped
<1> QED
  BY <1>2, <1>3, <1>4 DEF DiskInv

\* A change of the draft alone keeps the invariant.
LEMMA FrameDisk ==
  ASSUME DiskInv, UNCHANGED <<up, memory, disk, pc, job, crashed, last, unsaved>>, draft' \in Places
  PROVE  DiskInv'
<1> USE DEF memory, disk, DiskInv
<1>1. Types'
  BY DEF Types
<1>2. Marks'
  BY DEF Marks, Closed
<1>3. Counts' /\ FilesSaved'
  BY DEF Counts, FilesSaved
<1>4. Stopped'
  BY DEF Stopped, QuitLeft, DeathLeft
<1> QED
  BY <1>1, <1>2, <1>3, <1>4

\* A start from what was saved keeps it.
LEMMA StartDisk ==
  ASSUME DiskInv, Start PROVE DiskInv'
<1> USE DEF Start, Load
<1>1. \A n \in Node : held[n] = None
  BY DEF DiskInv, Stopped
<1>2. Types'
  BY DEF DiskInv, Types, Maps, disk
<1>3. Marks'
  BY <1>1 DEF DiskInv, Types, Marks, Maps, Closed, disk
<1>4. Counts'
  BY DEF DiskInv, Types, Counts
<1>5. FilesSaved'
  BY DEF DiskInv, Stopped, FilesSaved, disk
<1> QED
  BY <1>2, <1>3, <1>4, <1>5 DEF DiskInv, Stopped

\* A start with --clean keeps it.
LEMMA StartCleanDisk ==
  ASSUME DiskInv, StartClean PROVE DiskInv'
<1> USE DEF StartClean, Load
<1>1. \A n \in Node : held[n] = None
  BY DEF DiskInv, Stopped
<1>2. Types'
  <2>1. /\ nodos'.names = {} /\ libre' = [n \in Node |-> None]
        /\ nodos' = [names |-> {}, libre |-> libre']
    OBVIOUS
  <2>2. nodos' = [names |-> nodos'.names, libre |-> [n \in Node |-> nodos'.libre[n]]]
    BY <2>1
  <2>3. bits' \in Maps /\ dat' \in Maps
    BY DEF Maps
  <2>4. \A f \in File : copies'[f] = None
    OBVIOUS
  <2> QED
    BY MetadataAssumption, <2>1, <2>2, <2>3, <2>4 DEF DiskInv, Types
<1>3. Marks'
  BY <1>1 DEF DiskInv, Types, Marks, Maps, Closed
<1>4. Counts' /\ FilesSaved'
  BY DEF DiskInv, Stopped, Counts, FilesSaved
<1> QED
  BY <1>2, <1>3, <1>4 DEF DiskInv, Stopped

\* A node that connects for the first time keeps it.
LEMMA ConnectNewDisk ==
  ASSUME DiskInv, NEW n \in Node, ConnectNew(n) PROVE DiskInv'
<1> USE DEF ConnectNew
<1>1. dat[n] = Closed(n)
  BY DEF DiskInv, Marks, Closed
<1>2. Types'
  BY DEF DiskInv, Types, Maps, disk
<1>3. Marks'
  BY <1>1 DEF DiskInv, Types, Marks, Maps, Closed, disk
<1>4. Counts' /\ FilesSaved'
  BY DEF DiskInv, Types, Counts, FilesSaved, disk
<1> QED
  BY <1>2, <1>3, <1>4 DEF DiskInv, Stopped

\* A node that is refused keeps it.
LEMMA ConnectRefusedDisk ==
  ASSUME DiskInv, NEW n \in Node, ConnectRefused(n) PROVE DiskInv'
  BY DEF ConnectRefused, memory, disk, DiskInv, Types, Marks, Counts, FilesSaved, Stopped

\* A format keeps it.
LEMMA FormatDisk ==
  ASSUME DiskInv, CmdFormat PROVE DiskInv'
<1> USE DEF CmdFormat, Command, Active
<1>1. Types'
  BY DEF DiskInv, Types, Maps, SaveNodos, Saved
<1>2. Marks'
  BY MetadataAssumption DEF DiskInv, Types, Marks, Maps, Closed
<1>3. Counts' /\ FilesSaved'
  BY DEF DiskInv, Types, Counts, FilesSaved
<1> QED
  BY <1>1, <1>2, <1>3 DEF DiskInv, Stopped

\* The first copy of a file that is stored keeps it.
LEMMA StoreDisk ==
  ASSUME DiskInv, NEW f \in File, NEW n \in Node, Store(f, n) PROVE DiskInv'
<1>1. up /\ up' /\ n \in nodes /\ bits[n] # Index /\ Alloc(n, 1) /\ UNCHANGED <<nodes, formatted>>
  BY DEF Store, Command, Usable, Active
<1>2. /\ bits' \in Maps /\ dat' \in Maps /\ held' \in [Node -> (SUBSET Index) \cup {None}]
      /\ Marks' /\ Counts' /\ draft' \in Places
      /\ free' = [m \in Node |-> free'[m]] /\ libre' = [m \in Node |-> libre'[m]]
      /\ nodos'.names \subseteq Node
      /\ nodos' = [names |-> nodos'.names, libre |-> [m \in Node |-> nodos'.libre[m]]]
  BY <1>1, Allocated DEF DiskInv
<1>3. Types' /\ FilesSaved'
  BY <1>1, <1>2 DEF Store, Command, DiskInv, Types, FilesSaved
<1> QED
  BY <1>1, <1>2, <1>3 DEF DiskInv, Stopped

\* The second copy keeps it.
LEMMA StoreMirrorDisk ==
  ASSUME DiskInv, NEW n \in Node, StoreMirror(n) PROVE DiskInv'
<1>1. up /\ up' /\ n \in nodes /\ bits[n] # Index /\ Alloc(n, 2) /\ UNCHANGED <<nodes, formatted>>
  BY DEF StoreMirror, Usable, Active
<1>2. /\ bits' \in Maps /\ dat' \in Maps /\ held' \in [Node -> (SUBSET Index) \cup {None}]
      /\ Marks' /\ Counts' /\ draft' \in Places
      /\ free' = [m \in Node |-> free'[m]] /\ libre' = [m \in Node |-> libre'[m]]
      /\ nodos'.names \subseteq Node
      /\ nodos' = [names |-> nodos'.names, libre |-> [m \in Node |-> nodos'.libre[m]]]
  BY <1>1, Allocated DEF DiskInv
<1>3. Types' /\ FilesSaved'
  BY <1>1, <1>2 DEF StoreMirror, DiskInv, Types, FilesSaved
<1> QED
  BY <1>1, <1>2, <1>3 DEF DiskInv, Stopped

\* The addition of the file to the table keeps it.
LEMMA AddDisk == ASSUME DiskInv, Add PROVE DiskInv'
<1>1. Types'
  BY DEF Add, DiskInv, Types, Empty, Places
<1>2. Marks' /\ Counts'
  BY DEF Add, DiskInv, Marks, Closed, Counts
<1>3. FilesSaved'
  BY DEF Add, DiskInv, Types, FilesSaved
<1> QED
  BY <1>1, <1>2, <1>3 DEF Add, DiskInv, Stopped

\* The end of a store keeps it.
LEMMA SaveDisk == ASSUME DiskInv, Save PROVE DiskInv'
<1>1. Types'
  BY DEF Save, memory, DiskInv, Types, NoCopies, Places, Place
<1>2. Marks' /\ Counts' /\ FilesSaved'
  BY DEF Save, memory, DiskInv, Types, Marks, Closed, Counts, FilesSaved
<1> QED
  BY <1>1, <1>2 DEF Save, DiskInv, Stopped

\* The removal of a file begins and keeps it.
LEMMA RmDisk == ASSUME DiskInv, NEW f \in File, Rm(f) PROVE DiskInv'
<1>1. Types'
  BY DEF Rm, Command, memory, DiskInv, Types
<1>2. Marks' /\ Counts'
  BY DEF Rm, Command, memory, DiskInv, Marks, Closed, Counts
<1>3. FilesSaved'
  BY DEF Rm, Command, memory, DiskInv, Types, FilesSaved
<1> QED
  BY <1>1, <1>2, <1>3 DEF Rm, Command, DiskInv, Stopped

\* The removal ends and keeps it.
LEMMA RmEndDisk == ASSUME DiskInv, RmEnd PROVE DiskInv'
<1>1. Types'
  BY MetadataAssumption DEF RmEnd, disk, DiskInv, Types
<1>2. Marks' /\ Counts' /\ FilesSaved'
  BY DEF RmEnd, disk, DiskInv, Types, Marks, Closed, Counts, FilesSaved
<1> QED
  BY <1>1, <1>2 DEF RmEnd, DiskInv, Stopped

\* The release of a copy of the file keeps it.
LEMMA RmCopyDisk ==
  ASSUME DiskInv, NEW c \in {1, 2}, RmCopy(c) PROVE DiskInv'
<1> DEFINE n == draft[c].node
<1>1. n \in Node /\ draft[c].block \in Index /\ up /\ up' /\ UNCHANGED <<nodes, formatted>>
  BY DEF RmCopy, DiskInv, Types, Places, Place
<1>2. draft' \in Places
  BY DEF RmCopy, DiskInv, Types, Places, Place
<1>3. CASE n \in nodes
  <2>1. /\ bits' = [bits EXCEPT ![n] = bits[n] \ {draft[c].block}]
        /\ Sync(n, bits[n] \ {draft[c].block})
        /\ free' = [free EXCEPT ![n] = free[n] + 1] /\ libre' = [libre EXCEPT ![n] = free'[n]]
        /\ SaveNodos(nodes, libre') /\ unsaved' = unsaved \ {n}
    BY <1>1, <1>3 DEF RmCopy, AddToFile, DiskInv, Types, Maps
  <2> HIDE DEF n
  <2>2. /\ bits' \in Maps /\ dat' \in Maps /\ held' \in [Node -> (SUBSET Index) \cup {None}]
        /\ Marks'
    BY <1>1, <1>3, <2>1, MarkWritten DEF DiskInv
  <2>3. free' = [m \in Node |-> free'[m]] /\ libre' = [m \in Node |-> libre'[m]]
    BY <2>1 DEF DiskInv, Types
  <2>4. Counts'
    BY <1>1, <2>1 DEF DiskInv, Types, Counts
  <2>5. /\ nodos'.names \subseteq Node
        /\ nodos' = [names |-> nodos'.names, libre |-> [m \in Node |-> nodos'.libre[m]]]
    <3>1. SaveNodos(nodes, libre')
      BY <2>1
    <3> QED
      BY <2>3, <3>1 DEF DiskInv, Types, SaveNodos, Saved
  <2>6. Types'
    BY <1>2, <2>2, <2>3, <2>5 DEF RmCopy, DiskInv, Types
  <2>7. FilesSaved'
    BY DEF RmCopy, DiskInv, FilesSaved
  <2> QED
    BY <1>1, <2>2, <2>6, <2>7, <2>4 DEF DiskInv, Stopped
<1>4. CASE n \notin nodes
  <2>1. UNCHANGED <<up, memory, disk, pc, job, crashed, last, unsaved>>
    BY <1>4 DEF RmCopy, memory, disk
  <2> QED
    BY <1>2, <2>1, FrameDisk
<1> QED
  BY <1>3, <1>4

\* rm -b keeps it.
LEMMA RmBlockDisk ==
  ASSUME DiskInv, NEW f \in File, NEW c \in {1, 2}, RmBlock(f, c) PROVE DiskInv'
<1> DEFINE n == copies[f][c].node
           x == copies[f][c].block
<1>1. up /\ up' /\ formatted /\ UNCHANGED <<nodes, formatted, libre, nodos, pc, job, draft>>
  BY DEF RmBlock, Command
<1>2. copies[f] \in Places
  BY <1>1 DEF RmBlock, DiskInv, Types
<1>3. n \in Node /\ x \in Index
  BY <1>2 DEF RmBlock, Places, Place
<1>4. /\ bits' = [bits EXCEPT ![n] = bits[n] \ {x}] /\ Sync(n, bits[n] \ {x})
      /\ free' = [free EXCEPT ![n] = free[n] + 1] /\ unsaved' = unsaved \cup {n}
  BY <1>3 DEF RmBlock, DiskInv, Types, Maps
<1>5. copies' = [copies EXCEPT ![f] = [copies[f] EXCEPT ![c] = None]]
  BY DEF RmBlock
<1>6. [copies[f] EXCEPT ![c] = None] \in Places
  BY <1>2 DEF Places, Place
<1>7. meta' = [meta EXCEPT ![f] = copies'[f]]
  BY DEF RmBlock, SaveBlocks
<1>8. pc = "idle"
  BY DEF RmBlock, Command
<1> HIDE DEF n, x
<1>9. /\ bits' \in Maps /\ dat' \in Maps /\ held' \in [Node -> (SUBSET Index) \cup {None}]
      /\ Marks'
  BY <1>1, <1>3, <1>4, MarkWritten DEF DiskInv
<1>10. free' = [m \in Node |-> free'[m]] /\ Counts'
  BY <1>1, <1>3, <1>4 DEF DiskInv, Types, Counts
<1>11. /\ copies' \in [File -> Places \cup {None, Empty}]
       /\ meta' \in [File -> Places \cup {None, Empty}]
       /\ \A g \in File : copies'[g] # Empty
  BY <1>1, <1>5, <1>6, <1>7 DEF DiskInv, Types, Empty, Places
<1>12. Types'
  BY <1>1, <1>8, <1>9, <1>10, <1>11 DEF DiskInv, Types
<1>13. FilesSaved'
  BY <1>1, <1>5, <1>7, <1>8 DEF DiskInv, Types, FilesSaved
<1> QED
  BY <1>1, <1>9, <1>10, <1>12, <1>13 DEF DiskInv, Stopped

\* cpblock keeps it.
LEMMA CpBlockDisk ==
  ASSUME DiskInv, NEW f \in File, NEW n \in Node, CpBlock(f, n) PROVE DiskInv'
<1> DEFINE x == FirstZero(n)
<1>1. /\ up /\ up' /\ n \in nodes /\ bits[n] # Index /\ pc = "idle"
      /\ UNCHANGED <<nodes, formatted, libre, nodos, pc, job, draft>>
  BY DEF CpBlock, Command, Active
<1>2. copies[f] \in Places
  BY <1>1 DEF CpBlock, DiskInv, Types
<1>3. x \in Index
  BY <1>1, FirstZeroIsFree DEF DiskInv, Types, Maps
<1>4. /\ bits' = [bits EXCEPT ![n] = bits[n] \cup {x}] /\ Sync(n, bits[n] \cup {x})
      /\ free' = [free EXCEPT ![n] = free[n] - 1] /\ unsaved' = unsaved \cup {n}
      /\ meta' = [meta EXCEPT ![f] = copies'[f]]
  BY DEF CpBlock, SaveBlocks, DiskInv, Types, Maps
<1>5. PICK c \in {1, 2} : copies' = [copies EXCEPT ![f] = [copies[f] EXCEPT ![c] = At(n, x)]]
  BY DEF CpBlock
<1> HIDE DEF x
<1>6. [copies[f] EXCEPT ![c] = At(n, x)] \in Places
  BY <1>2, <1>3 DEF Places, Place, At
<1>7. /\ bits' \in Maps /\ dat' \in Maps /\ held' \in [Node -> (SUBSET Index) \cup {None}]
      /\ Marks'
  BY <1>1, <1>3, <1>4, MarkWritten DEF DiskInv
<1>8. free' = [m \in Node |-> free'[m]] /\ Counts'
  BY <1>1, <1>4 DEF DiskInv, Types, Counts
<1>9. /\ copies' \in [File -> Places \cup {None, Empty}]
      /\ meta' \in [File -> Places \cup {None, Empty}]
      /\ \A g \in File : copies'[g] # Empty
  BY <1>1, <1>4, <1>5, <1>6 DEF DiskInv, Types, Empty, Places
<1>10. Types'
  BY <1>1, <1>7, <1>8, <1>9 DEF DiskInv, Types
<1>11. FilesSaved'
  BY <1>1, <1>4, <1>5 DEF DiskInv, Types, FilesSaved
<1> QED
  BY <1>1, <1>7, <1>8, <1>10, <1>11 DEF DiskInv, Stopped

\* Leaving the program keeps it.
LEMMA QuitDisk == ASSUME DiskInv, Quit PROVE DiskInv'
<1> USE DEF Quit, memory
<1>1. Types'
  BY DEF DiskInv, Types, Maps, Closed, SaveNodos, Saved
<1>2. ASSUME formatted PROVE QuitLeft'
  BY <1>2 DEF DiskInv, Types, Marks, Counts, FilesSaved, QuitLeft, Ended, SaveNodos, Saved
<1>3. Stopped'
  BY <1>2 DEF Stopped, Ended
<1> QED
  BY <1>1, <1>3 DEF DiskInv, Marks, Counts, FilesSaved

\* A death at any point keeps it.
LEMMA DieDisk == ASSUME DiskInv, Die PROVE DiskInv'
<1> USE DEF Die, memory
<1>1. Types'
  BY DEF DiskInv, Types, Maps, NoCopies, Places, Place
<1>2. \A f \in File : meta[f] \in {copies[f], None, Empty}
  <2>1. CASE pc \in {"idle", "mirror", "add"}
    BY <2>1 DEF DiskInv, FilesSaved
  <2>2. CASE pc \in {"save", "rm"}
    BY <2>2 DEF DiskInv, FilesSaved
  <2> QED
    BY <2>1, <2>2 DEF DiskInv, Types
<1>3. DeathLeft'
  BY <1>2 DEF DiskInv, Marks, DeathLeft, Ended
<1>4. Stopped'
  BY <1>3 DEF Stopped, Ended
<1> QED
  BY <1>1, <1>4 DEF DiskInv, Marks, Counts, FilesSaved
-----------------------------------------------------------------------------
\* What is on disk is what the next start needs, in every behaviour.
THEOREM DiskInvariant == Spec => []DiskInv
<1>1. Init => DiskInv
  BY InitDisk
<1>2. DiskInv /\ [Next]_vars => DiskInv'
  <2> SUFFICES ASSUME DiskInv, [Next]_vars PROVE DiskInv'
    OBVIOUS
  <2>1. CASE Start
    BY <2>1, StartDisk
  <2>2. CASE StartClean
    BY <2>2, StartCleanDisk
  <2>3. CASE CmdFormat
    BY <2>3, FormatDisk
  <2>4. CASE Add
    BY <2>4, AddDisk
  <2>5. CASE Save
    BY <2>5, SaveDisk
  <2>6. CASE RmEnd
    BY <2>6, RmEndDisk
  <2>7. CASE Quit
    BY <2>7, QuitDisk
  <2>8. CASE Die
    BY <2>8, DieDisk
  <2>9. ASSUME NEW n \in Node, ConnectOld(n) \/ Disconnect(n) PROVE DiskInv'
    BY <2>9, FrameDisk DEF ConnectOld, Disconnect, DiskInv, Types
  <2>10. ASSUME NEW n \in Node, ConnectNew(n) PROVE DiskInv'
    BY <2>10, ConnectNewDisk
  <2>11. ASSUME NEW n \in Node, ConnectRefused(n) PROVE DiskInv'
    BY <2>11, ConnectRefusedDisk
  <2>12. ASSUME NEW n \in Node, StoreMirror(n) PROVE DiskInv'
    BY <2>12, StoreMirrorDisk
  <2>13. ASSUME NEW f \in File, Rm(f) PROVE DiskInv'
    BY <2>13, RmDisk
  <2>14. ASSUME NEW f \in File, NEW n \in Node, Store(f, n) PROVE DiskInv'
    BY <2>14, StoreDisk
  <2>15. ASSUME NEW f \in File, NEW n \in Node, CpBlock(f, n) PROVE DiskInv'
    BY <2>15, CpBlockDisk
  <2>16. ASSUME NEW c \in {1, 2}, RmCopy(c) PROVE DiskInv'
    BY <2>16, RmCopyDisk
  <2>17. ASSUME NEW f \in File, NEW c \in {1, 2}, RmBlock(f, c) PROVE DiskInv'
    BY <2>17, RmBlockDisk
  <2>18. CASE UNCHANGED vars
    <3>1. draft' \in Places
      BY <2>18 DEF vars, DiskInv, Types
    <3>2. UNCHANGED <<up, memory, disk, pc, job, crashed, last, unsaved>>
      BY <2>18 DEF vars
    <3>. QED BY <3>1, <3>2, FrameDisk
  <2> QED
    BY <2>1, <2>2, <2>3, <2>4, <2>5, <2>6, <2>7, <2>8, <2>9, <2>10, <2>11, <2>12, <2>13, <2>14,
       <2>15, <2>16, <2>17, <2>18, Zenon DEF Next
<1> QED
  BY <1>1, <1>2, PTL DEF Spec

\* A start that follows the end of the process is Start, or Start with --clean.
LEMMA StartsByStart ==
  ASSUME [Next]_vars, ~up, up' PROVE Start \/ StartClean
  BY DEF Next, vars, Start, StartClean, Load, Command, CmdFormat, Add, Save, RmEnd, Quit, Die,
         ConnectOld, ConnectNew, ConnectRefused, Disconnect, StoreMirror, Rm, Store, CpBlock,
         RmCopy, RmBlock

\* QuitKeepsState: a FileSystem that was quit starts as it was.
THEOREM QuitStateKept == Spec => QuitKeepsState
<1>1. DiskInv /\ [Next]_vars => Kept
  <2> SUFFICES ASSUME DiskInv, [Next]_vars, StartsAfter("quit")
               PROVE  /\ nodes' = last.nodes /\ bits' = last.bits /\ copies' = last.copies
                      /\ \A n \in last.nodes \ unsaved : free'[n] = last.free[n]
    BY DEF Kept
  <2>1. Start
    BY StartsByStart DEF StartsAfter, StartClean
  <2>2. ~up /\ ~crashed /\ last' = last /\ last.how = "quit" /\ last.formatted
    BY <2>1 DEF StartsAfter, Start
  <2>3. QuitLeft /\ Types
    BY <2>2 DEF DiskInv, Stopped
  <2>4. /\ nodes' = nodos.names /\ copies' = meta
        /\ bits' = [n \in Node |-> IF n \in nodos.names THEN dat[n] ELSE {}]
        /\ free' = [n \in Node |-> IF n \in nodos.names THEN nodos.libre[n] ELSE 0]
    BY <2>1 DEF Start, Load
  <2>5. bits' = last.bits
    BY <2>3, <2>4 DEF QuitLeft, Types, Maps
  <2> QED
    BY <2>3, <2>4, <2>5 DEF QuitLeft, Types
<1> QED
  BY <1>1, DiskInvariant, PTL DEF Spec, QuitKeepsState

\* A set whose elements are all equal has one at most.
LEMMA OneAtMost ==
  ASSUME NEW S, \A a, b \in S : a = b PROVE Cardinality(S) <= 1
<1>1. CASE S = {}
  BY <1>1, FS_EmptySet
<1>2. CASE S # {}
  <2>1. PICK a \in S : S = {a}
    BY <1>2
  <2> QED
    BY <2>1, FS_Singleton
<1> QED
  BY <1>1, <1>2

\* DeathLosesOneMark: a death loses at most the last mark of a node, and of the
\* files only the one being removed.
THEOREM DeathLosesAtMostOne == Spec => DeathLosesOneMark
<1>1. DiskInv /\ [Next]_vars => AlmostKept
  <2> SUFFICES ASSUME DiskInv, [Next]_vars, StartsAfter("died")
               PROVE  /\ \A f \in File : copies'[f] \in {last.copies[f], None}
                      /\ \A n \in nodes' : Cardinality(last.bits[n] \ bits'[n]) <= 1
    BY DEF AlmostKept
  <2>1. Start
    BY StartsByStart DEF StartsAfter, StartClean
  <2>2. ~up /\ ~crashed /\ last' = last /\ last.how = "died"
    BY <2>1 DEF StartsAfter, Start
  <2>3. DeathLeft /\ Types
    BY <2>2 DEF DiskInv, Stopped
  <2>4. \A f \in File : copies'[f] \in {last.copies[f], None}
    BY <2>1, <2>3 DEF Start, Load, DeathLeft
  <2>5. ASSUME NEW n \in nodes' PROVE Cardinality(last.bits[n] \ bits'[n]) <= 1
    <3>1. n \in Node /\ bits'[n] = dat[n]
      BY <2>1, <2>3 DEF Start, Load, Types
    <3> QED
      BY <2>3, <3>1, OneAtMost DEF DeathLeft
  <2> QED
    BY <2>4, <2>5
<1> QED
  BY <1>1, DiskInvariant, PTL DEF Spec, DeathLosesOneMark
-----------------------------------------------------------------------------
(* Directories: what lookups in the table find.                            *)

Table == [Paths!Slot -> [name : Name \cup {Root, NoName}, parent : -2 .. MaxSize - 1]]

\* Every directory but the root has a name, and a directory for parent.
Rooted(t) ==
  /\ t \in Table /\ t[0].parent = -1
  /\ \A i \in Paths!Dirs(t) \ {0} : t[i].parent \in Paths!Dirs(t) /\ t[i].name \in Name

\* No two directories have one parent and one name.
Apart(t) ==
  \A i, j \in Paths!Dirs(t) : t[i].parent = t[j].parent /\ t[i].name = t[j].name => i = j

\* Every directory is further down than its parent.
Ranked(t) ==
  \E rank \in [Paths!Slot -> Nat] :
    \A i \in Paths!Dirs(t) \ {0} : rank[t[i].parent] < rank[i]

\* c has the directories that the first k names of a path lead through.
Leads(t, path, k, c) ==
  /\ c \in [0 .. k -> Paths!Dirs(t)] /\ c[0] = 0
  /\ \A j \in 1 .. k : t[c[j]].parent = c[j - 1] /\ t[c[j]].name = path[j]

\* The entries of a table are some.
LEMMA SlotIs == Paths!Slot = 0 .. MaxSize - 1 /\ MaxSize \in Nat /\ 0 \in Paths!Slot
  BY PathsAssumption DEF Paths!DirTreeAssumption, Paths!Slot

\* The directories of a table.
LEMMA DirsAre ==
  ASSUME NEW t \in Table, NEW i
  PROVE  /\ i \in Paths!Dirs(t) <=> i \in Paths!Slot /\ t[i].parent # -2
         /\ i \in Paths!Holes(t) <=> i \in Paths!Slot /\ t[i].parent = -2
<1>1. \A j \in Paths!Slot : t[j].parent \in -2 .. MaxSize - 1
  BY DEF Table
<1>. QED BY <1>1, SlotIs DEF Paths!Dirs, Paths!Holes, Paths!Exists

\* The root is a directory, and no other entry has its parent.
LEMMA RootIs ==
  ASSUME NEW t, Rooted(t)
  PROVE  /\ 0 \in Paths!Dirs(t) /\ Paths!Dirs(t) \subseteq Paths!Slot
         /\ \A i \in Paths!Dirs(t) \ {0} : t[i].parent \in Nat
<1>1. t \in Table
  BY DEF Rooted
<1>2. \A i \in Paths!Slot : i \in Nat
  BY SlotIs
<1>. QED BY <1>1, <1>2, SlotIs, DirsAre DEF Rooted

\* The least of some entries is one of them.
LEMMA MinIs ==
  ASSUME NEW S, S \subseteq Nat, S # {}
  PROVE  Paths!Min(S) \in S
<1>1. PICK k \in S : \A j \in S : ~ (j < k)
  <2>1. IsWellFoundedOn(OpToRel(<, Nat), Nat)
    BY NatLessThanWellFounded
  <2>2. PICK k \in S : \A j \in S : ~ (<<j, k>> \in OpToRel(<, Nat))
    BY <2>1, WFMin
  <2>. QED BY <2>2, Zenon DEF OpToRel
<1>2. \E x \in S : \A y \in S : x =< y
  BY <1>1
<1>. QED BY <1>2, Zenon DEF Paths!Min

\* find_dir_by_name finds a directory with the name and the parent, if there is
\* one.
LEMMA ByNameIs ==
  ASSUME NEW t \in Table, NEW n, NEW p
  PROVE  LET d == Paths!ByName(t, n, p)
         IN  \/ d = -1 /\ \A i \in Paths!Dirs(t) : ~ (t[i].name = n /\ t[i].parent = p)
             \/ d \in Paths!Dirs(t) /\ t[d].name = n /\ t[d].parent = p
<1>. DEFINE found == {i \in Paths!Dirs(t) : t[i].name = n /\ t[i].parent = p}
<1>1. Paths!ByName(t, n, p) = IF found = {} THEN -1 ELSE Paths!Min(found)
  BY DEF Paths!ByName, Paths!NoDir
<1>2. found \subseteq Nat
  BY SlotIs, DirsAre
<1>3. found # {} => Paths!Min(found) \in found
  BY <1>2, MinIs
<1>. QED BY <1>1, <1>3

\* dirtree_find: what it has after each name of the path.
Looks(t, path, at) ==
  at = [k \in 0 .. Len(path) |->
          IF k = 0 THEN 0
          ELSE IF at[k - 1] = -1 THEN -1 ELSE Paths!ByName(t, path[k], at[k - 1])]

\* dirtree_find looks the names of the path up one after the other, and stops at
\* the first one that is not there.
LEMMA FindLooks ==
  ASSUME NEW t \in Table, NEW path \in Seq(Name)
  PROVE  \E at : Looks(t, path, at) /\ Paths!Find(t, path) = at[Len(path)]
<1>. DEFINE n == Len(path)
            V == -1 .. MaxSize - 1
            F == [x \in V \X (1 .. n) |->
                    IF x[1] = -1 THEN -1 ELSE Paths!ByName(t, path[x[2]], x[1])]
            at0 == CHOOSE at : Looks(t, path, at)
<1>1. n \in Nat /\ 0 \in V
  BY SlotIs
<1>2. F \in [V \X (1 .. n) -> V]
  <2>1. \A m, p : Paths!ByName(t, m, p) \in V
    BY SlotIs, ByNameIs, DirsAre
  <2>2. -1 \in V
    BY SlotIs
  <2>. QED BY <2>1, <2>2
<1>3. PICK h : Loops(h, F, 0, V, n)
  <2>1. \E h : Loops(h, F, 0, V, n)
    <3>. HIDE DEF V, F, n
    <3>. QED BY <1>1, <1>2, LoopExists
  <2>. QED BY <2>1
<1>4. ASSUME NEW k \in 1 .. n
      PROVE  h[k] = IF h[k - 1] = -1 THEN -1 ELSE Paths!ByName(t, path[k], h[k - 1])
  <2>1. k - 1 \in 0 .. n
    BY <1>1
  <2>2. h[k] = F[<<h[k - 1], k>>] /\ h[k - 1] \in V
    <3>. HIDE DEF F, V
    <3>. QED BY <1>3, <2>1 DEF Loops
  <2>. QED BY <2>2
<1>5. Looks(t, path, h)
  <2>1. \A k \in 0 .. n : k # 0 => k \in 1 .. n
    BY <1>1
  <2>2. h = [k \in 0 .. n |-> h[k]] /\ h[0] = 0
    BY <1>3 DEF Loops
  <2>. QED BY <1>4, <2>1, <2>2 DEF Looks
<1>6. Looks(t, path, at0)
  BY <1>5
<1>7. Paths!Find(t, path) = at0[Len(path)]
  BY DEF Paths!Find, Looks, Paths!NoDir
<1>. QED BY <1>6, <1>7

\* Two such sequences are one as far as their paths are.
LEMMA LooksAgree ==
  ASSUME NEW t, NEW p, NEW q, NEW f, NEW g, Looks(t, p, f), Looks(t, q, g),
         NEW n \in Nat, n <= Len(p), n <= Len(q), Len(p) \in Nat, Len(q) \in Nat,
         \A k \in 1 .. n : p[k] = q[k]
  PROVE  f[n] = g[n]
<1>. DEFINE S == {k \in 0 .. n : f[k] = g[k]}
<1>1. 0 \in S
  BY DEF Looks
<1>2. ASSUME NEW k \in 0 .. n - 1, k \in S
      PROVE  k + 1 \in S
  <2>1. k + 1 \in 0 .. Len(p) /\ k + 1 \in 0 .. Len(q) /\ k + 1 # 0 /\ k + 1 \in 1 .. n
        /\ (k + 1) - 1 = k
    BY <1>2
  <2>2. f[k + 1] = IF f[k] = -1 THEN -1 ELSE Paths!ByName(t, p[k + 1], f[k])
    BY <2>1 DEF Looks
  <2>3. g[k + 1] = IF g[k] = -1 THEN -1 ELSE Paths!ByName(t, q[k + 1], g[k])
    BY <2>1 DEF Looks
  <2>. QED BY <1>2, <2>1, <2>2, <2>3
<1>3. 0 .. n \subseteq S
  <2>. HIDE DEF S
  <2>. QED BY <1>1, <1>2, CountUp
<1>. QED BY <1>3

\* The root is found without a name, and a directory with one more name from its
\* parent.
LEMMA FindSteps ==
  ASSUME NEW t \in Table, NEW path \in Seq(Name)
  PROVE  /\ path = <<>> => Paths!Find(t, path) = 0
         /\ path # <<>> =>
              LET p == Paths!Find(t, Paths!Front(path))
              IN  Paths!Find(t, path) = IF p = -1 THEN -1 ELSE Paths!ByName(t, Paths!Last(path), p)
<1>1. PICK f : Looks(t, path, f) /\ Paths!Find(t, path) = f[Len(path)]
  BY FindLooks
<1>2. path = <<>> => Paths!Find(t, path) = 0
  BY <1>1 DEF Looks
<1>3. ASSUME path # <<>>
      PROVE  LET p == Paths!Find(t, Paths!Front(path))
             IN  Paths!Find(t, path) = IF p = -1 THEN -1 ELSE Paths!ByName(t, Paths!Last(path), p)
  <2>. DEFINE n == Len(path)
              q == Paths!Front(path)
  <2>1. /\ n \in Nat \ {0} /\ q \in Seq(Name) /\ Len(q) = n - 1
        /\ \A k \in 1 .. n - 1 : q[k] = path[k]
    <3>1. n \in Nat \ {0} /\ path \in [1 .. n -> Name]
      BY <1>3
    <3>2. q = [k \in 1 .. n - 1 |-> path[k]]
      BY <3>1 DEF Paths!Front
    <3>3. q \in [1 .. n - 1 -> Name]
      BY <3>1, <3>2
    <3>. HIDE DEF q, n
    <3>4. q \in Seq(Name) /\ Len(q) = n - 1
      BY <3>1, <3>3
    <3>. QED BY <3>1, <3>2, <3>4
  <2>. HIDE DEF q, n
  <2>2. PICK g : Looks(t, q, g) /\ Paths!Find(t, q) = g[Len(q)]
    BY <2>1, FindLooks
  <2>3. f[n - 1] = g[n - 1]
    BY <1>1, <2>1, <2>2, LooksAgree DEF n
  <2>4. f[n] = IF f[n - 1] = -1 THEN -1 ELSE Paths!ByName(t, path[n], f[n - 1])
    BY <1>1, <2>1 DEF Looks, n
  <2>. QED BY <1>1, <2>1, <2>2, <2>3, <2>4 DEF q, n, Paths!Last
<1>. QED BY <1>2, <1>3

\* What is found is a directory the path leads to.
LEMMA FindLeads ==
  ASSUME NEW t, Rooted(t), NEW path \in Seq(Name), Paths!Find(t, path) # -1
  PROVE  \E c : Leads(t, path, Len(path), c) /\ Paths!Find(t, path) = c[Len(path)]
<1>. DEFINE n == Len(path)
<1>1. t \in Table /\ n \in Nat
  BY DEF Rooted
<1>2. PICK at : Looks(t, path, at) /\ Paths!Find(t, path) = at[n]
  BY <1>1, FindLooks
<1>. HIDE DEF n
<1>3. ASSUME NEW k \in 1 .. n
      PROVE  /\ at[k - 1] = -1 => at[k] = -1
             /\ at[k] # -1 => at[k] \in Paths!Dirs(t) /\ t[at[k]].name = path[k]
                              /\ t[at[k]].parent = at[k - 1]
  <2>1. at[k] = IF at[k - 1] = -1 THEN -1 ELSE Paths!ByName(t, path[k], at[k - 1])
    BY <1>1, <1>2 DEF Looks, n
  <2>. QED BY <1>1, <2>1, ByNameIs
<1>. DEFINE S == {k \in 0 .. n : at[n - k] # -1}
<1>4. 0 .. n \subseteq S
  <2>1. 0 \in S
    BY <1>1, <1>2 DEF n
  <2>2. ASSUME NEW k \in 0 .. n - 1, k \in S
        PROVE  k + 1 \in S
    <3>1. n - k \in 1 .. n /\ n - (k + 1) = (n - k) - 1 /\ k + 1 \in 0 .. n
      BY <1>1
    <3>. QED BY <1>3, <2>2, <3>1
  <2>. HIDE DEF S
  <2>. QED BY <1>1, <2>1, <2>2, CountUp
<1>5. \A k \in 0 .. n : at[k] # -1
  <2>1. \A k \in 0 .. n : n - k \in 0 .. n /\ n - (n - k) = k
    BY <1>1
  <2>. QED BY <1>4, <2>1
<1>6. at[0] = 0 /\ at = [k \in 0 .. n |-> at[k]]
  BY <1>1, <1>2 DEF Looks, n
<1>7. \A k \in 0 .. n : at[k] \in Paths!Dirs(t)
  <2>1. \A k \in 0 .. n : k = 0 \/ k \in 1 .. n
    BY <1>1
  <2>. QED BY <1>3, <1>5, <1>6, <2>1, RootIs
<1>8. at \in [0 .. n -> Paths!Dirs(t)]
  BY <1>6, <1>7
<1>9. \A k \in 1 .. n : k \in 0 .. n
  BY <1>1
<1>10. Leads(t, path, n, at)
  BY <1>3, <1>5, <1>6, <1>8, <1>9 DEF Leads
<1>. QED BY <1>2, <1>10 DEF n

\* Where a path leads is what is found, when siblings are apart.
LEMMA LeadsFound ==
  ASSUME NEW t, Rooted(t), Apart(t), NEW path \in Seq(Name), NEW c, Leads(t, path, Len(path), c)
  PROVE  Paths!Find(t, path) = c[Len(path)]
<1>. DEFINE n == Len(path)
<1>1. t \in Table /\ n \in Nat
  BY DEF Rooted
<1>2. PICK at : Looks(t, path, at) /\ Paths!Find(t, path) = at[n]
  BY <1>1, FindLooks
<1>. HIDE DEF n
<1>. DEFINE S == {k \in 0 .. n : at[k] = c[k]}
<1>3. 0 \in S
  BY <1>1, <1>2 DEF Looks, Leads, n
<1>4. ASSUME NEW k \in 0 .. n - 1, k \in S
      PROVE  k + 1 \in S
  <2>1. k + 1 \in 1 .. n /\ k + 1 \in 0 .. n /\ (k + 1) - 1 = k /\ k \in 0 .. n /\ k + 1 # 0
    BY <1>1
  <2>2. c[k] \in Paths!Dirs(t) /\ c[k + 1] \in Paths!Dirs(t)
    BY <2>1 DEF Leads, n
  <2>3. t[c[k + 1]].parent = c[k] /\ t[c[k + 1]].name = path[k + 1]
    BY <2>1 DEF Leads, n
  <2>4. c[k] # -1
    BY <1>1, <2>2, DirsAre, SlotIs
  <2>5. at[k + 1] = Paths!ByName(t, path[k + 1], c[k])
    BY <1>2, <1>4, <2>1, <2>4 DEF Looks, n
  <2>6. at[k + 1] = c[k + 1]
    BY <1>1, <2>2, <2>3, <2>5, ByNameIs DEF Apart
  <2>. QED BY <2>1, <2>6
<1>5. 0 .. n \subseteq S
  <2>. HIDE DEF S
  <2>. QED BY <1>1, <1>3, <1>4, CountUp
<1>. QED BY <1>1, <1>2, <1>5 DEF n
-----------------------------------------------------------------------------
(* Directories: what dirtree_add makes of the table.                       *)

\* What adding the directories of a path has, before each name and at the end.
AddStates == [table : Table, dir : -1 .. MaxSize - 1, made : SUBSET Paths!Slot, ok : BOOLEAN]
AddStart(t) == [table |-> t, dir |-> 0, made |-> {}, ok |-> TRUE]
AddSteps(h, t, path) ==
  /\ h \in [0 .. Len(path) -> AddStates] /\ h[0] = AddStart(t)
  /\ \A k \in 1 .. Len(path) : h[k] = Paths!AddDirectory(h[k - 1], path[k])

\* The entry that is taken for a directory was free.
LEMMA HoleIs ==
  ASSUME NEW t \in Table, Paths!Holes(t) # {}
  PROVE  Paths!Min(Paths!Holes(t)) \in Paths!Holes(t) /\ Paths!Holes(t) \subseteq Paths!Slot
<1>1. Paths!Holes(t) \subseteq Paths!Slot
  BY DirsAre
<1>2. Paths!Slot \subseteq Nat
  BY SlotIs
<1>. QED BY <1>1, <1>2, MinIs

\* add_directory, in its cases.
LEMMA AddDirectoryIs ==
  ASSUME NEW s \in AddStates, NEW n \in Name
  PROVE  LET new == Paths!AddDirectory(s, n)
             d == Paths!ByName(s.table, n, s.dir)
         IN  /\ ~s.ok => new = s
             /\ s.ok /\ d # -1 => new = [s EXCEPT !.dir = d] /\ d \in Paths!Dirs(s.table)
             /\ s.ok /\ d = -1 => 
                  \/ new = [s EXCEPT !.ok = FALSE]
                  \/ \E i \in Paths!Holes(s.table) :
                       new = [table |-> [s.table EXCEPT ![i] = [name |-> n, parent |-> s.dir]],
                              dir |-> i, made |-> s.made \cup {i}, ok |-> TRUE]
             /\ new \in AddStates
<1>. DEFINE new == Paths!AddDirectory(s, n)
            d == Paths!ByName(s.table, n, s.dir)
            i0 == Paths!Min(Paths!Holes(s.table))
            added(i) == [table |-> [s.table EXCEPT ![i] = [name |-> n, parent |-> s.dir]],
                         dir |-> i, made |-> s.made \cup {i}, ok |-> TRUE]
<1>1. s.table \in Table /\ s.dir \in -1 .. MaxSize - 1 /\ s.made \subseteq Paths!Slot /\ s.ok \in BOOLEAN
  BY DEF AddStates
<1>2. new = IF ~s.ok THEN s
            ELSE IF d # -1 THEN [s EXCEPT !.dir = d]
            ELSE IF Paths!Holes(s.table) = {} THEN [s EXCEPT !.ok = FALSE]
            ELSE added(i0)
  BY Zenon DEF Paths!AddDirectory, Paths!NoDir
<1>3. d # -1 => d \in Paths!Dirs(s.table)
  BY <1>1, ByNameIs
<1>4. Paths!Holes(s.table) # {} => i0 \in Paths!Holes(s.table)
  BY <1>1, HoleIs
<1>. HIDE DEF new, i0, d
<1>5. ASSUME NEW i \in Paths!Holes(s.table)
      PROVE  added(i) \in AddStates
  <2>1. i \in Paths!Slot /\ i \in -1 .. MaxSize - 1
    BY <1>1, DirsAre, SlotIs
  <2>2. [name |-> n, parent |-> s.dir] \in [name : Name \cup {Root, NoName}, parent : -2 .. MaxSize - 1]
    BY <1>1, SlotIs
  <2>3. [s.table EXCEPT ![i] = [name |-> n, parent |-> s.dir]] \in Table
    BY <1>1, <2>1, <2>2, Zenon DEF Table
  <2>. HIDE DEF Table
  <2>. QED BY <1>1, <2>1, <2>3 DEF AddStates
<1>6. d # -1 => [s EXCEPT !.dir = d] \in AddStates
  <2>1. d # -1 => d \in -1 .. MaxSize - 1
    BY <1>1, <1>3, DirsAre, SlotIs
  <2>. QED BY <2>1 DEF AddStates
<1>7. [s EXCEPT !.ok = FALSE] \in AddStates
  BY DEF AddStates
<1>. HIDE DEF added
<1>8. new \in AddStates
  BY <1>2, <1>4, <1>5, <1>6, <1>7
<1>. QED BY <1>2, <1>3, <1>4, <1>8 DEF new, d, added

\* dirtree_add goes from one name of the path to the next.
LEMMA AddGoes ==
  ASSUME NEW t \in Table, NEW path \in Seq(Name)
  PROVE  \E h : /\ AddSteps(h, t, path)
                /\ ~Paths!Refused(t) => Paths!Add(t, path) = h[Len(path)]
<1>. DEFINE n == Len(path)
            V == AddStates
            base == AddStart(t)
            F == [x \in V \X (1 .. n) |-> Paths!AddDirectory(x[1], path[x[2]])]
            Iter(it) == it = [u \in SUBSET (1 .. n) |->
                              IF u = {} THEN base ELSE Paths!AddDirectory(it[u \ {Max(u)}], path[Max(u)])]
            it0 == CHOOSE it : Iter(it)
<1>1. n \in Nat /\ path \in [1 .. n -> Name] /\ DOMAIN path = 1 .. n
  OBVIOUS
<1>b. base \in V
  BY SlotIs DEF AddStart, AddStates
<1>2. F \in [V \X (1 .. n) -> V]
  <2>1. ASSUME NEW x \in V \X (1 .. n) PROVE Paths!AddDirectory(x[1], path[x[2]]) \in V
    <3>1. x[1] \in V /\ path[x[2]] \in Name
      BY <1>1
    <3>. QED BY <3>1, AddDirectoryIs
  <2>. QED BY <2>1
<1>3. PICK g : Runs(g, F, base, 1 .. n)
  BY <1>1, RunExists
<1>4. g \in [SUBSET (1 .. n) -> V]
  <2>. HIDE DEF V, F, base, n
  <2>. QED BY <1>1, <1>b, <1>2, <1>3, RunType
<1>m. \A u \in SUBSET (1 .. n) : u # {} => Max(u) \in 1 .. n
  BY <1>1, MaxIsIn
<1>5. Iter(g)
  <2>1. ASSUME NEW u \in SUBSET (1 .. n), u # {}
        PROVE  F[<<g[u \ {Max(u)}], Max(u)>>] = Paths!AddDirectory(g[u \ {Max(u)}], path[Max(u)])
    BY <1>4, <1>m, <2>1
  <2>. HIDE DEF F, base
  <2>. QED BY <1>3, <2>1 DEF Runs
<1>6. Iter(it0)
  BY <1>5
<1>x. \A u : Paths!Max(u) = Max(u)
  BY DEF Paths!Max, Max
<1>7. ~Paths!Refused(t) => Paths!Add(t, path) = it0[1 .. n]
  BY <1>1, <1>x DEF Paths!Add, AddStart, Paths!FoldLeft, Paths!MapThenFoldSet
<1>. HIDE DEF it0
<1>8. Runs(it0, F, base, 1 .. n)
  <2>1. ASSUME NEW u \in SUBSET (1 .. n), u # {}, it0[u \ {Max(u)}] \in V
        PROVE  it0[u] = F[<<it0[u \ {Max(u)}], Max(u)>>]
    BY <1>6, <1>m, <2>1
  <2>2. it0[{}] = base /\ it0 = [u \in SUBSET (1 .. n) |-> it0[u]]
    BY <1>6
  <2>. HIDE DEF F, Iter, n, base, V
  <2>. QED BY <1>1, <1>b, <1>2, <2>1, <2>2, RunsLike
<1>9. PICK h : Along(h, F, base, V, n, it0[1 .. n])
  <2>. HIDE DEF F, n, base, V
  <2>. QED BY <1>1, <1>b, <1>2, <1>8, RunsAlong
<1>10. ASSUME NEW k \in 1 .. n
       PROVE  h[k] = Paths!AddDirectory(h[k - 1], path[k])
  <2>1. h[k] = F[<<h[k - 1], k>>]
    <3>. HIDE DEF F, base, V
    <3>. QED BY <1>9 DEF Along
  <2>2. h[k - 1] \in V
    <3>1. k - 1 \in 0 .. n
      BY <1>1
    <3>. QED BY <1>9, <3>1 DEF Along
  <2>. QED BY <2>1, <2>2
<1>11. h \in [0 .. n -> V] /\ h[0] = base /\ h[n] = it0[1 .. n]
  <2>. HIDE DEF F, base, V
  <2>. QED BY <1>9 DEF Along
<1>. QED BY <1>7, <1>10, <1>11 DEF AddSteps

\* What dirtree_add has made of a table t after k names of the path: it leads to
\* the directory they name, and if that is a new one it has no children.
Grown(s, t) ==
  /\ s \in AddStates /\ Rooted(s.table)
  /\ (Apart(t) => Apart(s.table)) /\ (Ranked(t) => Ranked(s.table))
  /\ s.dir \in Paths!Dirs(s.table)
  /\ Paths!Dirs(s.table) = Paths!Dirs(t) \cup s.made
  /\ \A i \in Paths!Dirs(t) : s.table[i] = t[i]
  /\ s.dir \in Paths!Dirs(t) => s.table = t
  /\ s.dir \notin Paths!Dirs(t) => \A i \in Paths!Dirs(s.table) : s.table[i].parent # s.dir
Led(s, path, k) == s.ok => \E c : Leads(s.table, path, k, c) /\ c[k] = s.dir

\* A directory found under the last one leads one name further.
LEMMA LedFurther ==
  ASSUME NEW t, Rooted(t), NEW u, Rooted(u), NEW path, NEW k \in Nat, NEW c, Leads(t, path, k, c),
         \A i \in Paths!Dirs(t) : i \in Paths!Dirs(u) /\ u[i] = t[i],
         NEW d \in Paths!Dirs(u), u[d].parent = c[k], u[d].name = path[k + 1]
  PROVE  \E b : Leads(u, path, k + 1, b) /\ b[k + 1] = d
<1>. DEFINE b == [j \in 0 .. k + 1 |-> IF j = k + 1 THEN d ELSE c[j]]
<1>1. \A j \in 0 .. k + 1 : j # k + 1 => j \in 0 .. k
  OBVIOUS
<1>2. c \in [0 .. k -> Paths!Dirs(t)] /\ c[0] = 0
  BY DEF Leads
<1>3. b \in [0 .. k + 1 -> Paths!Dirs(u)] /\ b[0] = 0
  <2>1. 0 \in 0 .. k + 1 /\ 0 # k + 1
    OBVIOUS
  <2>2. \A j \in 0 .. k + 1 : b[j] \in Paths!Dirs(u)
    BY <1>1, <1>2
  <2>. QED BY <1>2, <2>1, <2>2
<1>4. ASSUME NEW j \in 1 .. k + 1
      PROVE  u[b[j]].parent = b[j - 1] /\ u[b[j]].name = path[j]
  <2>1. j - 1 \in 0 .. k + 1 /\ j - 1 # k + 1 /\ j \in 0 .. k + 1 /\ j - 1 \in 0 .. k
    OBVIOUS
  <2>2. b[j - 1] = c[j - 1]
    BY <2>1
  <2>3. CASE j = k + 1
    BY <2>1, <2>2, <2>3
  <2>4. CASE j # k + 1
    <3>1. j \in 1 .. k /\ j \in 0 .. k
      BY <2>4
    <3>2. b[j] = c[j] /\ c[j] \in Paths!Dirs(t)
      BY <1>2, <2>1, <2>4, <3>1
    <3>3. t[c[j]].parent = c[j - 1] /\ t[c[j]].name = path[j]
      BY <3>1 DEF Leads
    <3>. QED BY <2>2, <3>2, <3>3
  <2>. QED BY <2>3, <2>4
<1>5. b[k + 1] = d
  OBVIOUS
<1>. HIDE DEF b
<1>. QED BY <1>3, <1>4, <1>5 DEF Leads

\* A new directory, in a free entry.
LEMMA GrownMore ==
  ASSUME NEW t, Rooted(t), NEW s, Grown(s, t), NEW n \in Name, NEW i \in Paths!Holes(s.table),
         \A j \in Paths!Dirs(s.table) : ~ (s.table[j].name = n /\ s.table[j].parent = s.dir),
         NEW new \in AddStates,
         new = [table |-> [s.table EXCEPT ![i] = [name |-> n, parent |-> s.dir]],
                dir |-> i, made |-> s.made \cup {i}, ok |-> TRUE]
  PROVE  Grown(new, t)
<1>. DEFINE old == s.table
            u == new.table
<1>1. /\ old \in Table /\ u \in Table /\ new.dir = i /\ new.made = s.made \cup {i}
      /\ i \in Paths!Slot /\ i \notin Paths!Dirs(old) /\ s.dir \in Paths!Dirs(old)
      /\ Paths!Dirs(old) \subseteq Paths!Slot
      /\ u = [old EXCEPT ![i] = [name |-> n, parent |-> s.dir]]
  BY DirsAre, RootIs, SlotIs DEF Grown, AddStates, Paths!Holes, Paths!Dirs
<1>. HIDE DEF u
<1>2. u[i].name = n /\ u[i].parent = s.dir
  BY <1>1 DEF Table
<1>3. \A j \in Paths!Slot \ {i} : u[j] = old[j]
  BY <1>1 DEF Table
<1>4. Paths!Dirs(u) = Paths!Dirs(old) \cup {i}
  <2>1. s.dir # -2
    BY <1>1, SlotIs
  <2>2. \A j : j \in Paths!Dirs(u) <=> j \in Paths!Slot /\ u[j].parent # -2
    BY <1>1, DirsAre
  <2>3. \A j : j \in Paths!Dirs(old) <=> j \in Paths!Slot /\ old[j].parent # -2
    BY <1>1, DirsAre
  <2>. QED BY <1>1, <1>2, <1>3, <2>1, <2>2, <2>3
<1>5. \A j \in Paths!Dirs(old) : u[j] = old[j]
  BY <1>1, <1>3
<1>6. Rooted(old) /\ 0 \in Paths!Dirs(old)
  BY RootIs DEF Grown
<1>7. \A j \in Paths!Dirs(old) : old[j].parent # i
  <2>1. \A j \in Paths!Dirs(old) \ {0} : old[j].parent \in Paths!Dirs(old)
    BY <1>6 DEF Rooted
  <2>2. old[0].parent = -1 /\ i # -1
    BY <1>1, <1>6, SlotIs DEF Rooted
  <2>. QED BY <1>1, <2>1, <2>2
<1>8. Rooted(u)
  <2>1. u[0].parent = -1
    BY <1>5, <1>6 DEF Rooted
  <2>2. \A j \in Paths!Dirs(u) \ {0} : u[j].parent \in Paths!Dirs(u) /\ u[j].name \in Name
    BY <1>1, <1>2, <1>4, <1>5, <1>6 DEF Rooted
  <2>. QED BY <1>1, <2>1, <2>2 DEF Rooted
<1>9. Apart(old) => Apart(u)
  <2>1. SUFFICES ASSUME Apart(old), NEW j \in Paths!Dirs(u), NEW k \in Paths!Dirs(u),
                        u[j].parent = u[k].parent, u[j].name = u[k].name
                 PROVE  j = k
    BY DEF Apart
  <2>. QED BY <1>2, <1>4, <1>5, <2>1 DEF Apart
<1>10. Ranked(old) => Ranked(u)
  <2>1. SUFFICES ASSUME Ranked(old) PROVE Ranked(u)
    OBVIOUS
  <2>2. PICK rank \in [Paths!Slot -> Nat] : \A j \in Paths!Dirs(old) \ {0} : rank[old[j].parent] < rank[j]
    BY <2>1 DEF Ranked
  <2>. DEFINE higher == [rank EXCEPT ![i] = rank[s.dir] + 1]
  <2>3. rank[s.dir] \in Nat
    BY <1>1
  <2>4. higher \in [Paths!Slot -> Nat]
    <3>1. rank[s.dir] + 1 \in Nat
      BY <2>3
    <3>. QED BY <3>1, Zenon
  <2>5. ASSUME NEW j \in Paths!Dirs(u) \ {0} PROVE higher[u[j].parent] < higher[j]
    <3>1. CASE j = i
      <4>1. higher[i] = rank[s.dir] + 1 /\ higher[s.dir] = rank[s.dir]
        BY <1>1
      <4>. HIDE DEF higher
      <4>. QED BY <1>2, <2>3, <3>1, <4>1
    <3>2. CASE j # i
      <4>1. j \in Paths!Dirs(old) \ {0} /\ u[j] = old[j] /\ old[j].parent \in Paths!Dirs(old)
        BY <1>4, <1>5, <1>6, <2>5, <3>2 DEF Rooted
      <4>2. higher[j] = rank[j] /\ higher[u[j].parent] = rank[old[j].parent]
        BY <1>1, <1>7, <3>2, <4>1
      <4>. HIDE DEF higher
      <4>. QED BY <2>2, <4>1, <4>2
    <3>. QED BY <3>1, <3>2
  <2>. HIDE DEF higher
  <2>. QED BY <2>4, <2>5 DEF Ranked
<1>11. i \notin Paths!Dirs(t) /\ Paths!Dirs(t) \subseteq Paths!Dirs(old)
  BY <1>1 DEF Grown
<1>12. \A j \in Paths!Dirs(u) : u[j].parent # i
  BY <1>1, <1>2, <1>4, <1>5, <1>7
<1>13. \A j \in Paths!Dirs(t) : u[j] = t[j]
  BY <1>5, <1>11 DEF Grown
<1>14. Paths!Dirs(u) = Paths!Dirs(t) \cup new.made
  BY <1>1, <1>4 DEF Grown
<1>15. new.dir \in Paths!Dirs(u)
  BY <1>1, <1>4
<1>16. (Apart(t) => Apart(u)) /\ (Ranked(t) => Ranked(u))
  BY <1>9, <1>10 DEF Grown
<1>. QED BY <1>1, <1>8, <1>11, <1>12, <1>13, <1>14, <1>15, <1>16 DEF Grown, u

\* One more name.
LEMMA AddDirectoryGrows ==
  ASSUME NEW t, Rooted(t), NEW s, Grown(s, t), NEW path, NEW k \in Nat, Led(s, path, k),
         path[k + 1] \in Name
  PROVE  LET new == Paths!AddDirectory(s, path[k + 1]) IN Grown(new, t) /\ Led(new, path, k + 1)
<1>. DEFINE n == path[k + 1]
            new == Paths!AddDirectory(s, n)
            d == Paths!ByName(s.table, n, s.dir)
<1>1. s \in AddStates /\ s.table \in Table /\ Rooted(s.table) /\ s.ok \in BOOLEAN /\ n \in Name
  BY DEF Grown, AddStates
<1>2. new \in AddStates
  BY <1>1, AddDirectoryIs
<1>3. CASE ~s.ok
  <2>1. new = s
    BY <1>1, <1>3, AddDirectoryIs
  <2>. QED BY <1>3, <2>1 DEF Led
<1>4. CASE s.ok /\ d # -1
  <2>1. new = [s EXCEPT !.dir = d]
    BY <1>1, <1>4, AddDirectoryIs
  <2>2. /\ d \in Paths!Dirs(s.table) /\ s.table[d].name = n /\ s.table[d].parent = s.dir
    BY <1>1, <1>4, ByNameIs
  <2>3. new.table = s.table /\ new.dir = d /\ new.made = s.made /\ new.ok = s.ok
    BY <1>1, <2>1 DEF AddStates
  <2>. HIDE DEF new, d, n
  <2>4. s.table = t
    BY <2>2 DEF Grown
  <2>5. Grown(new, t)
    BY <1>2, <2>2, <2>3, <2>4 DEF Grown
  <2>6. PICK c : Leads(s.table, path, k, c) /\ c[k] = s.dir
    BY <1>4 DEF Led
  <2>7. \E b : Leads(s.table, path, k + 1, b) /\ b[k + 1] = d
    BY <1>1, <2>2, <2>6, LedFurther DEF n
  <2>. QED BY <2>3, <2>5, <2>7 DEF Led, new, n
<1>5. CASE s.ok /\ d = -1
  <2>1. \/ new = [s EXCEPT !.ok = FALSE]
        \/ \E i \in Paths!Holes(s.table) :
             new = [table |-> [s.table EXCEPT ![i] = [name |-> n, parent |-> s.dir]],
                    dir |-> i, made |-> s.made \cup {i}, ok |-> TRUE]
    BY <1>1, <1>5, AddDirectoryIs
  <2>2. \A j \in Paths!Dirs(s.table) : ~ (s.table[j].name = n /\ s.table[j].parent = s.dir)
    <3>1. -1 \notin Paths!Dirs(s.table)
      BY <1>1, DirsAre, SlotIs
    <3>. QED BY <1>1, <1>5, <3>1, ByNameIs
  <2>. HIDE DEF new, d, n
  <2>3. CASE new = [s EXCEPT !.ok = FALSE]
    <3>1. new.table = s.table /\ new.dir = s.dir /\ new.made = s.made /\ new.ok = FALSE
      BY <1>1, <2>3 DEF AddStates
    <3>. QED BY <1>2, <3>1 DEF Grown, Led, new, n
  <2>4. ASSUME NEW i \in Paths!Holes(s.table),
               new = [table |-> [s.table EXCEPT ![i] = [name |-> n, parent |-> s.dir]],
                      dir |-> i, made |-> s.made \cup {i}, ok |-> TRUE]
        PROVE  Grown(new, t) /\ Led(new, path, k + 1)
    <3>1. Grown(new, t)
      BY <1>1, <1>2, <2>2, <2>4, GrownMore
    <3>2. i \in Paths!Slot /\ i \notin Paths!Dirs(s.table)
      BY <1>1, DirsAre
    <3>3. new.table \in Table /\ new.dir = i /\ Rooted(new.table) /\ i \in Paths!Dirs(new.table)
      BY <2>4, <3>1 DEF Grown, AddStates
    <3>4. new.table = [s.table EXCEPT ![i] = [name |-> n, parent |-> s.dir]]
      BY <2>4
    <3>5. new.table[i].name = n /\ new.table[i].parent = s.dir
      BY <1>1, <3>2, <3>4 DEF Table
    <3>6. \A j \in Paths!Dirs(s.table) : j \in Paths!Dirs(new.table) /\ new.table[j] = s.table[j]
      <4>1. \A j \in Paths!Slot \ {i} : new.table[j] = s.table[j]
        BY <1>1, <3>4 DEF Table
      <4>. QED BY <1>1, <3>2, <3>3, <4>1, DirsAre
    <3>7. PICK c : Leads(s.table, path, k, c) /\ c[k] = s.dir
      BY <1>5 DEF Led
    <3>8. \E b : Leads(new.table, path, k + 1, b) /\ b[k + 1] = i
      BY <1>1, <3>3, <3>5, <3>6, <3>7, LedFurther DEF n
    <3>. QED BY <3>1, <3>3, <3>8 DEF Led
  <2>. QED BY <2>1, <2>3, <2>4 DEF new, n
<1>. QED BY <1>1, <1>3, <1>4, <1>5

\* What dirtree_add returns.
LEMMA AddIs ==
  ASSUME NEW t, Rooted(t), NEW path \in Seq(Name)
  PROVE  LET a == Paths!Add(t, path)
         IN  \/ Paths!Refused(t) /\ a = [AddStart(t) EXCEPT !.dir = -1]
             \/ Grown(a, t) /\ Led(a, path, Len(path))
<1>1. CASE Paths!Refused(t)
  BY <1>1 DEF Paths!Add, AddStart, Paths!NoDir
<1>2. CASE ~Paths!Refused(t)
  <2>. DEFINE n == Len(path)
  <2>1. t \in Table /\ n \in Nat /\ path \in [1 .. n -> Name]
    BY DEF Rooted
  <2>2. PICK h : AddSteps(h, t, path) /\ Paths!Add(t, path) = h[n]
    BY <1>2, <2>1, AddGoes
  <2>. HIDE DEF n
  <2>. DEFINE S == {k \in 0 .. n : Grown(h[k], t) /\ Led(h[k], path, k)}
  <2>3. 0 \in S
    <3>1. h[0] \in AddStates /\ h[0] = AddStart(t)
      BY <2>1, <2>2 DEF AddSteps, n
    <3>2. h[0].table = t /\ h[0].dir = 0 /\ h[0].made = {} /\ h[0].ok
      BY <3>1 DEF AddStart
    <3>3. 0 \in Paths!Dirs(t)
      BY RootIs
    <3>4. Grown(h[0], t)
      BY <3>1, <3>2, <3>3 DEF Grown
    <3>5. \E c : Leads(t, path, 0, c) /\ c[0] = 0
      <4>. DEFINE c == [j \in 0 .. 0 |-> 0]
      <4>1. c \in [0 .. 0 -> Paths!Dirs(t)] /\ c[0] = 0 /\ \A j \in 1 .. 0 : FALSE
        BY <3>3
      <4>. HIDE DEF c
      <4>2. Leads(t, path, 0, c)
        BY <4>1 DEF Leads
      <4>. QED BY <4>1, <4>2
    <3>. QED BY <2>1, <3>2, <3>4, <3>5 DEF Led
  <2>4. ASSUME NEW k \in 0 .. n - 1, k \in S
        PROVE  k + 1 \in S
    <3>1. k + 1 \in 1 .. n /\ k + 1 \in 0 .. n /\ (k + 1) - 1 = k /\ k \in Nat
      BY <2>1
    <3>2. h[k + 1] = Paths!AddDirectory(h[k], path[k + 1])
      BY <2>2, <3>1 DEF AddSteps, n
    <3>3. path[k + 1] \in Name
      BY <2>1, <3>1
    <3>4. Grown(h[k], t) /\ Led(h[k], path, k)
      BY <2>4
    <3>5. Grown(h[k + 1], t) /\ Led(h[k + 1], path, k + 1)
      BY <3>1, <3>2, <3>3, <3>4, AddDirectoryGrows
    <3>. QED BY <3>1, <3>5
  <2>5. 0 .. n \subseteq S
    <3>. HIDE DEF S
    <3>. QED BY <2>1, <2>3, <2>4, CountUp
  <2>6. n \in 0 .. n
    BY <2>1
  <2>7. n \in S
    BY <2>5, <2>6
  <2>. QED BY <2>2, <2>7 DEF n
<1>. QED BY <1>1, <1>2

\* The table a.table that dirtree_add leaves is one, with the directories it had;
\* and a.dir is where the path leads.
AddsTo(a, t, path) ==
  /\ Rooted(a.table) /\ (Apart(t) => Apart(a.table)) /\ (Ranked(t) => Ranked(a.table))
  /\ Paths!Dirs(a.table) = Paths!Dirs(t) \cup a.made
  /\ \A i \in Paths!Dirs(t) : a.table[i] = t[i]
  /\ a.ok \in BOOLEAN /\ (a.dir = -1 => a.table = t)
  /\ a.dir # -1 => /\ a.dir \in Paths!Dirs(a.table)
                   /\ a.dir \in Paths!Dirs(t) => a.table = t
                   /\ a.dir \notin Paths!Dirs(t) =>
                        \A i \in Paths!Dirs(a.table) : a.table[i].parent # a.dir
  /\ a.dir # -1 /\ a.ok => \E c : Leads(a.table, path, Len(path), c) /\ c[Len(path)] = a.dir

\* dirtree_add does so, whichever of the names were there.
LEMMA AddKeeps ==
  ASSUME NEW t, Rooted(t), NEW path \in Seq(Name)
  PROVE  AddsTo(Paths!Add(t, path), t, path)
<1>. DEFINE a == Paths!Add(t, path)
<1>1. CASE a = [AddStart(t) EXCEPT !.dir = -1]
  <2>1. a.table = t /\ a.dir = -1 /\ a.made = {} /\ a.ok = TRUE
    BY <1>1 DEF AddStart
  <2>. HIDE DEF a
  <2>. QED BY <2>1 DEF a, AddsTo
<1>2. CASE Grown(a, t) /\ Led(a, path, Len(path))
  <2>1. a \in AddStates /\ a.ok \in BOOLEAN /\ a.dir \in Paths!Dirs(a.table) /\ a.table \in Table
    BY <1>2 DEF Grown, AddStates
  <2>2. a.dir # -1
    BY <2>1, DirsAre, SlotIs
  <2>. HIDE DEF a
  <2>. QED BY <1>2, <2>1, <2>2 DEF a, Grown, Led, AddsTo
<1>. QED BY <1>1, <1>2, AddIs
-----------------------------------------------------------------------------
(* Directories: siblings stay apart.                                       *)

\* A table whose paths name one directory each.
Settled(t) == Rooted(t) /\ Apart(t)

\* The paths of commands are sequences of names.
LEMMA ArgIs ==
  /\ Paths!Arg \subseteq Seq(Name)
  /\ \A p \in Paths!NewArg : p \in Paths!Arg /\ p # <<>>
<1>1. ASSUME NEW p \in Paths!Arg PROVE p \in Seq(Name)
  <2>1. PICK n \in 0 .. MaxLen : p \in [1 .. n -> Name]
    BY DEF Paths!Arg, Paths!BoundedSeq, Paths!SeqOf
  <2>. QED BY <2>1
<1>. QED BY <1>1 DEF Paths!NewArg

\* The last name of a path, and what is before it.
LEMMA FrontIs ==
  ASSUME NEW path \in Seq(Name)
  PROVE  /\ Paths!Front(path) \in Seq(Name)
         /\ path # <<>> => /\ Paths!Last(path) \in Name /\ Len(path) \in Nat \ {0}
                           /\ Len(Paths!Front(path)) = Len(path) - 1
                           /\ \A k \in 1 .. Len(path) - 1 : Paths!Front(path)[k] = path[k]
<1>. DEFINE n == Len(path)
            q == Paths!Front(path)
<1>1. n \in Nat /\ path \in [1 .. n -> Name]
  OBVIOUS
<1>2. CASE path = <<>>
  <2>1. q = <<>>
    BY <1>2 DEF Paths!Front
  <2>. QED BY <1>2, <2>1
<1>3. CASE path # <<>>
  <2>1. n \in Nat \ {0}
    BY <1>3
  <2>2. q = [k \in 1 .. n - 1 |-> path[k]]
    BY <2>1 DEF Paths!Front
  <2>3. q \in [1 .. n - 1 -> Name]
    BY <1>1, <2>1, <2>2
  <2>4. Paths!Last(path) \in Name
    BY <1>1, <2>1 DEF Paths!Last
  <2>. HIDE DEF q, n
  <2>5. q \in Seq(Name) /\ Len(q) = n - 1
    BY <2>1, <2>3
  <2>. QED BY <2>1, <2>2, <2>4, <2>5 DEF q, n
<1>. QED BY <1>2, <1>3

\* A path with one more name.
LEMMA AppendIs ==
  ASSUME NEW path \in Seq(Name), NEW n \in Name
  PROVE  LET more == Append(path, n)
         IN  more \in Seq(Name) /\ more # <<>> /\ Paths!Front(more) = path /\ Paths!Last(more) = n
<1>. DEFINE more == Append(path, n)
            m == Len(path)
<1>1. m \in Nat /\ path \in [1 .. m -> Name] /\ more \in Seq(Name) /\ Len(more) = m + 1 /\ more[m + 1] = n
      /\ \A k \in 1 .. m : more[k] = path[k]
  OBVIOUS
<1>2. more # <<>>
  BY <1>1
<1>3. Paths!Last(more) = n
  BY <1>1 DEF Paths!Last
<1>4. Paths!Front(more) = path
  <2>. HIDE DEF more
  <2>1. Paths!Front(more) \in Seq(Name) /\ Len(Paths!Front(more)) = m
        /\ \A k \in 1 .. m : Paths!Front(more)[k] = more[k]
    <3>1. Len(more) - 1 = m
      BY <1>1
    <3>. HIDE DEF m
    <3>. QED BY <1>1, <1>2, <3>1, FrontIs
  <2>. QED BY <1>1, <2>1
<1>. QED BY <1>1, <1>2, <1>3, <1>4

\* What is found is a directory.
LEMMA FoundIs ==
  ASSUME NEW t, Rooted(t), NEW path \in Seq(Name), Paths!Find(t, path) # -1
  PROVE  Paths!Find(t, path) \in Paths!Dirs(t)
<1>1. PICK c : Leads(t, path, Len(path), c) /\ Paths!Find(t, path) = c[Len(path)]
  BY FindLeads
<1>2. Len(path) \in 0 .. Len(path)
  OBVIOUS
<1>. QED BY <1>1, <1>2 DEF Leads

\* The first table, and that of a format, have the root alone.
LEMMA RootAlone ==
  ASSUME NEW t, NEW root \in [name : Name \cup {Root, NoName}, parent : -2 .. MaxSize - 1], root.parent = -1,
         t = [i \in Paths!Slot |-> IF i = 0 THEN root ELSE Paths!Free]
  PROVE  Settled(t) /\ Ranked(t) /\ Paths!Dirs(t) = {0}
<1>1. Paths!Free \in [name : Name \cup {Root, NoName}, parent : -2 .. MaxSize - 1]
  BY SlotIs DEF Paths!Free
<1>2. t \in Table
  BY <1>1, Zenon DEF Table
<1>3. Paths!Dirs(t) = {0}
  <2>1. \A i \in Paths!Slot \ {0} : t[i].parent = -2
    BY DEF Paths!Free
  <2>2. t[0].parent = -1
    BY SlotIs
  <2>. QED BY <1>2, <2>1, <2>2, DirsAre, SlotIs
<1>4. Settled(t)
  BY <1>2, <1>3, SlotIs DEF Settled, Rooted, Apart
<1>5. Ranked(t)
  <2>1. [i \in Paths!Slot |-> 0] \in [Paths!Slot -> Nat]
    OBVIOUS
  <2>. QED BY <1>3, <2>1 DEF Ranked
<1>. QED BY <1>3, <1>4, <1>5

\* The table a format leaves has the root alone, apart and ranked.
LEMMA FreshIs == Settled(Paths!Fresh) /\ Ranked(Paths!Fresh) /\ Paths!Dirs(Paths!Fresh) = {0}
<1>. DEFINE root == [name |-> Root, parent |-> -1]
<1>1. root \in [name : Name \cup {Root, NoName}, parent : -2 .. MaxSize - 1] /\ root.parent = -1
  BY SlotIs
<1>2. Paths!Fresh = [i \in Paths!Slot |-> IF i = 0 THEN root ELSE Paths!Free]
  BY DEF Paths!Fresh
<1>. HIDE DEF root
<1>. QED BY <1>1, <1>2, RootAlone

\* A directory without children is freed.
LEMMA FreedIs ==
  ASSUME NEW t, Rooted(t), NEW d \in Paths!Dirs(t) \ {0}, Paths!Children(t, d) = {},
         NEW u, u = [t EXCEPT ![d] = Paths!Free]
  PROVE  /\ Rooted(u) /\ (Apart(t) => Apart(u)) /\ (Ranked(t) => Ranked(u))
         /\ Paths!Dirs(u) = Paths!Dirs(t) \ {d}
<1>1. t \in Table /\ d \in Paths!Slot /\ 0 \in Paths!Dirs(t)
  BY DirsAre, RootIs DEF Rooted
<1>2. Paths!Free \in [name : Name \cup {Root, NoName}, parent : -2 .. MaxSize - 1]
  BY SlotIs DEF Paths!Free
<1>3. u \in Table
  BY <1>1, <1>2, Zenon DEF Table
<1>4. \A i \in Paths!Slot \ {d} : u[i] = t[i]
  BY <1>1 DEF Table
<1>5. u[d].parent = -2
  BY <1>1 DEF Table, Paths!Free
<1>6. Paths!Dirs(u) = Paths!Dirs(t) \ {d}
  <2>a. \A i : i \in Paths!Dirs(u) <=> i \in Paths!Slot /\ u[i].parent # -2
    BY <1>3, DirsAre
  <2>b. \A i : i \in Paths!Dirs(t) <=> i \in Paths!Slot /\ t[i].parent # -2
    BY <1>1, DirsAre
  <2>. QED BY <1>1, <1>4, <1>5, <2>a, <2>b
<1>7. \A i \in Paths!Dirs(u) : i \in Paths!Dirs(t) /\ u[i] = t[i]
  BY <1>1, <1>4, <1>6, RootIs
<1>8. \A i \in Paths!Dirs(t) : t[i].parent # d
  BY DEF Paths!Children
<1>9. Rooted(u)
  BY <1>1, <1>3, <1>6, <1>7, <1>8 DEF Rooted
<1>10. Ranked(t) => Ranked(u)
  BY <1>6, <1>7 DEF Ranked
<1>. QED BY <1>6, <1>7, <1>9, <1>10 DEF Apart

\* A directory d gets a name that no other one has where it is.
Renames(t, d, n, u) ==
  /\ d \in Paths!Dirs(t) \ {0} /\ n \in Name
  /\ \A i \in Paths!Dirs(t) : ~ (t[i].name = n /\ t[i].parent = t[d].parent)
  /\ u = [t EXCEPT ![d].name = n]

\* A new name, free where the directory is, leaves siblings apart, and every
\* parent as it was.
LEMMA RenamedIs ==
  ASSUME NEW t, Rooted(t), NEW d, NEW n, NEW u, Renames(t, d, n, u)
  PROVE  /\ Rooted(u) /\ (Apart(t) => Apart(u)) /\ (Ranked(t) => Ranked(u))
         /\ Paths!Dirs(u) = Paths!Dirs(t)
<1>. USE DEF Renames
<1>1. t \in Table /\ d \in Paths!Slot /\ 0 \in Paths!Dirs(t)
  BY DirsAre, RootIs DEF Rooted
<1>2. t[d] \in [name : Name \cup {Root, NoName}, parent : -2 .. MaxSize - 1]
  BY <1>1 DEF Table
<1>3. [t[d] EXCEPT !.name = n] \in [name : Name \cup {Root, NoName}, parent : -2 .. MaxSize - 1]
  BY <1>2
<1>4. u \in Table
  BY <1>1, <1>3, Zenon DEF Table
<1>5. \A i \in Paths!Slot \ {d} : u[i] = t[i]
  BY <1>1 DEF Table
<1>6. u[d].parent = t[d].parent /\ u[d].name = n
  BY <1>1, <1>2 DEF Table
<1>7. Paths!Dirs(u) = Paths!Dirs(t)
  <2>a. \A i : i \in Paths!Dirs(u) <=> i \in Paths!Slot /\ u[i].parent # -2
    BY <1>4, DirsAre
  <2>b. \A i : i \in Paths!Dirs(t) <=> i \in Paths!Slot /\ t[i].parent # -2
    BY <1>1, DirsAre
  <2>c. \A i \in Paths!Slot : u[i].parent = t[i].parent
    BY <1>5, <1>6
  <2>. QED BY <2>a, <2>b, <2>c
<1>8. \A i \in Paths!Dirs(t) : u[i].parent = t[i].parent
  BY <1>5, <1>6, RootIs
<1>9. \A i \in Paths!Dirs(t) \ {d} : u[i] = t[i]
  BY <1>5, RootIs
<1>10. Rooted(u)
  BY <1>1, <1>4, <1>6, <1>7, <1>8, <1>9 DEF Rooted
<1>11. Ranked(t) => Ranked(u)
  BY <1>7, <1>8 DEF Ranked
<1>12. Apart(t) => Apart(u)
  <2>1. SUFFICES ASSUME Apart(t), NEW i \in Paths!Dirs(t), NEW j \in Paths!Dirs(t),
                        u[i].parent = u[j].parent, u[i].name = u[j].name
                 PROVE  i = j
    BY <1>7 DEF Apart
  <2>. QED BY <1>6, <1>8, <1>9, <2>1 DEF Apart
<1>. QED BY <1>7, <1>10, <1>11, <1>12

\* A directory d gets another parent p.
Moves(t, d, p, u) ==
  d \in Paths!Dirs(t) \ {0} /\ p \in Paths!Dirs(t) /\ u = [t EXCEPT ![d].parent = p]

\* A new parent with no child of the name leaves siblings apart.
LEMMA MovedIs ==
  ASSUME NEW t, Rooted(t), NEW d, NEW p, NEW u, Moves(t, d, p, u)
  PROVE  /\ Rooted(u) /\ Paths!Dirs(u) = Paths!Dirs(t)
         /\ u[d].parent = p /\ \A i \in Paths!Dirs(t) \ {d} : u[i] = t[i]
         /\ Apart(t) /\ (\A i \in Paths!Dirs(t) : ~ (t[i].name = t[d].name /\ t[i].parent = p))
              => Apart(u)
<1>. USE DEF Moves
<1>1. t \in Table /\ d \in Paths!Slot /\ 0 \in Paths!Dirs(t) /\ p \in Paths!Slot
  BY DirsAre, RootIs DEF Rooted
<1>2. t[d] \in [name : Name \cup {Root, NoName}, parent : -2 .. MaxSize - 1] /\ p \in -2 .. MaxSize - 1
      /\ p # -2
  BY <1>1, SlotIs DEF Table
<1>3. [t[d] EXCEPT !.parent = p] \in [name : Name \cup {Root, NoName}, parent : -2 .. MaxSize - 1]
  BY <1>2
<1>4. u \in Table
  BY <1>1, <1>3, Zenon DEF Table
<1>5. \A i \in Paths!Slot \ {d} : u[i] = t[i]
  BY <1>1 DEF Table
<1>6. u[d].parent = p /\ u[d].name = t[d].name
  BY <1>1, <1>2 DEF Table
<1>7. Paths!Dirs(u) = Paths!Dirs(t)
  <2>a. \A i : i \in Paths!Dirs(u) <=> i \in Paths!Slot /\ u[i].parent # -2
    BY <1>4, DirsAre
  <2>b. \A i : i \in Paths!Dirs(t) <=> i \in Paths!Slot /\ t[i].parent # -2
    BY <1>1, DirsAre
  <2>1. d \in Paths!Dirs(u)
    BY <1>1, <1>2, <1>6, <2>a
  <2>2. \A i \in Paths!Slot \ {d} : i \in Paths!Dirs(u) <=> i \in Paths!Dirs(t)
    BY <1>5, <2>a, <2>b
  <2>. QED BY <2>1, <2>2, <2>a, <2>b
<1>8. \A i \in Paths!Dirs(t) \ {d} : u[i] = t[i]
  BY <1>5, RootIs
<1>9. \A i \in Paths!Dirs(t) : u[i].name = t[i].name
  BY <1>6, <1>8
<1>10. Rooted(u)
  BY <1>1, <1>4, <1>6, <1>7, <1>8, <1>9 DEF Rooted
<1>11. ASSUME Apart(t), \A i \in Paths!Dirs(t) : ~ (t[i].name = t[d].name /\ t[i].parent = p)
       PROVE  Apart(u)
  <2>1. SUFFICES ASSUME NEW i \in Paths!Dirs(t), NEW j \in Paths!Dirs(t),
                        u[i].parent = u[j].parent, u[i].name = u[j].name
                 PROVE  i = j
    BY <1>7 DEF Apart
  <2>. QED BY <1>6, <1>8, <1>11, <2>1 DEF Apart
<1>. QED BY <1>6, <1>7, <1>8, <1>10, <1>11

\* No name of a directory or of a file is the end of another one.
OwnEnds == \A n \in Name : Suffix[n] = {n}

\* Where mv puts something.
LEMMA TargetIs ==
  ASSUME NEW n \in Name, NEW new_path \in Seq(Name)
  PROVE  LET target == Paths!Target(n, new_path)
         IN  target \in Seq(Name) /\ target # <<>> /\ (OwnEnds => Paths!Last(target) = n)
<1>. DEFINE in == new_path # <<>> /\ Paths!Last(new_path) \in Suffix[n]
<1>1. Paths!Target(n, new_path) = IF in THEN new_path ELSE Append(new_path, n)
  BY DEF Paths!Target
<1>2. CASE in
  BY <1>1, <1>2 DEF OwnEnds
<1>3. CASE ~in
  <2>. DEFINE more == Append(new_path, n)
  <2>1. more \in Seq(Name) /\ more # <<>> /\ Paths!Last(more) = n
    BY AppendIs
  <2>. HIDE DEF more
  <2>2. Paths!Target(n, new_path) = more
    BY <1>1, <1>3 DEF more
  <2>. QED BY <2>1, <2>2
<1>. QED BY <1>2, <1>3

\* The directory that mv moves, and the table it leaves.
MvMoves(t, path, new_path, d, target, a, u) ==
  /\ d = Paths!Find(t, path) /\ d # -1 /\ d # 0
  /\ target = Paths!Target(t[d].name, new_path)
  /\ a = Paths!Add(t, Paths!Front(target)) /\ a.ok /\ a.dir # -1
  /\ u = [a.table EXCEPT ![d].parent = a.dir]

\* It is a directory, and its new parent is one to which the new path leads.
LEMMA MvMovesOne ==
  ASSUME NEW t, Rooted(t), NEW path \in Seq(Name), NEW new_path \in Seq(Name), NEW d, NEW target, NEW a,
         NEW u, MvMoves(t, path, new_path, d, target, a, u)
  PROVE  /\ d \in Paths!Dirs(t) \ {0} /\ t[d].name \in Name
         /\ target \in Seq(Name) /\ target # <<>> /\ Paths!Front(target) \in Seq(Name)
         /\ (OwnEnds => Paths!Last(target) = t[d].name)
         /\ Rooted(a.table) /\ d \in Paths!Dirs(a.table) /\ a.dir \in Paths!Dirs(a.table)
         /\ a.table[d] = t[d]
         /\ Rooted(u) /\ Paths!Dirs(u) = Paths!Dirs(a.table)
         /\ u[d].parent = a.dir /\ \A i \in Paths!Dirs(a.table) \ {d} : u[i] = a.table[i]
<1>1. d \in Paths!Dirs(t) \ {0}
  BY FoundIs DEF MvMoves
<1>2. t[d].name \in Name
  BY <1>1 DEF Rooted
<1>3. target \in Seq(Name) /\ target # <<>> /\ (OwnEnds => Paths!Last(target) = t[d].name)
  BY <1>2, TargetIs DEF MvMoves
<1>4. Paths!Front(target) \in Seq(Name)
  BY <1>3, FrontIs
<1>5. /\ Rooted(a.table) /\ Paths!Dirs(a.table) = Paths!Dirs(t) \cup a.made
      /\ a.dir \in Paths!Dirs(a.table) /\ \A i \in Paths!Dirs(t) : a.table[i] = t[i]
  <2>1. AddsTo(a, t, Paths!Front(target))
    BY <1>4, AddKeeps DEF MvMoves
  <2>. QED BY <2>1 DEF AddsTo, MvMoves
<1>6. /\ Rooted(u) /\ Paths!Dirs(u) = Paths!Dirs(a.table)
      /\ u[d].parent = a.dir /\ \A i \in Paths!Dirs(a.table) \ {d} : u[i] = a.table[i]
  <2>1. Moves(a.table, d, a.dir, u)
    BY <1>1, <1>5, RootIs DEF MvMoves, Moves
  <2>. QED BY <1>5, <2>1, MovedIs
<1>. QED BY <1>1, <1>2, <1>3, <1>4, <1>5, <1>6

\* mv puts a directory where no other one has its name.
LEMMA MvSettled ==
  ASSUME OwnEnds, NEW t, Settled(t), NEW path \in Seq(Name), NEW new_path \in Seq(Name),
         NEW d, NEW target, NEW a, NEW u, MvMoves(t, path, new_path, d, target, a, u),
         Paths!Find(t, target) = -1
  PROVE  Settled(u)
<1>. DEFINE n == t[d].name
            q == Paths!Front(target)
<1>1. Rooted(t) /\ Apart(t) /\ t \in Table
  BY DEF Settled, Rooted
<1>2. /\ d \in Paths!Dirs(t) \ {0} /\ n \in Name
      /\ target \in Seq(Name) /\ target # <<>> /\ q \in Seq(Name) /\ Paths!Last(target) = n
      /\ Rooted(a.table) /\ d \in Paths!Dirs(a.table) \ {0} /\ a.dir \in Paths!Dirs(a.table)
      /\ a.table[d] = t[d] /\ Rooted(u)
  BY <1>1, MvMovesOne
<1>3. /\ Apart(a.table)
      /\ a.dir \in Paths!Dirs(t) => a.table = t
      /\ a.dir \notin Paths!Dirs(t) => \A i \in Paths!Dirs(a.table) : a.table[i].parent # a.dir
      /\ \E c : Leads(a.table, q, Len(q), c) /\ c[Len(q)] = a.dir
  <2>1. AddsTo(a, t, q)
    BY <1>1, <1>2, AddKeeps DEF MvMoves
  <2>. QED BY <1>1, <2>1 DEF AddsTo, MvMoves
<1>. HIDE DEF q, n
<1>4. ASSUME NEW i \in Paths!Dirs(a.table), a.table[i].name = n, a.table[i].parent = a.dir
      PROVE  FALSE
  <2>1. a.dir \in Paths!Dirs(t) /\ a.table = t
    BY <1>3, <1>4
  <2>2. Paths!Find(t, q) = a.dir
    BY <1>1, <1>2, <1>3, <2>1, LeadsFound
  <2>3. a.dir # -1
    BY <1>1, <2>1, DirsAre, SlotIs
  <2>4. Paths!ByName(t, n, a.dir) = -1
    BY <1>1, <1>2, <2>2, <2>3, FindSteps DEF q
  <2>5. -1 \notin Paths!Dirs(t)
    BY <1>1, DirsAre, SlotIs
  <2>. QED BY <1>1, <1>4, <2>1, <2>4, <2>5, ByNameIs
<1>5. u = [a.table EXCEPT ![d].parent = a.dir]
  BY DEF MvMoves
<1>6. \A i \in Paths!Dirs(a.table) : ~ (a.table[i].name = a.table[d].name /\ a.table[i].parent = a.dir)
  BY <1>2, <1>4 DEF n
<1>7. Apart(u)
  <2>1. Moves(a.table, d, a.dir, u)
    BY <1>2, <1>5 DEF Moves
  <2>. QED BY <1>2, <1>3, <1>6, <2>1, MovedIs
<1>. QED BY <1>2, <1>7 DEF Settled

\* rename gives a directory a name that none has where it is.
LEMMA RenameFree ==
  ASSUME NEW t, Rooted(t), NEW path \in Seq(Name), NEW n \in Name,
         NEW d, d = Paths!Find(t, path), d # -1, d # 0,
         Paths!Find(t, Append(Paths!Front(path), n)) = -1
  PROVE  \A u : u = [t EXCEPT ![d].name = n] => Renames(t, d, n, u)
<1>. DEFINE q == Paths!Front(path)
            p == Paths!Find(t, q)
<1>1. d \in Paths!Dirs(t) \ {0} /\ t \in Table
  BY FoundIs DEF Rooted
<1>2. path # <<>>
  BY <1>1, FindSteps
<1>3. q \in Seq(Name)
  BY FrontIs
<1>4. d = IF p = -1 THEN -1 ELSE Paths!ByName(t, Paths!Last(path), p)
  BY <1>1, <1>2, FindSteps
<1>. HIDE DEF p
<1>5. p # -1 /\ t[d].parent = p
  BY <1>1, <1>4, ByNameIs
<1>6. Paths!ByName(t, n, p) = -1
  <2>. DEFINE more == Append(q, n)
  <2>. HIDE DEF q
  <2>1. more \in Seq(Name) /\ more # <<>> /\ Paths!Front(more) = q /\ Paths!Last(more) = n
    BY <1>3, AppendIs
  <2>2. Paths!Find(t, more) = -1
    BY DEF q
  <2>. HIDE DEF more
  <2>. QED BY <1>1, <1>5, <2>1, <2>2, FindSteps DEF p
<1>7. -1 \notin Paths!Dirs(t)
  BY <1>1, DirsAre, SlotIs
<1>8. \A i \in Paths!Dirs(t) : ~ (t[i].name = n /\ t[i].parent = t[d].parent)
  BY <1>1, <1>5, <1>6, <1>7, ByNameIs
<1>. QED BY <1>1, <1>8 DEF Renames

\* The table in memory, and the one on disk if there is one.
NamesApart ==
  part = "names" => Settled(dirs) /\ (dirfile # <<>> => Settled(dirfile))

\* What a save leaves on disk, and what a start finds there.
LEMMA SavedApart ==
  ASSUME NEW t, Settled(t), NEW f, f # <<>> => Settled(f), NEW g, g \in {f, t}
  PROVE  (g # <<>> => Settled(g)) /\ Settled(Paths!Loaded(g))
  BY FreshIs DEF Paths!Loaded, Paths!NoDat

\* A save writes the table, once the FileSystem is formatted, or nothing.
LEMMA SavedIs == \A t : Paths!Saved(t) \in {dirfile, t}
  BY DEF Paths!Saved

\* A start, after a death.
LEMMA DeadApart ==
  ASSUME Settled(dirs), dirfile # <<>> => Settled(dirfile), NEW made, NEW nodes_, Paths!Dead(made, nodes_)
  PROVE  Settled(dirs') /\ (dirfile' # <<>> => Settled(dirfile'))
<1>1. dirs' = Paths!Loaded(dirfile) /\ dirfile' = dirfile
  BY DEF Paths!Dead, Paths!Boot
<1>. QED BY <1>1, SavedApart

\* The step that adds directories and dies or goes on.
LEMMA AddedApart ==
  ASSUME Settled(dirs), dirfile # <<>> => Settled(dirfile), NEW path \in Seq(Name),
         dirs' = Paths!Add(dirs, path).table, Paths!Added(Paths!Add(dirs, path), path)
  PROVE  Settled(dirs') /\ (dirfile' # <<>> => Settled(dirfile'))
<1>1. AddsTo(Paths!Add(dirs, path), dirs, path)
  BY AddKeeps DEF Settled
<1>2. Settled(dirs')
  BY <1>1 DEF AddsTo, Settled
<1>3. dirfile' \in {dirfile, dirs'}
  BY DEF Paths!Added, Paths!Saved
<1>. QED BY <1>2, <1>3, SavedApart

\* Every command, and every end and start of the FileSystem, keeps siblings apart.
LEMMA NamesApartStep ==
  ASSUME OwnEnds, Settled(dirs), dirfile # <<>> => Settled(dirfile), Paths!Next
  PROVE  Settled(dirs') /\ (dirfile' # <<>> => Settled(dirfile'))
<1>r. Rooted(dirs) /\ Apart(dirs) /\ dirs \in Table
  BY DEF Settled, Rooted
<1>1. ASSUME NEW p \in Paths!Arg, Paths!Mkdir(p)
      PROVE  Settled(dirs') /\ (dirfile' # <<>> => Settled(dirfile'))
  <2>1. p \in Seq(Name)
    BY <1>1, ArgIs
  <2>2. \/ dirs' = Paths!Add(dirs, p).table /\ Paths!Added(Paths!Add(dirs, p), p)
        \/ Paths!Dead(Paths!Add(dirs, p).made, listed)
    BY <1>1 DEF Paths!Mkdir
  <2>. QED BY <2>1, <2>2, AddedApart, DeadApart
<1>2. ASSUME NEW p \in Paths!DirArg, NEW q \in Paths!Arg, Paths!MvDir(p, q)
      PROVE  Settled(dirs') /\ (dirfile' # <<>> => Settled(dirfile'))
  <2>. DEFINE d == Paths!Find(dirs, p)
              target == Paths!Target(dirs[d].name, q)
              a == Paths!Add(dirs, Paths!Front(target))
              moved == [a.table EXCEPT ![d].parent = a.dir]
  <2>1. p \in Seq(Name) /\ q \in Seq(Name) /\ d # -1
    BY <1>2, ArgIs DEF Paths!DirArg, Paths!NoDir
  <2>2. d # 0 /\ Paths!Find(dirs, target) = -1
    BY <1>2 DEF Paths!MvDir, Paths!NoDir
  <2>3. \/ a.ok /\ a.dir # -1 /\ dirs' = moved /\ dirfile' = Paths!Saved(moved)
        \/ Paths!Dead(a.made, listed)
    BY <1>2 DEF Paths!MvDir, Paths!NoDir
  <2>4. CASE a.ok /\ a.dir # -1 /\ dirs' = moved /\ dirfile' = Paths!Saved(moved)
    <3>1. MvMoves(dirs, p, q, d, target, a, moved)
      BY <2>1, <2>2, <2>4 DEF MvMoves
    <3>. HIDE DEF d, target, a, moved
    <3>2. Settled(moved)
      BY <2>1, <2>2, <3>1, MvSettled
    <3>. QED BY <2>4, <3>2, SavedApart, SavedIs
  <2>. QED BY <2>3, <2>4, DeadApart
<1>3. ASSUME NEW p \in Paths!DirArg, NEW n \in Name, Paths!RenameDir(p, n)
      PROVE  Settled(dirs') /\ (dirfile' # <<>> => Settled(dirfile'))
  <2>. DEFINE d == Paths!Find(dirs, p)
  <2>1. p \in Seq(Name) /\ d # -1
    BY <1>3, ArgIs DEF Paths!DirArg, Paths!NoDir
  <2>2. /\ d # 0 /\ Paths!Find(dirs, Append(Paths!Front(p), n)) = -1
        /\ dirs' = [dirs EXCEPT ![d].name = n] /\ dirfile' = Paths!Saved(dirs')
    BY <1>3 DEF Paths!RenameDir, Paths!NameTaken, Paths!NoDir
  <2>. HIDE DEF d
  <2>3. Renames(dirs, d, n, dirs')
    BY <1>r, <2>1, <2>2, RenameFree DEF d
  <2>4. Settled(dirs')
    BY <1>r, <2>3, RenamedIs DEF Settled
  <2>. QED BY <2>2, <2>4, SavedApart, SavedIs
<1>4. ASSUME NEW p \in Paths!DirArg, Paths!RmDir(p)
      PROVE  Settled(dirs') /\ (dirfile' # <<>> => Settled(dirfile'))
  <2>. DEFINE d == Paths!Find(dirs, p)
  <2>1. p \in Seq(Name) /\ d # -1
    BY <1>4, ArgIs DEF Paths!DirArg, Paths!NoDir
  <2>2. /\ Paths!Children(dirs, d) = {} /\ dirfile' = dirfile
        /\ IF d = 0 THEN dirs' = dirs ELSE dirs' = [dirs EXCEPT ![d] = Paths!Free]
    BY <1>4 DEF Paths!RmDir, Paths!Empty
  <2>3. d \in Paths!Dirs(dirs)
    BY <1>r, <2>1, FoundIs
  <2>. HIDE DEF d
  <2>. QED BY <1>r, <2>2, <2>3, FreedIs DEF Settled
<1>5. ASSUME NEW p \in Paths!NewArg, NEW f \in File, Paths!Store(p, f)
      PROVE  Settled(dirs') /\ (dirfile' # <<>> => Settled(dirfile'))
  <2>. DEFINE q == Paths!Front(p)
  <2>1. q \in Seq(Name)
    BY <1>5, ArgIs, FrontIs
  <2>2. \/ dirs' = Paths!Add(dirs, q).table /\ Paths!Added(Paths!Add(dirs, q), q)
        \/ Paths!Dead(Paths!Add(dirs, q).made, TRUE)
    BY <1>5 DEF Paths!Store
  <2>. QED BY <2>1, <2>2, AddedApart, DeadApart
<1>6. ASSUME NEW p \in Paths!NewArg, NEW q \in Paths!Arg, Paths!MvFile(p, q)
      PROVE  Settled(dirs') /\ (dirfile' # <<>> => Settled(dirfile'))
  <2>. DEFINE target == Paths!Target(Paths!Last(p), q)
              r == Paths!Front(target)
  <2>1. Paths!Last(p) \in Name /\ q \in Seq(Name)
    BY <1>6, ArgIs, FrontIs
  <2>2. target \in Seq(Name)
    BY <2>1, TargetIs
  <2>. HIDE DEF target
  <2>3. r \in Seq(Name)
    BY <2>2, FrontIs
  <2>4. \/ dirs' = Paths!Add(dirs, r).table /\ Paths!Added(Paths!Add(dirs, r), r)
        \/ Paths!Dead(Paths!Add(dirs, r).made, listed)
    BY <1>6 DEF Paths!MvFile, target
  <2>. QED BY <2>3, <2>4, AddedApart, DeadApart
<1>7. ASSUME NEW p, NEW n, Paths!RenameFile(p, n)
      PROVE  Settled(dirs') /\ (dirfile' # <<>> => Settled(dirfile'))
  BY <1>7 DEF Paths!RenameFile, Paths!mem
<1>8. ASSUME NEW p, Paths!RmFile(p)
      PROVE  Settled(dirs') /\ (dirfile' # <<>> => Settled(dirfile'))
  BY <1>8 DEF Paths!RmFile
<1>9. CASE Paths!RmDirSave
  <2>1. dirs' = dirs /\ dirfile' = Paths!Saved(dirs)
    BY <1>9 DEF Paths!RmDirSave, Paths!mem
  <2>. QED BY <2>1, SavedApart, SavedIs
<1>10. CASE Paths!MoveDone
  BY <1>10 DEF Paths!MoveDone
<1>11. CASE Paths!Format
  <2>1. /\ dirs' = [i \in Paths!Slot |-> IF i = 0 THEN dirs[0] ELSE Paths!Free]
        /\ dirfile' = Paths!Saved(dirs')
    BY <1>11 DEF Paths!Format
  <2>2. dirs[0] \in [name : Name \cup {Root, NoName}, parent : -2 .. MaxSize - 1] /\ dirs[0].parent = -1
    BY <1>r, SlotIs DEF Rooted, Table
  <2>3. Settled(dirs')
    BY <2>1, <2>2, RootAlone
  <2>. QED BY <2>1, <2>3, SavedApart, SavedIs
<1>12. CASE Paths!Quit
  <2>1. dirfile' = Paths!Saved(dirs) /\ dirs' = Paths!Loaded(Paths!Saved(dirs))
    BY <1>12 DEF Paths!Quit, Paths!Boot
  <2>. QED BY <2>1, SavedApart, SavedIs
<1>13. CASE Paths!Crash
  BY <1>13, DeadApart DEF Paths!Crash
<1>14. CASE Paths!Clean
  BY <1>14, FreshIs DEF Paths!Clean, Paths!Boot, Paths!NoDat
<1>. QED BY <1>1, <1>2, <1>3, <1>4, <1>5, <1>6, <1>7, <1>8, <1>9, <1>10, <1>11, <1>12, <1>13, <1>14
         DEF Paths!Next, Paths!FileArg

\* No two directories ever have one parent and one name (SiblingsApart), if no
\* name is the end of another one: mv takes a new path that ends with the name.
THEOREM PathsNameOne == OwnEnds /\ DiskSpec => []SiblingsApart
<1>. SUFFICES ASSUME OwnEnds PROVE DiskSpec => []SiblingsApart
  OBVIOUS
<1>1. DiskInit => NamesApart
  <2>1. SUFFICES ASSUME DiskInit, part = "names" PROVE Settled(dirs) /\ dirfile = <<>>
    BY DEF NamesApart
  <2>. QED BY <2>1, FreshIs DEF DiskInit, Paths!Init, Paths!NoDat
<1>2. NamesApart /\ [DiskNext]_<<vars, nameVars, view, part>> => NamesApart'
  <2>1. SUFFICES ASSUME NamesApart, [DiskNext]_<<vars, nameVars, view, part>>, part' = "names"
                 PROVE  Settled(dirs') /\ (dirfile' # <<>> => Settled(dirfile'))
    BY DEF NamesApart
  <2>2. CASE UNCHANGED <<vars, nameVars, view, part>>
    BY <2>1, <2>2 DEF NamesApart, nameVars
  <2>3. CASE DiskNext
    <3>1. part = "names" /\ Paths!Next
      BY <2>1, <2>3 DEF DiskNext
    <3>. QED BY <2>1, <3>1, NamesApartStep DEF NamesApart
  <2>. QED BY <2>1, <2>2, <2>3
<1>3. NamesApart => SiblingsApart
  BY DEF NamesApart, Settled, Apart, SiblingsApart, Paths!SiblingsApart
<1>. QED BY <1>1, <1>2, <1>3, PTL DEF DiskSpec
-----------------------------------------------------------------------------
(* Directories: what is on disk starts.                                    *)

\* Two paths are one for m names.
SamePath(p, q, m) == \A j \in 1 .. m : p[j] = q[j]

\* The directories of t are those of u too.
SameDirs(t, u) == \A i \in Paths!Dirs(t) : u[i] = t[i]

\* Only one path leads to a directory.
LEMMA LongerMeets ==
  ASSUME NEW t, Rooted(t), NEW p, NEW q, NEW m \in Nat, NEW n \in Nat, m <= n,
         NEW b, Leads(t, p, m, b), NEW c, Leads(t, q, n, c), b[m] = c[n]
  PROVE  m = n /\ SamePath(p, q, m)
<1>. DEFINE S == {j \in 0 .. m : b[m - j] = c[n - j]}
<1>1. 0 \in S
  OBVIOUS
<1>2. ASSUME NEW j \in 0 .. m - 1, j \in S
      PROVE  j + 1 \in S
  <2>1. /\ m - j \in 1 .. m /\ n - j \in 1 .. n /\ j + 1 \in 0 .. m
        /\ m - (j + 1) = (m - j) - 1 /\ n - (j + 1) = (n - j) - 1
    OBVIOUS
  <2>2. t[b[m - j]].parent = b[(m - j) - 1] /\ t[c[n - j]].parent = c[(n - j) - 1]
    BY <2>1 DEF Leads
  <2>. QED BY <1>2, <2>1, <2>2
<1>3. 0 .. m \subseteq S
  <2>. HIDE DEF S
  <2>. QED BY <1>1, <1>2, CountUp
<1>4. \A j \in 0 .. m : b[m - j] = c[n - j]
  BY <1>3
<1>5. n = m
  <2>1. SUFFICES ASSUME n # m PROVE FALSE
    OBVIOUS
  <2>2. n - m \in 1 .. n /\ (n - m) - 1 \in 0 .. n /\ m \in 0 .. m /\ m - m = 0
    BY <2>1
  <2>3. c[n - m] = 0
    BY <1>4, <2>2 DEF Leads
  <2>4. t[0].parent = c[(n - m) - 1] /\ c[(n - m) - 1] \in Paths!Dirs(t)
    BY <2>2, <2>3 DEF Leads
  <2>. QED BY <2>4, RootIs, DirsAre, SlotIs DEF Rooted
<1>6. ASSUME NEW j \in 1 .. m
      PROVE  p[j] = q[j]
  <2>1. m - j \in 0 .. m /\ m - (m - j) = j
    OBVIOUS
  <2>2. b[j] = c[j]
    BY <1>4, <1>5, <2>1
  <2>. QED BY <1>5, <2>2 DEF Leads
<1>. QED BY <1>5, <1>6 DEF SamePath

\* ... whichever of the two is given first.
LEMMA ChainsMeet ==
  ASSUME NEW t, Rooted(t), NEW p, NEW q, NEW m \in Nat, NEW n \in Nat,
         NEW b, Leads(t, p, m, b), NEW c, Leads(t, q, n, c), b[m] = c[n]
  PROVE  m = n /\ SamePath(p, q, m)
<1>1. CASE m <= n
  BY <1>1, LongerMeets
<1>2. CASE n <= m
  BY <1>2, LongerMeets DEF SamePath
<1>. QED BY <1>1, <1>2

\* The directories that lead to one that was there were there too.
LEMMA OldLead ==
  ASSUME NEW t, Rooted(t), NEW u, Rooted(u), SameDirs(t, u),
         NEW q, NEW n \in Nat, NEW c, Leads(u, q, n, c), NEW j \in 0 .. n, c[j] \in Paths!Dirs(t)
  PROVE  \E b : Leads(t, q, j, b) /\ b[j] = c[j]
<1>. DEFINE S == {k \in 0 .. j : c[j - k] \in Paths!Dirs(t)}
<1>1. 0 \in S
  OBVIOUS
<1>2. ASSUME NEW k \in 0 .. j - 1, k \in S
      PROVE  k + 1 \in S
  <2>1. j - k \in 1 .. n /\ k + 1 \in 0 .. j /\ j - (k + 1) = (j - k) - 1 /\ (j - k) - 1 \in 0 .. n
    OBVIOUS
  <2>2. c[j - k] \in Paths!Dirs(t) /\ u[c[j - k]].parent = c[(j - k) - 1]
        /\ c[(j - k) - 1] \in Paths!Dirs(u)
    BY <1>2, <2>1 DEF Leads
  <2>3. t[c[j - k]].parent = c[(j - k) - 1] /\ c[(j - k) - 1] # -1
    BY <2>2, SlotIs, RootIs DEF SameDirs
  <2>4. c[(j - k) - 1] \in Paths!Dirs(t)
    BY <2>2, <2>3 DEF Rooted
  <2>. QED BY <2>1, <2>4
<1>3. 0 .. j \subseteq S
  <2>. HIDE DEF S
  <2>. QED BY <1>1, <1>2, CountUp
<1>4. ASSUME NEW k \in 0 .. j PROVE c[k] \in Paths!Dirs(t)
  <2>1. j - k \in 0 .. j /\ j - (j - k) = k
    OBVIOUS
  <2>. QED BY <1>3, <2>1
<1>. DEFINE b == [k \in 0 .. j |-> c[k]]
<1>5. b \in [0 .. j -> Paths!Dirs(t)] /\ b[0] = 0 /\ b[j] = c[j]
  BY <1>4 DEF Leads
<1>6. ASSUME NEW k \in 1 .. j
      PROVE  t[b[k]].parent = b[k - 1] /\ t[b[k]].name = q[k]
  <2>1. k \in 0 .. j /\ k - 1 \in 0 .. j /\ k \in 1 .. n
    OBVIOUS
  <2>2. u[c[k]].parent = c[k - 1] /\ u[c[k]].name = q[k] /\ c[k] \in Paths!Dirs(t)
    BY <1>4, <2>1 DEF Leads
  <2>. QED BY <2>1, <2>2 DEF SameDirs
<1>. HIDE DEF b
<1>. QED BY <1>5, <1>6 DEF Leads

\* A directory that mv moves is not on the way to its new parent, if it is not
\* moved into itself.
LEMMA MvApart ==
  ASSUME NEW t, Rooted(t), NEW path \in Seq(Name), NEW new_path \in Seq(Name),
         NEW d, NEW target, NEW a, NEW u, MvMoves(t, path, new_path, d, target, a, u),
         ~Paths!IsPrefix(path, target),
         NEW c, Leads(a.table, Paths!Front(target), Len(Paths!Front(target)), c),
         NEW j \in 0 .. Len(Paths!Front(target))
  PROVE  c[j] # d
<1>. DEFINE front == Paths!Front(target)
            len == Len(front)
            size == Len(path)
<1>1. SUFFICES ASSUME c[j] = d PROVE FALSE
  OBVIOUS
<1>2. /\ d \in Paths!Dirs(t) \ {0} /\ target \in Seq(Name) /\ target # <<>> /\ front \in Seq(Name)
      /\ Rooted(a.table)
  BY MvMovesOne
<1>3. SameDirs(t, a.table)
  <2>1. AddsTo(a, t, front)
    BY <1>2, AddKeeps DEF MvMoves
  <2>. QED BY <2>1 DEF AddsTo, SameDirs
<1>4. /\ len \in Nat /\ size \in Nat /\ Len(target) \in Nat /\ len = Len(target) - 1
      /\ \A k \in 1 .. len : front[k] = target[k]
  <2>1. /\ Len(target) \in Nat \ {0} /\ Len(front) = Len(target) - 1
        /\ \A k \in 1 .. Len(target) - 1 : front[k] = target[k]
    BY <1>2, FrontIs
  <2>. QED BY <2>1
<1>5. PICK b : Leads(t, path, size, b) /\ b[size] = d
  BY FindLeads DEF MvMoves
<1>. HIDE DEF front, len, size
<1>6. Leads(a.table, front, len, c) /\ j \in 0 .. len
  BY DEF front, len
<1>7. PICK b2 : Leads(t, front, j, b2) /\ b2[j] = d
  <2>1. c[j] \in Paths!Dirs(t)
    BY <1>1, <1>2
  <2>2. len \in Nat /\ j \in 0 .. len /\ Leads(a.table, front, len, c)
    BY <1>4, <1>6
  <2>3. Rooted(a.table)
    BY <1>2
  <2>4. \E b2 : Leads(t, front, j, b2) /\ b2[j] = c[j]
    BY <1>3, <2>1, <2>2, <2>3, OldLead
  <2>. QED BY <1>1, <2>4
<1>8. size = j /\ SamePath(path, front, size)
  <2>1. j \in Nat /\ size \in Nat
    BY <1>4, <1>6
  <2>2. Leads(t, path, size, b) /\ Leads(t, front, j, b2) /\ b[size] = b2[j]
    BY <1>5, <1>7
  <2>. QED BY <2>1, <2>2, ChainsMeet
<1>9. size <= Len(target) /\ \A k \in 1 .. size : path[k] = target[k]
  BY <1>4, <1>6, <1>8 DEF SamePath
<1>10. Paths!IsPrefix(path, target)
  <2>1. Paths!IsPrefix(path, target) <=>
          Len(path) <= Len(target) /\ SubSeq(path, 1, Len(path)) = SubSeq(target, 1, Len(path))
    BY DEF Paths!IsPrefix
  <2>2. SubSeq(path, 1, size) = SubSeq(target, 1, size)
    <3>1. SubSeq(path, 1, size) = [k \in 1 .. size |-> path[k]]
      BY <1>4 DEF size
    <3>2. SubSeq(target, 1, size) = [k \in 1 .. size |-> target[k]]
      BY <1>2, <1>4, <1>9
    <3>. QED BY <1>9, <3>1, <3>2
  <2>. QED BY <1>9, <2>1, <2>2 DEF size
<1>. QED BY <1>10

\* A directory that is not moved into itself leaves every directory further down
\* than its parent.
LEMMA MvRanked ==
  ASSUME NEW t, Rooted(t), Ranked(t), NEW path \in Seq(Name), NEW new_path \in Seq(Name),
         NEW d, NEW target, NEW a, NEW u, MvMoves(t, path, new_path, d, target, a, u),
         ~Paths!IsPrefix(path, target)
  PROVE  Ranked(u)
<1>. DEFINE q == Paths!Front(target)
            n == Len(q)
            old == a.table
<1>1. /\ d \in Paths!Dirs(t) \ {0} /\ target \in Seq(Name) /\ target # <<>> /\ q \in Seq(Name)
      /\ Rooted(old) /\ d \in Paths!Dirs(old) /\ a.dir \in Paths!Dirs(old)
      /\ Paths!Dirs(u) = Paths!Dirs(old)
  BY MvMovesOne
<1>2. Ranked(old) /\ \E c : Leads(old, q, n, c) /\ c[n] = a.dir
  <2>1. AddsTo(a, t, q)
    BY <1>1, AddKeeps DEF MvMoves
  <2>. QED BY <2>1 DEF AddsTo, MvMoves
<1>3. PICK c : Leads(old, q, n, c) /\ c[n] = a.dir
  BY <1>2
<1>4. \A j \in 0 .. n : c[j] # d
  BY <1>3, MvApart
<1>5. PICK rank \in [Paths!Slot -> Nat] : \A i \in Paths!Dirs(old) \ {0} : rank[old[i].parent] < rank[i]
  BY <1>2 DEF Ranked
<1>6. u[d].parent = a.dir /\ \A i \in Paths!Dirs(old) \ {d} : u[i] = old[i]
  BY MvMovesOne
<1>7. n \in Nat
  BY <1>1
<1>. HIDE DEF q, n, old
<1>. DEFINE A == {c[j] : j \in 0 .. n}
            R == rank[a.dir]
            new == [i \in Paths!Slot |-> IF i \in A THEN rank[i] ELSE rank[i] + R + 1]
<1>8. d \notin A /\ a.dir \in A
  <2>1. n \in 0 .. n
    BY <1>7
  <2>. QED BY <1>3, <1>4, <2>1
<1>9. Paths!Dirs(old) \subseteq Paths!Slot
  BY <1>1, RootIs
<1>10. R \in Nat /\ \A i \in Paths!Slot : rank[i] \in Nat
  BY <1>1, <1>9
<1>11. new \in [Paths!Slot -> Nat]
  <2>. HIDE DEF A, R
  <2>1. \A i \in Paths!Slot : rank[i] + R + 1 \in Nat
    BY <1>10
  <2>. QED BY <1>10, <2>1
<1>12. ASSUME NEW i \in Paths!Dirs(old) \ {0}, i \in A
       PROVE  old[i].parent \in A
  <2>1. PICK j \in 0 .. n : i = c[j]
    BY <1>12
  <2>2. j \in 1 .. n /\ j - 1 \in 0 .. n
    BY <1>3, <1>7, <1>12, <2>1 DEF Leads
  <2>3. old[c[j]].parent = c[j - 1]
    BY <1>3, <2>2 DEF Leads
  <2>. QED BY <2>1, <2>2, <2>3
<1>13. ASSUME NEW i \in Paths!Dirs(u) \ {0}
       PROVE  new[u[i].parent] < new[i]
  <2>1. i \in Paths!Dirs(old) \ {0} /\ i \in Paths!Slot
    BY <1>1, <1>9, <1>13
  <2>2. CASE i = d
    <3>1. u[i].parent = a.dir /\ a.dir \in Paths!Slot
      BY <1>1, <1>6, <1>9, <2>2
    <3>2. new[i] = rank[i] + R + 1 /\ new[a.dir] = R
      BY <1>8, <2>1, <2>2, <3>1
    <3>. HIDE DEF new, A, R
    <3>. QED BY <1>10, <2>1, <3>1, <3>2
  <2>3. CASE i # d
    <3>. DEFINE p == old[i].parent
    <3>1. u[i].parent = p /\ p \in Paths!Dirs(old) /\ p \in Paths!Slot
      BY <1>1, <1>6, <1>9, <2>1, <2>3 DEF Rooted
    <3>2. rank[p] < rank[i]
      BY <1>5, <2>1
    <3>3. i \in A => p \in A
      BY <1>12, <2>1
    <3>4. /\ new[i] = IF i \in A THEN rank[i] ELSE rank[i] + R + 1
          /\ new[p] = IF p \in A THEN rank[p] ELSE rank[p] + R + 1
      BY <2>1, <3>1
    <3>. HIDE DEF new, A, R, p
    <3>. QED BY <1>10, <2>1, <3>1, <3>2, <3>3, <3>4
  <2>. QED BY <2>2, <2>3
<1>. HIDE DEF new
<1>. QED BY <1>11, <1>13 DEF Ranked

\* dirtree_path: the paths of the entries, as far as k parents up.
Words == Seq(Name \cup {Root, NoName})
UpFirst == [d \in Paths!Slot |-> IF d = 0 THEN <<>> ELSE Paths!NoPath]
UpOne(t, g) ==
  [d \in Paths!Slot |->
     IF d = 0 THEN <<>>
     ELSE IF t[d].parent \notin Paths!Dirs(t) \/ g[t[d].parent] = Paths!NoPath THEN Paths!NoPath
     ELSE Append(g[t[d].parent], t[d].name)]
Climbs(h, t, n) ==
  /\ h \in [0 .. n -> [Paths!Slot -> Words]] /\ h[0] = UpFirst
  /\ \A k \in 1 .. n : h[k] = UpOne(t, h[k - 1])

\* One parent further up.
LEMMA UpOneIs ==
  ASSUME NEW t \in Table, NEW g \in [Paths!Slot -> Words]
  PROVE  UpOne(t, g) \in [Paths!Slot -> Words]
<1>. DEFINE Names == Name \cup {Root, NoName}
            up_(d) == IF d = 0 THEN <<>>
                      ELSE IF t[d].parent \notin Paths!Dirs(t) \/ g[t[d].parent] = Paths!NoPath
                        THEN Paths!NoPath
                      ELSE Append(g[t[d].parent], t[d].name)
<1>1. Paths!Dirs(t) \subseteq Paths!Slot
  BY DirsAre
<1>2. ASSUME NEW d \in Paths!Slot
      PROVE  up_(d) \in Words
  <2>1. t[d].name \in Names
    BY DEF Table
  <2>2. <<>> \in Words /\ Paths!NoPath \in Words
    <3>1. NoName \in Names
      OBVIOUS
    <3>. HIDE DEF Names
    <3>. QED BY <3>1 DEF Words, Names, Paths!NoPath
  <2>3. CASE t[d].parent \in Paths!Dirs(t)
    <3>1. g[t[d].parent] \in Words
      BY <1>1, <2>3
    <3>2. Append(g[t[d].parent], t[d].name) \in Words
      <4>. HIDE DEF Names
      <4>. QED BY <2>1, <3>1 DEF Words, Names
    <3>. QED BY <2>2, <3>2
  <2>4. CASE t[d].parent \notin Paths!Dirs(t)
    BY <2>2, <2>4
  <2>. QED BY <2>3, <2>4
<1>3. UpOne(t, g) = [d \in Paths!Slot |-> up_(d)]
  BY DEF UpOne
<1>. HIDE DEF up_
<1>. QED BY <1>2, <1>3

\* The climb starts with what is known without a step.
LEMMA UpFirstIs == UpFirst \in [Paths!Slot -> Words]
<1>1. <<>> \in Words /\ Paths!NoPath \in Words
  BY DEF Words, Paths!NoPath
<1>. QED BY <1>1 DEF UpFirst

\* One climbs as far as one likes.
LEMMA ClimbExists ==
  ASSUME NEW t \in Table, NEW n \in Nat
  PROVE  \E h : Climbs(h, t, n)
<1>. DEFINE V == [Paths!Slot -> Words]
            F == [x \in V \X (1 .. n) |-> UpOne(t, x[1])]
            base == UpFirst
<1>1. base \in V
  BY UpFirstIs
<1>2. F \in [V \X (1 .. n) -> V]
  <2>1. ASSUME NEW x \in V \X (1 .. n) PROVE UpOne(t, x[1]) \in V
    BY UpOneIs
  <2>. HIDE DEF V
  <2>. QED BY <2>1
<1>3. PICK h : Loops(h, F, base, V, n)
  <2>1. \E h : Loops(h, F, base, V, n)
    <3>. HIDE DEF V, F, base
    <3>. QED BY <1>1, <1>2, LoopExists
  <2>. QED BY <2>1
<1>4. ASSUME NEW k \in 1 .. n
      PROVE  h[k] = UpOne(t, h[k - 1])
  <2>1. k - 1 \in 0 .. n
    OBVIOUS
  <2>2. h[k] = F[<<h[k - 1], k>>] /\ h[k - 1] \in V
    <3>. HIDE DEF F, V
    <3>. QED BY <1>3, <2>1 DEF Loops
  <2>. HIDE DEF V
  <2>. QED BY <2>2
<1>5. h \in [0 .. n -> V] /\ h[0] = UpFirst
  BY <1>3 DEF Loops
<1>. QED BY <1>4, <1>5 DEF Climbs

\* Two climbs are one as far as both go.
LEMMA ClimbsAgree ==
  ASSUME NEW t, NEW m \in Nat, NEW n \in Nat, m <= n, NEW g, Climbs(g, t, m), NEW h, Climbs(h, t, n)
  PROVE  g[m] = h[m]
<1>. DEFINE S == {k \in 0 .. m : g[k] = h[k]}
<1>1. 0 \in S
  BY DEF Climbs
<1>2. ASSUME NEW k \in 0 .. m - 1, k \in S
      PROVE  k + 1 \in S
  <2>1. k + 1 \in 1 .. m /\ k + 1 \in 1 .. n /\ (k + 1) - 1 = k /\ k + 1 \in 0 .. m
    OBVIOUS
  <2>2. g[k + 1] = UpOne(t, g[k]) /\ h[k + 1] = UpOne(t, h[k])
    BY <2>1 DEF Climbs
  <2>. QED BY <1>2, <2>1, <2>2
<1>3. 0 .. m \subseteq S
  <2>. HIDE DEF S
  <2>. QED BY <1>1, <1>2, CountUp
<1>. QED BY <1>3

\* dirtree_path climbs.
Ups(u, t) ==
  u = [k \in Nat |->
         [d \in Paths!Slot |->
            IF d = 0 THEN <<>>
            ELSE IF k = 0 \/ t[d].parent \notin Paths!Dirs(t) THEN Paths!NoPath
            ELSE LET rest == u[k - 1][t[d].parent]
                 IN IF rest = Paths!NoPath THEN Paths!NoPath ELSE Append(rest, t[d].name)]]

\* There is a sequence that holds, for every k, the names met in k steps.
LEMMA UpsExists ==
  ASSUME NEW t \in Table
  PROVE  \E u : Ups(u, t)
<1>. DEFINE c(k) == CHOOSE h : Climbs(h, t, k)
            u == [k \in Nat |-> [d \in Paths!Slot |-> c(k)[k][d]]]
<1>1. \A k \in Nat : Climbs(c(k), t, k)
  BY ClimbExists
<1>. HIDE DEF c
<1>2. ASSUME NEW k \in Nat, NEW d \in Paths!Slot
      PROVE  u[k][d] = IF d = 0 THEN <<>>
                       ELSE IF k = 0 \/ t[d].parent \notin Paths!Dirs(t) THEN Paths!NoPath
                       ELSE IF u[k - 1][t[d].parent] = Paths!NoPath THEN Paths!NoPath
                       ELSE Append(u[k - 1][t[d].parent], t[d].name)
  <2>1. \A j \in Nat : \A e \in Paths!Slot : u[j][e] = c(j)[j][e]
    OBVIOUS
  <2>. HIDE DEF u
  <2>2. CASE k = 0
    <3>1. c(0)[0] = UpFirst
      BY <1>1 DEF Climbs
    <3>. QED BY <2>1, <2>2, <3>1 DEF UpFirst
  <2>3. CASE k # 0
    <3>1. k - 1 \in Nat /\ k \in 1 .. k
      BY <2>3
    <3>2. c(k)[k] = UpOne(t, c(k)[k - 1])
      BY <1>1, <3>1 DEF Climbs
    <3>3. c(k - 1)[k - 1] = c(k)[k - 1]
      BY <1>1, <3>1, ClimbsAgree
    <3>. DEFINE g == c(k - 1)[k - 1]
                p == t[d].parent
    <3>4. u[k][d] = UpOne(t, g)[d]
      BY <2>1, <3>2, <3>3
    <3>5. p \in Paths!Dirs(t) => u[k - 1][p] = g[p]
      BY <2>1, <3>1, DirsAre
    <3>. HIDE DEF g
    <3>. QED BY <2>3, <3>4, <3>5 DEF UpOne
  <2>. QED BY <2>2, <2>3
<1>3. Ups(u, t)
  BY <1>2, Zenon DEF Ups
<1>. QED BY <1>3

\* What dirtree_path does with an entry.
Upwards(u, t) ==
  \A k \in Nat : \A d \in Paths!Slot :
    u[k][d] = IF d = 0 THEN <<>>
              ELSE IF k = 0 \/ t[d].parent \notin Paths!Dirs(t) THEN Paths!NoPath
              ELSE IF u[k - 1][t[d].parent] = Paths!NoPath THEN Paths!NoPath
              ELSE Append(u[k - 1][t[d].parent], t[d].name)

\* dirtree_path of an entry is what MaxSize steps of such a sequence meet.
LEMMA PathOfIs ==
  ASSUME NEW t \in Table
  PROVE  \E u : Upwards(u, t) /\ \A d \in Paths!Slot : Paths!PathOf(t, d) = u[MaxSize][d]
<1>. DEFINE u == CHOOSE v : Ups(v, t)
<1>1. Ups(u, t)
  BY UpsExists
<1>2. \A d : Paths!PathOf(t, d) = u[MaxSize][d]
  BY DEF Paths!PathOf, Ups
<1>. HIDE DEF u
<1>3. Upwards(u, t)
  <2>1. ASSUME NEW k \in Nat PROVE u[k] = [d \in Paths!Slot |->
            IF d = 0 THEN <<>>
            ELSE IF k = 0 \/ t[d].parent \notin Paths!Dirs(t) THEN Paths!NoPath
            ELSE LET rest == u[k - 1][t[d].parent]
                 IN IF rest = Paths!NoPath THEN Paths!NoPath ELSE Append(rest, t[d].name)]
    BY <1>1, Zenon DEF Ups
  <2>2. ASSUME NEW k \in Nat, NEW d \in Paths!Slot
        PROVE  u[k][d] = IF d = 0 THEN <<>>
                         ELSE IF k = 0 \/ t[d].parent \notin Paths!Dirs(t) THEN Paths!NoPath
                         ELSE IF u[k - 1][t[d].parent] = Paths!NoPath THEN Paths!NoPath
                         ELSE Append(u[k - 1][t[d].parent], t[d].name)
    <3>1. u[k][d] = IF d = 0 THEN <<>>
                    ELSE IF k = 0 \/ t[d].parent \notin Paths!Dirs(t) THEN Paths!NoPath
                    ELSE LET rest == u[k - 1][t[d].parent]
                         IN IF rest = Paths!NoPath THEN Paths!NoPath ELSE Append(rest, t[d].name)
      BY <2>1, ZenonT(40)
    <3>. QED BY <3>1, Zenon
  <2>. QED BY <2>2, Zenon DEF Upwards
<1>. QED BY <1>2, <1>3

\* A path with one more name is the path of something.
LEMMA LongerPath ==
  ASSUME NEW w \in Words, NEW n \in Name
  PROVE  Append(w, n) \in Words /\ Append(w, n) # Paths!NoPath
<1>. DEFINE Names == Name \cup {Root, NoName}
            m == Len(w)
<1>1. n \in Names /\ n # NoName
  BY PathsAssumption DEF Paths!DirTreeAssumption
<1>. HIDE DEF Names
<1>2. w \in Seq(Names)
  BY DEF Words, Names
<1>3. Append(w, n) \in Seq(Names) /\ Len(Append(w, n)) = m + 1 /\ Append(w, n)[m + 1] = n /\ m \in Nat
  BY <1>1, <1>2
<1>4. ASSUME Append(w, n) = <<NoName>> PROVE FALSE
  <2>1. m + 1 = 1
    BY <1>3, <1>4
  <2>2. n = NoName
    BY <1>3, <1>4, <2>1
  <2>. QED BY <1>1, <2>2
<1>. QED BY <1>3, <1>4 DEF Words, Names, Paths!NoPath

\* A table has as many entries as that.
LEMMA SlotFinite == IsFiniteSet(Paths!Slot) /\ Cardinality(Paths!Slot) = MaxSize
<1>1. MaxSize - 1 \in Int /\ 0 \in Int /\ MaxSize \in Nat /\ MaxSize # 0
  BY PathsAssumption DEF Paths!DirTreeAssumption
<1>2. IsFiniteSet(0 .. MaxSize - 1) /\ Cardinality(0 .. MaxSize - 1) = MaxSize
  BY <1>1, FS_Interval
<1>. QED BY <1>2, SlotIs

\* dirtree_path climbs from every directory to the root, when each is further
\* down than its parent.
LEMMA PathReaches ==
  ASSUME NEW t, Rooted(t), Ranked(t), NEW i \in Paths!Dirs(t)
  PROVE  Paths!PathOf(t, i) # Paths!NoPath
<1>1. t \in Table /\ Paths!Dirs(t) \subseteq Paths!Slot /\ 0 \in Paths!Dirs(t)
  BY RootIs DEF Rooted
<1>2. PICK u : Upwards(u, t) /\ \A d \in Paths!Slot : Paths!PathOf(t, d) = u[MaxSize][d]
  BY <1>1, PathOfIs
<1>3. PICK rank \in [Paths!Slot -> Nat] : \A d \in Paths!Dirs(t) \ {0} : rank[t[d].parent] < rank[d]
  BY DEF Ranked
<1>. DEFINE Lower(d) == {e \in Paths!Dirs(t) \ {0} : rank[e] <= rank[d]}
            Named(k, d) == u[k][d] \in Words /\ u[k][d] # Paths!NoPath
            S == {k \in 0 .. MaxSize :
                    \A d \in Paths!Dirs(t) : d = 0 \/ Cardinality(Lower(d)) <= k => Named(k, d)}
<1>4. MaxSize \in Nat
  BY SlotIs
<1>5. \A d : Lower(d) \subseteq Paths!Slot /\ IsFiniteSet(Lower(d)) /\ Cardinality(Lower(d)) \in 0 .. MaxSize
  <2>1. ASSUME NEW d PROVE Lower(d) \subseteq Paths!Slot
    BY <1>1
  <2>. HIDE DEF Lower
  <2>. QED BY <1>4, <2>1, SlotFinite, FS_Subset, FS_CardinalityType
<1>6. \A d \in Paths!Dirs(t) \ {0} : d \in Lower(d)
  BY <1>1, <1>3
<1>7. \A k \in Nat : Named(k, 0)
  <2>1. \A k \in Nat : u[k][0] = <<>>
    BY <1>1, <1>2 DEF Upwards
  <2>2. <<>> \in Words /\ <<>> # Paths!NoPath
    BY DEF Words, Paths!NoPath
  <2>. QED BY <2>1, <2>2
<1>8. 0 \in S
  <2>1. ASSUME NEW d \in Paths!Dirs(t) \ {0} PROVE ~ (Cardinality(Lower(d)) <= 0)
    <3>1. d \in Lower(d)
      BY <1>6
    <3>. HIDE DEF Lower
    <3>. QED BY <1>5, <3>1, FS_EmptySet
  <2>. HIDE DEF Lower, Named
  <2>. QED BY <1>4, <1>7, <2>1
<1>9. ASSUME NEW k \in 0 .. MaxSize - 1, k \in S
      PROVE  k + 1 \in S
  <2>1. k \in Nat /\ k + 1 \in Nat /\ k + 1 \in 0 .. MaxSize /\ (k + 1) - 1 = k /\ k + 1 # 0
    BY <1>4
  <2>2. ASSUME NEW d \in Paths!Dirs(t) \ {0}, Cardinality(Lower(d)) <= k + 1
        PROVE  Named(k + 1, d)
    <3>. DEFINE p == t[d].parent
    <3>1. p \in Paths!Dirs(t) /\ t[d].name \in Name /\ d \in Paths!Slot
      BY <1>1, <2>2 DEF Rooted
    <3>2. rank[p] < rank[d] /\ rank[p] \in Nat /\ rank[d] \in Nat
      BY <1>1, <1>3, <2>2, <3>1
    <3>3. Lower(p) \subseteq Lower(d) \ {d}
      <4>1. \A e \in Lower(p) : rank[e] \in Nat
        BY <1>1
      <4>. HIDE DEF p
      <4>. QED BY <3>2, <4>1
    <3>4. Cardinality(Lower(p)) <= k
      <4>1. d \in Lower(d)
        BY <1>6
      <4>. HIDE DEF Lower, p
      <4>2. IsFiniteSet(Lower(d) \ {d}) /\ Cardinality(Lower(d) \ {d}) = Cardinality(Lower(d)) - 1
        BY <1>5, <4>1, FS_RemoveElement
      <4>3. Cardinality(Lower(p)) <= Cardinality(Lower(d) \ {d})
        BY <3>3, <4>2, FS_Subset
      <4>. QED BY <1>5, <2>1, <2>2, <4>2, <4>3
    <3>5. Named(k, p)
      <4>. HIDE DEF Lower, Named, p
      <4>. QED BY <1>9, <3>1, <3>4
    <3>6. u[k + 1][d] = IF u[k][p] = Paths!NoPath THEN Paths!NoPath ELSE Append(u[k][p], t[d].name)
      <4>1. u[k + 1][d] = IF d = 0 THEN <<>>
              ELSE IF k + 1 = 0 \/ t[d].parent \notin Paths!Dirs(t) THEN Paths!NoPath
              ELSE IF u[(k + 1) - 1][t[d].parent] = Paths!NoPath THEN Paths!NoPath
              ELSE Append(u[(k + 1) - 1][t[d].parent], t[d].name)
        BY <1>2, <2>1, <3>1, Zenon DEF Upwards
      <4>. QED BY <2>1, <2>2, <3>1, <4>1
    <3>. HIDE DEF p
    <3>. QED BY <3>1, <3>5, <3>6, LongerPath
  <2>3. Named(k + 1, 0)
    BY <1>7, <2>1
  <2>. HIDE DEF Lower, Named
  <2>. QED BY <2>1, <2>2, <2>3
<1>10. 0 .. MaxSize \subseteq S
  <2>. HIDE DEF S
  <2>. QED BY <1>4, <1>8, <1>9, CountUp
<1>11. MaxSize \in S
  <2>. HIDE DEF S
  <2>. QED BY <1>4, <1>10
<1>12. Named(MaxSize, i)
  <2>. HIDE DEF Lower, Named
  <2>. QED BY <1>5, <1>11
<1>. QED BY <1>1, <1>2, <1>12

\* A start reads a table with these local directories to the end.
Reads(t, local) == Rooted(t) /\ Ranked(t) /\ Paths!Dirs(t) \subseteq local

\* The FileSystem could start with the table in memory and, but between the two
\* steps of rm -d, with the one on disk.
CanStart ==
  /\ starts /\ Reads(dirs, rdirs)
  /\ dirfile # <<>> /\ pending.op # "rmdir" => Reads(dirfile, rdirs)
  /\ known \/ dirfile = <<>>
  /\ pending.op = "rmdir" => known
NamesStart == part = "names" => CanStart

\* The bounds leave out the ways to a table that cannot be read: a directory
\* moved into itself, and deaths within rm -d and before nodos.bin is written.
Careful == ~IntoItself /\ "rmdir" \notin CrashAt /\ "early" \notin CrashAt

\* What is read lets the FileSystem start.
LEMMA ReadsUp ==
  ASSUME NEW t, NEW local, Reads(t, local)
  PROVE  Paths!Readable(t, local)
  BY PathReaches DEF Reads, Paths!Readable

\* More local directories do no harm.
LEMMA ReadsMore ==
  ASSUME NEW t, NEW local, Reads(t, local), NEW made
  PROVE  Reads(t, local \cup made)
  BY DEF Reads

\* The first table is read.
LEMMA ReadsFresh ==
  ASSUME NEW local, 0 \in local
  PROVE  Reads(Paths!Fresh, local)
  BY FreshIs DEF Reads, Settled

\* A start.
LEMMA BootUp ==
  ASSUME NEW d, NEW local, NEW found, NEW nodes_, 0 \in local, d # <<>> => Reads(d, local),
         Paths!Boot(Paths!Loaded(d), local, found, nodes_)
  PROVE  starts' /\ Reads(dirs', local) /\ pending'.op = "idle" /\ known' = nodes_
<1>1. Reads(Paths!Loaded(d), local)
  BY ReadsFresh DEF Paths!Loaded, Paths!NoDat
<1>2. starts' = Paths!Readable(Paths!Loaded(d), local) /\ dirs' = Paths!Loaded(d)
      /\ pending' = [op |-> "idle"] /\ known' = nodes_
  BY DEF Paths!Boot, Paths!Idle
<1>. QED BY <1>1, <1>2, ReadsUp

\* A death, but within rm -d, and the start after it.
LEMMA DeadStarts ==
  ASSUME Careful, CanStart, pending.op # "rmdir", NEW made, NEW nodes_, Paths!Dead(made, nodes_)
  PROVE  CanStart'
<1>1. 0 \in rdirs
  BY RootIs DEF CanStart, Reads
<1>2. /\ nodes_ /\ dirfile' = dirfile /\ rdirs' = rdirs \cup made
      /\ Paths!Boot(Paths!Loaded(dirfile), rdirs \cup made, ondisk, nodes_)
  BY DEF Paths!Dead, Careful
<1>3. dirfile # <<>> => Reads(dirfile, rdirs \cup made)
  BY ReadsMore DEF CanStart
<1>. DEFINE local == rdirs \cup made
<1>4. starts' /\ Reads(dirs', local) /\ pending'.op = "idle" /\ known' = nodes_
  <2>1. 0 \in local
    BY <1>1
  <2>2. Paths!Boot(Paths!Loaded(dirfile), local, ondisk, nodes_) /\ (dirfile # <<>> => Reads(dirfile, local))
    BY <1>2, <1>3
  <2>. HIDE DEF local
  <2>. QED BY <2>1, <2>2, BootUp
<1>. QED BY <1>2, <1>3, <1>4 DEF CanStart

\* What dirtree_add leaves.
LEMMA AddedStarts ==
  ASSUME CanStart, known, pending.op # "rmdir", NEW path \in Seq(Name),
         dirs' = Paths!Add(dirs, path).table, Paths!Added(Paths!Add(dirs, path), path),
         starts' = starts, known' = known, pending'.op # "rmdir"
  PROVE  CanStart'
<1>. DEFINE a == Paths!Add(dirs, path)
<1>1. AddsTo(a, dirs, path)
  BY AddKeeps DEF CanStart, Reads
<1>2. rdirs' = rdirs \cup a.made /\ dirfile' \in {dirfile, dirs'}
  BY DEF Paths!Added, Paths!Saved
<1>3. Reads(dirs', rdirs')
  BY <1>1, <1>2 DEF AddsTo, CanStart, Reads
<1>4. dirfile # <<>> => Reads(dirfile, rdirs')
  BY <1>2, ReadsMore DEF CanStart
<1>. QED BY <1>2, <1>3, <1>4 DEF CanStart

\* mv of a directory.
LEMMA MvDirStarts ==
  ASSUME Careful, CanStart, NEW p \in Paths!DirArg, NEW q \in Paths!Arg, Paths!MvDir(p, q)
  PROVE  CanStart'
<1>. DEFINE d == Paths!Find(dirs, p)
            target == Paths!Target(dirs[d].name, q)
            a == Paths!Add(dirs, Paths!Front(target))
            moved == [a.table EXCEPT ![d].parent = a.dir]
<1>1. p \in Seq(Name) /\ q \in Seq(Name) /\ d # -1
  BY ArgIs DEF Paths!DirArg, Paths!NoDir
<1>2. /\ known /\ pending = Paths!Idle /\ pending.op # "rmdir"
      /\ d # 0 /\ ~Paths!IsPrefix(p, target)
  BY DEF Paths!MvDir, Paths!Command, Paths!Idle, Careful
<1>3. \/ /\ a.ok /\ a.dir # -1 /\ dirs' = moved /\ dirfile' = Paths!Saved(moved)
         /\ rdirs' = rdirs \cup a.made /\ starts' = starts /\ known' = known /\ pending' = pending
      \/ Paths!Dead(a.made, listed)
  BY DEF Paths!MvDir, Paths!NoDir
<1>4. CASE Paths!Dead(a.made, listed)
  BY <1>2, <1>4, DeadStarts
<1>5. CASE /\ a.ok /\ a.dir # -1 /\ dirs' = moved /\ dirfile' = Paths!Saved(moved)
           /\ rdirs' = rdirs \cup a.made /\ starts' = starts /\ known' = known /\ pending' = pending
  <2>1. MvMoves(dirs, p, q, d, target, a, moved)
    BY <1>1, <1>2, <1>5 DEF MvMoves
  <2>2. dirfile' = moved
    BY <1>2, <1>5 DEF Paths!Saved
  <2>3. Rooted(dirs) /\ Ranked(dirs) /\ Paths!Dirs(dirs) \subseteq rdirs
    BY DEF CanStart, Reads
  <2>. HIDE DEF d, target, a, moved
  <2>4. Rooted(moved) /\ Paths!Dirs(moved) = Paths!Dirs(a.table) /\ Paths!Front(target) \in Seq(Name)
    BY <1>1, <2>1, <2>3, MvMovesOne
  <2>5. Ranked(moved)
    BY <1>1, <1>2, <2>1, <2>3, MvRanked
  <2>6. AddsTo(a, dirs, Paths!Front(target))
    BY <2>3, <2>4, AddKeeps DEF a
  <2>7. Paths!Dirs(moved) \subseteq rdirs \cup a.made
    BY <2>3, <2>4, <2>6 DEF AddsTo
  <2>. QED BY <1>2, <1>5, <2>2, <2>4, <2>5, <2>7 DEF CanStart, Reads
<1>. QED BY <1>3, <1>4, <1>5

\* rename of a directory.
LEMMA RenameDirStarts ==
  ASSUME CanStart, NEW p \in Paths!DirArg, NEW n \in Name, Paths!RenameDir(p, n)
  PROVE  CanStart'
<1>. DEFINE d == Paths!Find(dirs, p)
<1>1. p \in Seq(Name) /\ d # -1
  BY ArgIs DEF Paths!DirArg, Paths!NoDir
<1>2. /\ known /\ pending = Paths!Idle
      /\ d # 0 /\ Paths!Find(dirs, Append(Paths!Front(p), n)) = -1
      /\ dirs' = [dirs EXCEPT ![d].name = n] /\ dirfile' = Paths!Saved(dirs')
      /\ known' = known /\ rdirs' = rdirs /\ starts' = starts /\ pending' = pending
  BY DEF Paths!RenameDir, Paths!NameTaken, Paths!Command, Paths!NoDir
<1>3. Rooted(dirs) /\ Ranked(dirs) /\ Paths!Dirs(dirs) \subseteq rdirs
  BY DEF CanStart, Reads
<1>. HIDE DEF d
<1>4. Renames(dirs, d, n, dirs')
  BY <1>1, <1>2, <1>3, RenameFree DEF d
<1>5. Reads(dirs', rdirs')
  <2>1. Rooted(dirs') /\ Ranked(dirs') /\ Paths!Dirs(dirs') = Paths!Dirs(dirs)
    BY <1>3, <1>4, RenamedIs
  <2>. QED BY <1>2, <1>3, <2>1 DEF Reads
<1>6. dirfile' = dirs'
  BY <1>2 DEF Paths!Saved
<1>. QED BY <1>2, <1>5, <1>6 DEF CanStart

\* rm -d, of a directory without children.
LEMMA RmDirStarts ==
  ASSUME CanStart, NEW p \in Paths!DirArg, Paths!RmDir(p)
  PROVE  CanStart'
<1>. DEFINE d == Paths!Find(dirs, p)
<1>1. p \in Seq(Name) /\ d # -1
  BY ArgIs DEF Paths!DirArg, Paths!NoDir
<1>2. /\ known /\ known' = known /\ starts' = starts /\ pending' = [op |-> "rmdir"]
      /\ Paths!Children(dirs, d) = {}
      /\ \/ d = 0 /\ dirs' = dirs /\ rdirs' = rdirs
         \/ d # 0 /\ dirs' = [dirs EXCEPT ![d] = Paths!Free] /\ rdirs' = rdirs \ {d}
  BY DEF Paths!RmDir, Paths!Command, Paths!Empty
<1>3. Rooted(dirs) /\ Ranked(dirs) /\ Paths!Dirs(dirs) \subseteq rdirs
  BY DEF CanStart, Reads
<1>4. d \in Paths!Dirs(dirs)
  BY <1>1, <1>3, FoundIs
<1>. HIDE DEF d
<1>5. Reads(dirs', rdirs')
  <2>1. CASE d = 0
    BY <1>2, <1>3, <2>1 DEF Reads
  <2>2. CASE d # 0
    <3>1. Rooted(dirs') /\ Ranked(dirs') /\ Paths!Dirs(dirs') = Paths!Dirs(dirs) \ {d}
      BY <1>2, <1>3, <1>4, <2>2, FreedIs
    <3>. QED BY <1>2, <1>3, <2>2, <3>1 DEF Reads
  <2>. QED BY <2>1, <2>2
<1>. QED BY <1>2, <1>5 DEF CanStart

\* format, which leaves the root alone.
LEMMA FormatStarts ==
  ASSUME CanStart, Paths!Format
  PROVE  CanStart'
<1>1. /\ pending = Paths!Idle /\ pending' = pending /\ known' /\ starts' = starts
      /\ dirs' = [i \in Paths!Slot |-> IF i = 0 THEN dirs[0] ELSE Paths!Free]
      /\ dirfile' = Paths!Saved(dirs') /\ rdirs' = rdirs \ (Paths!Slot \ {0})
  BY DEF Paths!Format
<1>2. Rooted(dirs) /\ 0 \in rdirs
  BY RootIs DEF CanStart, Reads
<1>3. dirs[0] \in [name : Name \cup {Root, NoName}, parent : -2 .. MaxSize - 1] /\ dirs[0].parent = -1
  BY <1>2, SlotIs DEF Rooted, Table
<1>4. Settled(dirs') /\ Ranked(dirs') /\ Paths!Dirs(dirs') = {0}
  BY <1>1, <1>3, RootAlone
<1>5. Reads(dirs', rdirs')
  BY <1>1, <1>2, <1>4 DEF Reads, Settled
<1>6. dirfile' = dirs' \/ dirfile' = <<>>
  BY <1>1 DEF Paths!Saved, CanStart
<1>. QED BY <1>1, <1>5, <1>6 DEF CanStart, Paths!Idle

\* Leaving the program, which saves the table, and the start after it.
LEMMA QuitStarts ==
  ASSUME CanStart, Paths!Quit
  PROVE  CanStart'
<1>1. /\ pending = Paths!Idle /\ rdirs' = rdirs /\ dirfile' = Paths!Saved(dirs)
      /\ Paths!Boot(Paths!Loaded(Paths!Saved(dirs)), rdirs, ondisk, Paths!NodosSaved)
  BY DEF Paths!Quit
<1>2. Paths!NodosSaved = (listed \/ known)
  BY DEF Paths!NodosSaved
<1>3. 0 \in rdirs
  BY RootIs DEF CanStart, Reads
<1>4. Paths!Saved(dirs) # <<>> => Reads(Paths!Saved(dirs), rdirs)
  BY <1>1 DEF Paths!Saved, CanStart, Paths!Idle
<1>5. starts' /\ Reads(dirs', rdirs) /\ pending'.op = "idle" /\ known' = Paths!NodosSaved
  BY <1>1, <1>3, <1>4, BootUp
<1>6. known' \/ dirfile' = <<>>
  BY <1>1, <1>2, <1>5 DEF Paths!Saved, CanStart
<1>. QED BY <1>1, <1>4, <1>5, <1>6 DEF CanStart

\* Every command, and every end and start of the FileSystem, leaves something it
\* can start with.
LEMMA NamesStartStep ==
  ASSUME Careful, CanStart, Paths!Next
  PROVE  CanStart'
<1>i. pending = Paths!Idle => pending.op = "idle"
  BY DEF Paths!Idle
<1>1. ASSUME NEW p \in Paths!Arg, Paths!Mkdir(p) PROVE CanStart'
  <2>1. p \in Seq(Name)
    BY ArgIs
  <2>2. /\ known /\ pending.op = "idle"
        /\ \/ /\ dirs' = Paths!Add(dirs, p).table /\ Paths!Added(Paths!Add(dirs, p), p)
              /\ starts' = starts /\ known' = known /\ pending' = pending
           \/ Paths!Dead(Paths!Add(dirs, p).made, listed)
    BY <1>i, <1>1 DEF Paths!Mkdir, Paths!Command
  <2>. QED BY <2>1, <2>2, AddedStarts, DeadStarts
<1>2. ASSUME NEW p \in Paths!NewArg, NEW f \in File, Paths!Store(p, f) PROVE CanStart'
  <2>. DEFINE q == Paths!Front(p)
  <2>1. q \in Seq(Name)
    BY ArgIs, FrontIs
  <2>2. /\ known /\ pending.op = "idle"
        /\ \/ /\ dirs' = Paths!Add(dirs, q).table /\ Paths!Added(Paths!Add(dirs, q), q)
              /\ starts' = starts /\ known' = known /\ pending' = pending
           \/ Paths!Dead(Paths!Add(dirs, q).made, TRUE)
    BY <1>i, <1>2 DEF Paths!Store, Paths!Command
  <2>. QED BY <2>1, <2>2, AddedStarts, DeadStarts
<1>3. ASSUME NEW p \in Paths!NewArg, NEW q \in Paths!Arg, Paths!MvFile(p, q) PROVE CanStart'
  <2>. DEFINE target == Paths!Target(Paths!Last(p), q)
              r == Paths!Front(target)
  <2>1. Paths!Last(p) \in Name /\ q \in Seq(Name)
    BY ArgIs, FrontIs
  <2>2. target \in Seq(Name)
    BY <2>1, TargetIs
  <2>. HIDE DEF target
  <2>3. r \in Seq(Name)
    BY <2>2, FrontIs
  <2>4. /\ known /\ pending.op = "idle"
        /\ \/ /\ dirs' = Paths!Add(dirs, r).table /\ Paths!Added(Paths!Add(dirs, r), r)
              /\ starts' = starts /\ known' = known /\ pending'.op = "move"
           \/ Paths!Dead(Paths!Add(dirs, r).made, listed)
    <3>1. \A from, to : Paths!Copy(from, to) => pending'.op = "move"
      BY DEF Paths!Copy
    <3>2. /\ known /\ pending = Paths!Idle
          /\ \/ /\ dirs' = Paths!Add(dirs, r).table /\ Paths!Added(Paths!Add(dirs, r), r)
                /\ starts' = starts /\ known' = known
                /\ Paths!Copy(Paths!RealPath(dirs, p), Paths!RealPath(Paths!Add(dirs, r).table, target))
             \/ Paths!Dead(Paths!Add(dirs, r).made, listed)
      BY <1>3 DEF Paths!MvFile, Paths!Command, target
    <3>. QED BY <1>i, <3>1, <3>2
  <2>. QED BY <2>3, <2>4, AddedStarts, DeadStarts
<1>4. ASSUME NEW p, NEW n, Paths!RenameFile(p, n) PROVE CanStart'
  BY <1>i, <1>4 DEF Paths!RenameFile, Paths!Command, Paths!Copy, Paths!mem, CanStart
<1>5. ASSUME NEW p, Paths!RmFile(p) PROVE CanStart'
  BY <1>5 DEF Paths!RmFile, CanStart
<1>6. CASE Paths!RmDirSave
  <2>1. /\ pending.op = "rmdir" /\ pending' = Paths!Idle /\ dirs' = dirs /\ known' = known
        /\ rdirs' = rdirs /\ starts' = starts /\ dirfile' = Paths!Saved(dirs)
    BY <1>6 DEF Paths!RmDirSave, Paths!mem
  <2>2. dirfile' = dirs
    BY <2>1 DEF Paths!Saved, CanStart
  <2>. QED BY <2>1, <2>2 DEF CanStart, Paths!Idle
<1>7. CASE Paths!MoveDone
  BY <1>7 DEF Paths!MoveDone, CanStart, Paths!Idle
<1>8. CASE Paths!Crash
  <2>1. pending.op \in CrashAt /\ Paths!Dead({}, listed)
    BY <1>8 DEF Paths!Crash
  <2>. QED BY <2>1, DeadStarts DEF Careful
<1>9. CASE Paths!Clean
  <2>1. /\ dirfile' = <<>> /\ rdirs' = {0}
        /\ Paths!Boot(Paths!Loaded(<<>>), {0}, <<>>, FALSE)
    BY <1>9 DEF Paths!Clean, Paths!Loaded, Paths!NoDat
  <2>. DEFINE local == {0}
  <2>2. starts' /\ Reads(dirs', local) /\ pending'.op = "idle"
    <3>1. 0 \in local /\ Paths!Boot(Paths!Loaded(<<>>), local, <<>>, FALSE)
      BY <2>1
    <3>. HIDE DEF local
    <3>. QED BY <3>1, BootUp
  <2>. QED BY <2>1, <2>2 DEF CanStart
<1>. QED BY <1>1, <1>2, <1>3, <1>4, <1>5, <1>6, <1>7, <1>8, <1>9,
            MvDirStarts, RenameDirStarts, RmDirStarts, FormatStarts, QuitStarts
         DEF Paths!Next, Paths!FileArg

\* What is on disk always lets the FileSystem start (StartsUp), in the bounds of
\* the run: no directory is moved into itself, and no death falls within rm -d or
\* before nodos.bin is written.
THEOREM DiskStarts == Careful /\ DiskSpec => []StartsUp
<1>. SUFFICES ASSUME Careful PROVE DiskSpec => []StartsUp
  OBVIOUS
<1>1. DiskInit => NamesStart
  <2>1. SUFFICES ASSUME DiskInit, part = "names" PROVE CanStart
    BY DEF NamesStart
  <2>2. /\ dirs = Paths!Fresh /\ dirfile = <<>> /\ rdirs = {0} /\ starts /\ pending = Paths!Idle
    BY <2>1 DEF DiskInit, Paths!Init, Paths!NoDat
  <2>3. Reads(dirs, rdirs)
    BY <2>2, ReadsFresh
  <2>. QED BY <2>2, <2>3 DEF CanStart, Paths!Idle
<1>2. NamesStart /\ [DiskNext]_<<vars, nameVars, view, part>> => NamesStart'
  <2>1. SUFFICES ASSUME NamesStart, [DiskNext]_<<vars, nameVars, view, part>>, part' = "names"
                 PROVE  CanStart'
    BY DEF NamesStart
  <2>2. CASE UNCHANGED <<vars, nameVars, view, part>>
    BY <2>1, <2>2 DEF NamesStart, CanStart, nameVars
  <2>3. CASE DiskNext
    <3>1. part = "names" /\ Paths!Next
      BY <2>1, <2>3 DEF DiskNext
    <3>. QED BY <2>1, <3>1, NamesStartStep DEF NamesStart
  <2>. QED BY <2>1, <2>2, <2>3
<1>3. NamesStart => StartsUp
  BY DEF NamesStart, CanStart, StartsUp, Paths!StartsUp
<1>. QED BY <1>1, <1>2, <1>3, PTL DEF DiskSpec
=============================================================================
