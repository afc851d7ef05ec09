------------------------------ MODULE ReadFile ------------------------------
(***************************************************************************)
(* cat, cpto and md5: the console asks every block of a file from one of   *)
(* its DataNodes, the datanode_handler threads put the answers into the    *)
(* block file, the last of them wakes the console, and the console puts    *)
(* the file together (filetable.c receive_file, filetable_writeblock).     *)
(*                                                                         *)
(* A ping is one step, as in BlockStore.  A block is received whole or not *)
(* at all (module PacketStream has what is received of a packet that is    *)
(* cut), and no store runs during a read: it would use the same block file.*)
(***************************************************************************)
EXTENDS FileCut, FiniteSets

CONSTANTS
  Node,      \* the DataNodes
  Files,     \* the files that may be stored
  CopyOf(_, _), \* CopyOf(i, c): the place of copy c of block i, or NoLoc
  MaxReads, MaxDrops, MaxStarts,  \* bounds
  NoLoc, NoBlock, NoFile

\* A file of lines, or one of bytes (count_file_blocks).
IsFile(f) ==
  \/ f = TextFile(f.pieces) /\ f.pieces \in Seq(Nat \ {0})
  \/ f = BinFile(SizeOf(f)) /\ SizeOf(f) \in Nat

\* Two blocks of a file have no place in common (NoSharing of BlockStore).
ASSUME ReadAssumption ==
  /\ NoLoc \notin [node : Node, blockno : Nat]
  /\ \A f \in Files :
       /\ IsFile(f)
       /\ \A i, j \in 0 .. Len(Partition(f)) - 1, c, d \in {0, 1} :
            /\ CopyOf(i, c) \in [node : Node, blockno : Nat] \cup {NoLoc}
            /\ CopyOf(i, c) = CopyOf(j, d) => i = j \/ CopyOf(i, c) = NoLoc

VARIABLES
  file,      \* the file that is stored
  pc,        \* control point of the console
  next,      \* the block receive_block is called for
  copy,      \* the copy it chose
  map,       \* the block file: what is at the place of each block
  current,   \* bfile.current
  sleep,     \* the console's sem_sleep
  shown,     \* the file the last command put together
  lost,      \* some block asked for in this read will not come
  handler,   \* node->handler # NULL
  hpc,       \* control point of each handler
  op,        \* the block number each handler was sent or is serving
  answer,    \* what each DataNode answered, on its way or received
  up,        \* the connection of each DataNode
  reads, drops, starts  \* commands, connections lost and starts (bounds)

consoleVars == <<pc, next, copy, shown>>
blockVars   == <<map, current, sleep>>
handlerVars == <<handler, hpc, op, answer>>
boundVars   == <<reads, drops, starts>>
vars == <<file, consoleVars, blockVars, lost, handlerVars, up, boundVars>>
-----------------------------------------------------------------------------
Sizes == file.sizes
Blocks == 0 .. Len(Sizes) - 1
Garbage == [k \in 1 .. BlockSize |-> Pad]

\* What the DataNodes have, as the store left it.
OnDisk(l) ==
  file.data[CHOOSE i \in Blocks : l \in {CopyOf(i, 0), CopyOf(i, 1)}]

\* The handler of n has done all it was asked.
Quiet(n) == hpc[n] = "receive" /\ op[n] = NoBlock

Init ==
  /\ file \in {Stored(f) : f \in Files}
  /\ pc = "idle" /\ next = 0 /\ copy = NoLoc /\ shown = NoFile
  /\ map = <<>> /\ current = 0 /\ sleep = 0 /\ lost = FALSE
  /\ handler = [n \in Node |-> TRUE] /\ hpc = [n \in Node |-> "receive"]
  /\ op = [n \in Node |-> NoBlock] /\ answer = [n \in Node |-> NoBlock]
  /\ up = [n \in Node |-> TRUE]
  /\ reads = 0 /\ drops = 0 /\ starts = 0
-----------------------------------------------------------------------------
(* The console.                                                            *)

\* bfile.current = 0 of reset_block_file.
ResetCount == current' = 0

\* cmd_cat, cmd_cpto, cmd_md5, up to reset_block_file: the block file is made as
\* long as the blocks of the file are, and holds what it held before.
Read ==
  /\ pc = "idle" /\ reads < MaxReads /\ reads' = reads + 1
  /\ map' = [k \in 1 .. Len(Sizes) |-> IF k <= Len(map) THEN map[k] ELSE Garbage]
  /\ ResetCount
  /\ pc' = "choose" /\ next' = 0 /\ shown' = NoFile
  /\ UNCHANGED <<file, copy, sleep, lost, handlerVars, up, drops, starts>>

Available(i, c) ==
  LET l == CopyOf(i, c) IN l # NoLoc /\ handler[l.node] /\ up[l.node]
First_M(i, c) == Available(i, c) /\ c = 1
\* Copy 1 is preferred.
First(i, c) == Available(i, c) /\ (c = 0 => ~Available(i, 1))

\* first_available_copy: copy 1 is pinged, then copy 0; a node found dead loses
\* its handler.  When neither is in reach both are tried again after a while.
Choose ==
  LET pinged == {CopyOf(next, c) : c \in IF Available(next, 1) THEN {1} ELSE {0, 1}}
      nodes  == {l.node : l \in pinged \ {NoLoc}}
  IN
  /\ pc = "choose" /\ next < Len(Sizes)
  /\ \A n \in nodes : handler[n] => Quiet(n)
  /\ handler' = [n \in Node |-> handler[n] /\ (n \in nodes => up[n])]
  /\ \/ \E c \in {0, 1} : First(next, c) /\ copy' = CopyOf(next, c) /\ pc' = "ask"
     \/ (\A c \in {0, 1} : ~First(next, c)) /\ UNCHANGED <<copy, pc>>
  /\ UNCHANGED <<file, next, shown, blockVars, lost, hpc, op, answer, up, boundVars>>

\* thread_send of the NODE_RECV: lost if the node has no handler any more.
Ask ==
  LET n == copy.node IN
  /\ pc = "ask"
  /\ IF handler[n]
     THEN op[n] = NoBlock /\ op' = [op EXCEPT ![n] = copy.blockno] /\ UNCHANGED lost
     ELSE lost' = TRUE /\ UNCHANGED op
  /\ pc' = "choose" /\ next' = next + 1
  /\ UNCHANGED <<file, copy, shown, blockVars, handler, hpc, answer, up, boundVars>>

\* thread_suspend, and reconstruct_file; the block file is removed.
Rebuild ==
  /\ pc = "choose" /\ next = Len(Sizes)
  /\ sleep > 0 /\ sleep' = sleep - 1
  /\ shown' = Reconstruct(Sizes, FlattenSeq(map))
  /\ map' = <<>> /\ pc' = "idle"
  /\ UNCHANGED <<file, next, copy, current, lost, handlerVars, up, boundVars>>
-----------------------------------------------------------------------------
(* datanode_handler and the DataNode.                                      *)

\* The handler takes the op and the DataNode gets the request and sends the
\* block, unless the connection is lost.
Serve(n) ==
  /\ handler[n] /\ hpc[n] = "receive" /\ op[n] # NoBlock
  /\ hpc' = [hpc EXCEPT ![n] = "wait"]
  /\ answer' = [answer EXCEPT ![n] =
                  IF up[n] THEN OnDisk([node |-> n, blockno |-> op[n]]) ELSE NoBlock]
  /\ UNCHANGED <<file, consoleVars, blockVars, lost, handler, op, up, boundVars>>

\* protocol_receive_packet; the end of the connection is an unknown operation,
\* which nobody is told of.
Receive(n) ==
  /\ hpc[n] = "wait"
  /\ IF answer[n] = NoBlock
     THEN /\ hpc' = [hpc EXCEPT ![n] = "receive"] /\ op' = [op EXCEPT ![n] = NoBlock]
          /\ lost' = TRUE
     ELSE hpc' = [hpc EXCEPT ![n] = "copy"] /\ UNCHANGED <<op, lost>>
  /\ UNCHANGED <<file, consoleVars, blockVars, handler, answer, up, boundVars>>

At_M(n, b) ==
  {i \in Blocks : \E c \in {0, 1} : CopyOf(i, c) # NoLoc /\ CopyOf(i, c).blockno = b}
\* The blocks block_finder accepts: those with a copy at that place.
At(n, b) ==
  {i \in Blocks : \E c \in {0, 1} : CopyOf(i, c) = [node |-> n, blockno |-> b]}

\* filetable_writeblock up to the memcpy, at the place of the first one.
WriteBlock(n) ==
  LET found == At(n, op[n])
      i == CHOOSE k \in found : \A j \in found : k <= j
  IN
  /\ hpc[n] = "copy"
  /\ map' = [map EXCEPT ![i + 1] = answer[n]]
  /\ hpc' = [hpc EXCEPT ![n] = "count"]
  /\ UNCHANGED <<file, consoleVars, current, sleep, lost, handler, op, answer, up, boundVars>>

\* file_done: it is the last block.
IsLast(k) == k = Len(Sizes)
\* The rest of filetable_writeblock, under bfile.mut.
CountBlock(n) ==
  /\ hpc[n] = "count"
  /\ current' = current + 1
  /\ sleep' = IF IsLast(current + 1) THEN sleep + 1 ELSE sleep
  /\ hpc' = [hpc EXCEPT ![n] = "receive"]
  /\ op' = [op EXCEPT ![n] = NoBlock] /\ answer' = [answer EXCEPT ![n] = NoBlock]
  /\ UNCHANGED <<file, consoleVars, map, lost, handler, up, boundVars>>

\* A connection is lost, with the answer that is on its way.
Drop(n) ==
  /\ up[n] /\ drops < MaxDrops /\ drops' = drops + 1
  /\ up' = [up EXCEPT ![n] = FALSE]
  /\ answer' = [answer EXCEPT ![n] = IF hpc[n] = "wait" THEN NoBlock ELSE @]
  /\ UNCHANGED <<file, consoleVars, blockVars, lost, handler, hpc, op, reads, starts>>

\* The DataNode connects again: node_listener pings every node, and the one that
\* connects gets a new handler.
Reconnect(n) ==
  /\ ~up[n]
  /\ \A m \in Node : handler[m] => Quiet(m)
  /\ up' = [up EXCEPT ![n] = TRUE]
  /\ handler' = [m \in Node |-> m = n \/ (handler[m] /\ up[m])]
  /\ UNCHANGED <<file, consoleVars, blockVars, lost, hpc, op, answer, boundVars>>

\* The FileSystem dies, perhaps during a read, and starts again with the block
\* file it left; its DataNodes have to connect again.
Restart ==
  /\ starts < MaxStarts /\ starts' = starts + 1
  /\ pc' = "idle" /\ shown' = NoFile /\ current' = 0 /\ sleep' = 0 /\ lost' = FALSE
  /\ handler' = [n \in Node |-> FALSE] /\ hpc' = [n \in Node |-> "receive"]
  /\ op' = [n \in Node |-> NoBlock] /\ answer' = [n \in Node |-> NoBlock]
  /\ up' = [n \in Node |-> FALSE]
  /\ UNCHANGED <<file, next, copy, map, reads, drops>>
-----------------------------------------------------------------------------
Console == Read \/ Choose \/ Ask \/ Rebuild
Handler(n) == Serve(n) \/ Receive(n) \/ WriteBlock(n) \/ CountBlock(n)

Next ==
  \/ Console \/ Restart
  \/ \E n \in Node : Handler(n) \/ Drop(n) \/ Reconnect(n)

Spec == Init /\ [][Next]_vars

\* The threads and the DataNodes keep running, and a DataNode that lost its
\* connection tries again until it is accepted (DataNode main).
Fairness ==
  /\ WF_vars(Choose) /\ WF_vars(Ask) /\ WF_vars(Rebuild)
  /\ \A n \in Node : WF_vars(Handler(n)) /\ WF_vars(Reconnect(n))
FairSpec == Spec /\ Fairness
-----------------------------------------------------------------------------
(* Properties.                                                             *)

\* A file is cut into as many blocks as were counted before it was, and what a
\* command shows is the file that was stored, byte for byte and in order,
\* whichever copies its blocks came from, in whatever order they came, and
\* whatever the block file held before (count_file_blocks, partition_*_file,
\* filetable_writeblock, receive_file).
ReadsWhole ==
  /\ file.count = Len(Sizes)
  /\ shown # NoFile => shown = Content(file.length)

\* A read ends, unless a DataNode is lost that was asked for a block: then
\* nobody asks for it again (first_available_copy waits for a node to return).
ReadEnds == pc = "choose" /\ next = 0 ~> pc = "idle" \/ lost
=============================================================================
