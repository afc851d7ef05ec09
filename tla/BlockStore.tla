----------------------------- MODULE BlockStore -----------------------------
(***************************************************************************)
(* The block store of the FileSystem process: the node table               *)
(* (nodelist.c), the file table (filetable.c), the threads that use them   *)
(* (the console and the worker_handler threads of server.c), the           *)
(* datanode_handler thread of every DataNode, and the DataNodes' disks.    *)
(*                                                                         *)
(* Granularity.  A step is the code a thread runs between two operations   *)
(* that block or synchronise.  A PING exchange (nodelist.c node_active) is *)
(* one step that waits until the handler has emptied its slot, since the   *)
(* handler answers after what it was sent before; module ThreadMailbox     *)
(* models the exchange itself.  node->free_blocks and the bitmap words are *)
(* not protected by any lock: an allocation and a release on one node that *)
(* overlap are the step RacingFree.                                        *)
(***************************************************************************)
EXTENDS Integers, Sequences, FiniteSetsExt

CONSTANTS
  Node,        \* the DataNodes known to the FileSystem
  Total,       \* Total[n]: blocks of node n (node->total_blocks)
  Storer,      \* worker_handler threads; each serves one request
  Console,     \* the main thread, which runs the operator's commands
  File,        \* yamafs paths
  Wants,       \* Wants[t]: the paths thread t is asked to store
  NumBlocks,   \* NumBlocks[f]: blocks of the content to store under path f
  Base,        \* Base[f]: a path that stands for the name of f (path_name)
  MaxBlocks,   \* bound of NumBlocks
  ConsoleOps,  \* the commands this operator uses
  MaxCmds,     \* bound: commands given on the console
  MaxDrops,    \* bound: connections lost
  NoNode, Nobody, NoFile, NoMsg, Blank, Garbage

Thread == Storer \cup {Console}
Index  == 0 .. MaxBlocks - 1
Holder == File \cup Thread

ASSUME StoreAssumption ==
  /\ IsFiniteSet(Node) /\ NoNode \notin Node
  /\ Total \in [Node -> Nat \ {0}]
  /\ MaxBlocks \in Nat \ {0} /\ NumBlocks \in [File -> 0 .. MaxBlocks]
  /\ Base \in [File -> File]
  /\ Wants \in [Storer \cup {Console} -> SUBSET File]
  /\ Console \notin Storer /\ Nobody \notin Thread /\ File \cap Thread = {}
  /\ NoFile \notin File /\ MaxCmds \in Nat /\ MaxDrops \in Nat
  /\ ConsoleOps \subseteq {"cpfrom", "rm", "rmblock", "cpblock"}

VARIABLES
  bitmap,    \* bitmap[n]: the block numbers marked as used
  free,      \* node->free_blocks
  libre,     \* the <node>Libre entries of nodos.bin
  handler,   \* node->handler # NULL
  mbox,      \* the slot of n's handler thread (thread->data)
  up,        \* the connection of DataNode n works
  wire,      \* blocks sent to n and not yet applied by it
  disk,      \* data.bin of n
  table,     \* the paths in the file table
  src,       \* src[f]: the thread whose local file is stored under f
  copies,    \* Copy(h,i,c): copy c of block i of the t_yfile h
  cpmut,     \* owner of the cpmut mutex
  sent, toSend, waiter, \* bsent.current, bsent.total, bsent.th
  sleep,     \* value of each thread's sem_sleep
  local,     \* local[Base[f]]: the file worker_handlers write what they store to
  pc, path,  \* control point of each thread and the path it works on
  source,    \* the content a thread's block file was cut from
  next, target, saved,  \* add_blocks_from_file: call number, node, counter
  doomed,    \* the copies the console is about to release
  cp, inbox, \* cpblock: its arguments and the block received
  reply,     \* what each storer answered to its worker
  cmds, drops \* commands given, connections lost (bounds)

nodeVars    == <<bitmap, free, libre>>
linkVars    == <<handler, mbox>>
dataVars    == <<up, wire, disk>>
tableVars   == <<table, src, copies>>
countVars   == <<sent, toSend, waiter>>
localVars   == <<next, target, saved, source, local>>
consoleVars == <<doomed, cp, inbox>>
boundVars   == <<cmds, drops>>
vars == <<nodeVars, linkVars, dataVars, tableVars, cpmut, countVars, sleep, pc,
          path, localVars, consoleVars, reply, boundVars>>
-----------------------------------------------------------------------------
\* A t_yfile is either an entry of the table, held under its path, or the one
\* a thread is building: the holders of copies are paths and threads.
Slot == Holder \X Index \X {0, 1}

\* A t_block_copy; NoLoc is {node: NULL, blockno: -1}.
Location == [node : Node, blockno : Int]
NoLoc    == [node |-> NoNode, blockno |-> -1]
Loc(n, b) == [node |-> n, blockno |-> b]

Copy(h, i, c) == copies[<<h, i, c>>]

\* A local file has the content one thread stores under one path.
LocalFile == [by : Thread, file : File]
Blocks(l) == IF l = NoMsg THEN 0 ELSE NumBlocks[l.file]

\* Block i of a local file.
Token(l, i) == [by |-> l.by, file |-> l.file, index |-> i]

\* Definitions whose name ends in _M are plausible mistakes in the definition
\* that follows: each run's properties are tested by putting them in its place.
FirstZero_M(n, b) == b = Total[n] - free[n]
\* b is what bitmap_firstzero returns on the bitmap of n.
FirstZero(n, b) ==
  LET zeros == (0 .. Total[n] - 1) \ bitmap[n]
  IN  IF zeros = {} THEN b = -1 ELSE b \in zeros /\ \A z \in zeros : b <= z
\* The numbers it may return.
Bit(n) == -1 .. Total[n] - 1

Active(n) == handler[n] /\ up[n]

\* node_active on every node of S: the handler of a dead connection ends.
Ping(S) ==
  /\ \A n \in S : handler[n] => mbox[n] = NoMsg
  /\ handler' = [n \in Node |-> handler[n] /\ (n \in S => up[n])]

\* thread_send to the handler of n: lost if there is no handler, else it
\* waits for the slot.
SendTo(n, msg) ==
  IF handler[n] THEN mbox[n] = NoMsg /\ mbox' = [mbox EXCEPT ![n] = msg]
                ELSE UNCHANGED mbox

Goto(t, label) == pc' = [pc EXCEPT ![t] = label]

\* Where filetable_cpfrom returns to.
Return(t) == Goto(t, IF t = Console THEN "idle" ELSE "reply")

MarkNoBit_M(l) == free' = [free EXCEPT ![l.node] = @ - 1] /\ UNCHANGED bitmap
MarkNoCount_M(l) ==
  bitmap' = [bitmap EXCEPT ![l.node] = @ \cup {l.blockno}] /\ UNCHANGED free
\* bitmap_set and free_blocks--; bitmap_unset and free_blocks++.
Mark(l) ==
  /\ bitmap' = [bitmap EXCEPT ![l.node] = @ \cup {l.blockno}]
  /\ free' = [free EXCEPT ![l.node] = @ - 1]
Unmark(l) ==
  /\ bitmap' = [bitmap EXCEPT ![l.node] = @ \ {l.blockno}]
  /\ free' = [free EXCEPT ![l.node] = @ + 1]
\* add_node_to_file: the node's entry in nodos.bin.
SaveNode(n) == libre' = [libre EXCEPT ![n] = free'[n]]
-----------------------------------------------------------------------------
\* A FileSystem restarted on a formatted, empty store whose nodes are connected.
Init ==
  /\ bitmap = [n \in Node |-> {}]
  /\ free = Total /\ libre = Total
  /\ handler = [n \in Node |-> TRUE] /\ mbox = [n \in Node |-> NoMsg]
  /\ up = [n \in Node |-> TRUE] /\ wire = [n \in Node |-> <<>>]
  /\ disk = [n \in Node |-> [b \in 0 .. Total[n] - 1 |-> Blank]]
  /\ table = {} /\ src = [f \in File |-> Nobody]
  /\ copies = [s \in Slot |-> NoLoc]
  /\ cpmut = Nobody
  /\ sent = 0 /\ toSend = 0 /\ waiter = Nobody
  /\ sleep = [t \in Thread |-> 0]
  /\ pc = [t \in Thread |-> IF t = Console THEN "idle" ELSE "new"]
  /\ path = [t \in Thread |-> NoFile]
  /\ local = [f \in File |-> NoMsg] /\ source = [t \in Thread |-> NoMsg]
  /\ next = [t \in Thread |-> 0]
  /\ target = [t \in Thread |-> NoNode]
  /\ saved = [t \in Thread |-> 0]
  /\ doomed = {} /\ cp = NoMsg /\ inbox = NoMsg
  /\ reply = [t \in Storer |-> "none"]
  /\ cmds = 0 /\ drops = 0
-----------------------------------------------------------------------------
(* filetable_cpfrom, run by a storer or by the console.                    *)

\* worker_handler: refuse a path that is in the table.
Request(t, f) ==
  /\ pc[t] = "new" /\ f \in Wants[t]
  /\ path' = [path EXCEPT ![t] = f]
  /\ IF f \in table
     THEN reply' = [reply EXCEPT ![t] = "error"] /\ Goto(t, "done")
     ELSE UNCHANGED reply /\ Goto(t, "write")
  /\ UNCHANGED <<nodeVars, linkVars, dataVars, tableVars, cpmut, countVars, sleep,
                 localVars, consoleVars, boundVars>>

\* It writes the content to a local file with the name of the path.
WriteLocal(t) ==
  /\ pc[t] = "write"
  /\ local' = [local EXCEPT ![Base[path[t]]] = [by |-> t, file |-> path[t]]]
  /\ Goto(t, "lock")
  /\ UNCHANGED <<nodeVars, linkVars, dataVars, tableVars, cpmut, countVars, sleep,
                 path, next, target, saved, source, consoleVars, reply, boundVars>>

Lock_M(t) ==
  /\ pc[t] = "lock"
  /\ cpmut' = t /\ Goto(t, "plan")
  /\ UNCHANGED <<nodeVars, linkVars, dataVars, tableVars, countVars, sleep, path,
                 localVars, consoleVars, reply, boundVars>>
\* filetable_cpfrom takes cpmut.
Lock(t) ==
  /\ pc[t] = "lock" /\ cpmut = Nobody
  /\ cpmut' = t /\ Goto(t, "plan")
  /\ UNCHANGED <<nodeVars, linkVars, dataVars, tableVars, countVars, sleep, path,
                 localVars, consoleVars, reply, boundVars>>

\* nodelist_freeblocks, after its pings.
FreeBlocks == MapThenSumSet(LAMBDA n : free[n], {n \in Node : Active(n)})

\* What file_open finds; the operator's local files are not the workers'.
LocalOf(t) ==
  IF t = Console THEN [by |-> t, file |-> path[t]] ELSE local[Base[path[t]]]

Expected_M(blocks) == 2 * blocks
\* bsent.total for a file of that many blocks.
Expected(blocks) == Min({FreeBlocks, 2 * blocks})

\* add_blocks_from_file up to the distribution: a file is accepted when its
\* blocks fit once.
Plan(t) ==
  LET blocks == Blocks(LocalOf(t)) IN
  /\ pc[t] = "plan" /\ (blocks > 0 \/ FreeBlocks < blocks)
  /\ Ping(Node)
  /\ waiter' = t /\ sent' = 0
  /\ toSend' = Expected(blocks)
  /\ next' = [next EXCEPT ![t] = 0] /\ saved' = [saved EXCEPT ![t] = 0]
  /\ source' = [source EXCEPT ![t] = LocalOf(t)]
  /\ IF FreeBlocks < blocks
     THEN cpmut' = Nobody /\ Return(t)
     ELSE UNCHANGED cpmut /\ Goto(t, "send")
  /\ UNCHANGED <<nodeVars, mbox, dataVars, tableVars, sleep, path, target, local,
                 consoleVars, reply, boundVars>>

\* An empty block file cannot be mapped, and the FileSystem exits (file_map):
\* the content is empty, or another thread removed the local file, which
\* file_open then creates.
Abort(t) ==
  /\ pc[t] = "plan" /\ Blocks(LocalOf(t)) = 0 /\ FreeBlocks >= 0
  /\ \A n \in Node : handler[n] => mbox[n] = NoMsg
  /\ handler' = [n \in Node |-> FALSE]
  /\ pc' = [u \in Thread |-> "exit"] /\ doomed' = {}
  /\ UNCHANGED <<nodeVars, mbox, dataVars, tableVars, cpmut, countVars, sleep, path,
                 localVars, cp, inbox, reply, boundVars>>

\* The block of the send_block call a thread is in: two passes over the file.
Current(t) == next[t] % Blocks(source[t])

\* balance_node: the emptiest active nodes other than the first copy's node.
\* A node is pinged unless an active one before it in the list is emptier; the
\* order of the list is left open, so Q is any set that order allows.
Emptier(n, m) == free[n] * Total[m] >= free[m] * Total[n]
Others_M(t) == Node
Others(t) == Node \ {Copy(t, Current(t), 0).node}
Balance(t) ==
  LET others == Others(t)
      active == {n \in others : Active(n)}
      top    == {n \in others : \A m \in active : Emptier(n, m)}
      best   == {n \in top : Active(n)}
  IN
  /\ pc[t] = "send" /\ next[t] < 2 * Blocks(source[t])
  /\ \E Q \in SUBSET others : top \subseteq Q /\ Ping(Q)
  /\ IF best = {}
     THEN /\ next' = [next EXCEPT ![t] = @ + 1]
          /\ UNCHANGED <<target, pc>>
     ELSE /\ \E n \in best : target' = [target EXCEPT ![t] = n]
          /\ Goto(t, "alloc") /\ UNCHANGED next
  /\ UNCHANGED <<nodeVars, mbox, dataVars, tableVars, cpmut, countVars, sleep, path,
                 saved, source, local, consoleVars, reply, boundVars>>

\* The copy nodelist_addblock fills: 0 unless the block already has one.
Half(t) == IF Copy(t, Current(t), 0) = NoLoc THEN 0 ELSE 1

\* nodelist_addblock from the check of free_blocks to thread_send.
Full(t) ==
  /\ pc[t] = "alloc" /\ free[target[t]] = 0
  /\ next' = [next EXCEPT ![t] = @ + 1] /\ Goto(t, "send")
  /\ UNCHANGED <<nodeVars, linkVars, dataVars, tableVars, cpmut, countVars, sleep,
                 path, target, saved, source, local, consoleVars, reply, boundVars>>

Alloc(t) ==
  LET n == target[t] IN
  /\ pc[t] = "alloc" /\ free[n] # 0
  /\ \E b \in Bit(n) :
       /\ FirstZero(n, b)
       /\ Mark(Loc(n, b))
       /\ copies' = [copies EXCEPT ![<<t, Current(t), Half(t)>>] = Loc(n, b)]
  /\ SaveNode(n)
  /\ Goto(t, "deliver")
  /\ UNCHANGED <<linkVars, dataVars, table, src, cpmut, countVars, sleep, path,
                 localVars, consoleVars, reply, boundVars>>

\* Block i of the mapped block file, which a thread cuts once.
Block(t, i) == Token(source[t], i)

\* thread_send of the NODE_SEND; the block counts as saved in any case.
Deliver(t) ==
  LET i == Current(t)
      l == IF Copy(t, i, 1) # NoLoc THEN Copy(t, i, 1) ELSE Copy(t, i, 0)
  IN
  /\ pc[t] = "deliver"
  /\ SendTo(target[t], [op |-> "send", blockno |-> l.blockno, from |-> t,
                        content |-> Block(t, i)])
  /\ saved' = [saved EXCEPT ![t] = @ + 1]
  /\ next' = [next EXCEPT ![t] = @ + 1]
  /\ Goto(t, "send")
  /\ UNCHANGED <<nodeVars, handler, dataVars, tableVars, cpmut, countVars, sleep,
                 path, target, source, local, consoleVars, reply, boundVars>>

\* add_blocks_from_file from thread_suspend on, filetable_add (which ignores a
\* path that is in the table) and the unlock.
Success(t) ==
  /\ saved[t] = toSend
  /\ Blocks(source[t]) <= saved[t] /\ saved[t] <= 2 * Blocks(source[t])
Added_M(t) == Success(t)
Added(t) == Success(t) /\ path[t] \notin table
Finish(t) ==
  LET f == path[t]
      added == Added(t)
  IN
  /\ pc[t] = "send" /\ next[t] = 2 * Blocks(source[t])
  /\ sleep[t] > 0 /\ sleep' = [sleep EXCEPT ![t] = @ - 1]
  /\ table' = IF added THEN table \cup {f} ELSE table
  /\ src' = IF added THEN [src EXCEPT ![f] = t] ELSE src
  /\ copies' = [s \in Slot |->
                  CASE s[1] = t -> NoLoc
                    [] s[1] = f /\ added -> Copy(t, s[2], s[3])
                    [] OTHER -> copies[s]]
  /\ cpmut' = Nobody /\ Return(t)
  /\ UNCHANGED <<nodeVars, linkVars, dataVars, countVars, path, localVars,
                 consoleVars, reply, boundVars>>

\* worker_handler after filetable_cpfrom: remove the local file and respond.
Reply(t) ==
  /\ pc[t] = "reply"
  /\ reply' = [reply EXCEPT ![t] = IF path[t] \in table THEN "ok" ELSE "error"]
  /\ local' = [local EXCEPT ![Base[path[t]]] = NoMsg]
  /\ Goto(t, "done")
  /\ UNCHANGED <<nodeVars, linkVars, dataVars, tableVars, cpmut, countVars, sleep,
                 path, next, target, saved, source, consoleVars, boundVars>>
-----------------------------------------------------------------------------
(* The console's commands.                                                 *)

Command(op) ==
  /\ pc[Console] = "idle" /\ op \in ConsoleOps
  /\ cmds < MaxCmds /\ cmds' = cmds + 1

\* cmd_cpfrom does not look for the path in the table.
CmdCpfrom(f) ==
  /\ Command("cpfrom") /\ f \in Wants[Console]
  /\ path' = [path EXCEPT ![Console] = f] /\ Goto(Console, "lock")
  /\ UNCHANGED <<nodeVars, linkVars, dataVars, tableVars, cpmut, countVars, sleep,
                 localVars, consoleVars, reply, drops>>

\* cmd_rm of a file: filetable_remove releases its copies one by one.
CmdRm(f) ==
  /\ Command("rm") /\ f \in table
  /\ path' = [path EXCEPT ![Console] = f] /\ Goto(Console, "rm")
  /\ doomed' = {s \in Slot : s[1] = f /\ copies[s] # NoLoc}
  /\ UNCHANGED <<nodeVars, linkVars, dataVars, tableVars, cpmut, countVars, sleep,
                 localVars, cp, inbox, reply, drops>>

RmCopy(s) ==
  /\ pc[Console] = "rm" /\ s \in doomed
  /\ Unmark(copies[s]) /\ SaveNode(copies[s].node)
  /\ doomed' = doomed \ {s}
  /\ UNCHANGED <<linkVars, dataVars, tableVars, cpmut, countVars, sleep, pc, path,
                 localVars, cp, inbox, reply, boundVars>>

RmEnd ==
  LET f == path[Console] IN
  /\ pc[Console] = "rm" /\ doomed = {}
  /\ table' = table \ {f} /\ src' = [src EXCEPT ![f] = Nobody]
  /\ copies' = [s \in Slot |-> IF s[1] = f THEN NoLoc ELSE copies[s]]
  /\ Goto(Console, "idle")
  /\ UNCHANGED <<nodeVars, linkVars, dataVars, cpmut, countVars, sleep, path,
                 localVars, consoleVars, reply, boundVars>>

Removable_M(s) == copies[s] # NoLoc
Removable(s) == Copy(s[1], s[2], 0) # NoLoc /\ Copy(s[1], s[2], 1) # NoLoc

\* cmd_rm -b refuses the last copy; filetable_rm_block does not save the node.
CmdRmBlock(s) ==
  /\ Command("rmblock") /\ s[1] \in table
  /\ Removable(s)
  /\ doomed' = {s} /\ Goto(Console, "rmb")
  /\ UNCHANGED <<nodeVars, linkVars, dataVars, tableVars, cpmut, countVars, sleep,
                 path, localVars, cp, inbox, reply, drops>>

RmBlock(s) ==
  /\ pc[Console] = "rmb" /\ s \in doomed
  /\ Unmark(copies[s]) /\ copies' = [copies EXCEPT ![s] = NoLoc]
  /\ doomed' = {} /\ Goto(Console, "idle")
  /\ UNCHANGED <<libre, linkVars, dataVars, table, src, cpmut, countVars, sleep,
                 path, localVars, cp, inbox, reply, boundVars>>

\* A data race: the console's update of a node's bitmap and counter overlaps
\* the allocation of t on that node, and either update of each may be lost.
RacingFree(t, s) ==
  LET n == target[t]
      r == copies[s].blockno
      removing == pc[Console] = "rmb"
  IN
  /\ pc[t] = "alloc" /\ t # Console /\ free[n] # 0
  /\ pc[Console] \in {"rm", "rmb"} /\ s \in doomed /\ copies[s].node = n
  /\ \E b \in Bit(n) :
       /\ FirstZero(n, b)
       /\ \E B \in {bitmap[n] \cup {b}, bitmap[n] \ {r}, (bitmap[n] \cup {b}) \ {r}} :
            bitmap' = [bitmap EXCEPT ![n] = B]
       /\ copies' = [copies EXCEPT ![<<t, Current(t), Half(t)>>] = Loc(n, b),
                                   ![s] = IF removing THEN NoLoc ELSE @]
  /\ \E d \in {-1, 0, 1} : free' = [free EXCEPT ![n] = @ + d]
  /\ \E d \in {-1, 0, 1} : libre' = [libre EXCEPT ![n] = free[n] + d]
  /\ doomed' = doomed \ {s}
  /\ pc' = [pc EXCEPT ![t] = "deliver", ![Console] = IF removing THEN "idle" ELSE @]
  /\ UNCHANGED <<linkVars, dataVars, table, src, cpmut, countVars, sleep, path,
                 localVars, cp, inbox, reply, boundVars>>

Copyable_M(f, i, c, n) == Copy(f, i, 1 - c) = NoLoc
\* Block i of f has copy c, its other copy is free, and n is not its node.
Copyable(f, i, c, n) == Copy(f, i, 1 - c) = NoLoc /\ Copy(f, i, c).node # n

\* The number of blocks of a stored file.
Length(f) ==
  IF src[f] = Console THEN NumBlocks[f] ELSE Blocks(source[src[f]])

\* cmd_cpblock: block i of f has one copy, kept elsewhere than on n.  The free
\* block is chosen before the ping; a node found dead ends the command.
CmdCpblock(f, i, n) ==
  LET c == IF Copy(f, i, 0) = NoLoc THEN 1 ELSE 0 IN
  /\ Command("cpblock") /\ f \in table /\ i < Length(f)
  /\ Copyable(f, i, c, n)
  /\ \E b \in 0 .. Total[n] - 1 :
       /\ FirstZero(n, b)
       /\ IF Active(n)
          THEN /\ cp' = [file |-> f, index |-> i, from |-> Copy(f, i, c).node,
                         half |-> 1 - c, to |-> Loc(n, b)]
               /\ Goto(Console, "cpask")
          ELSE UNCHANGED <<cp, pc>>
  /\ Ping({n})
  /\ UNCHANGED <<nodeVars, mbox, dataVars, tableVars, cpmut, countVars, sleep, path,
                 localVars, doomed, inbox, reply, drops>>

\* filetable_cpblock asks the node that has the copy for block number
\* block->index, and waits for the content.
CpAsk ==
  /\ pc[Console] = "cpask"
  /\ SendTo(cp.from, [op |-> "recv", blockno |-> cp.index, from |-> Console,
                      content |-> Blank])
  /\ Goto(Console, "cpwait")
  /\ UNCHANGED <<nodeVars, handler, dataVars, tableVars, cpmut, countVars, sleep, path,
                 localVars, consoleVars, reply, boundVars>>

CpReceive ==
  /\ pc[Console] = "cpwait" /\ inbox # NoMsg
  /\ Goto(Console, "cpput")
  /\ UNCHANGED <<nodeVars, linkVars, dataVars, tableVars, cpmut, countVars, sleep,
                 path, localVars, consoleVars, reply, boundVars>>

\* The block received was freed by the handler that read it: what is sent is
\* its content or whatever the memory holds by then.
CpPut ==
  /\ pc[Console] = "cpput"
  /\ \E content \in {inbox, Garbage} :
       SendTo(cp.to.node, [op |-> "send", blockno |-> cp.to.blockno,
                           from |-> Nobody, content |-> content])
  /\ copies' = [copies EXCEPT ![<<cp.file, cp.index, cp.half>>] = cp.to]
  /\ Mark(cp.to)
  /\ inbox' = NoMsg /\ cp' = NoMsg /\ Goto(Console, "idle")
  /\ UNCHANGED <<libre, handler, dataVars, table, src, cpmut, countVars, sleep, path,
                 localVars, doomed, reply, boundVars>>
-----------------------------------------------------------------------------
(* datanode_handler, the DataNode, and the connection between them.        *)

\* Is the mapped block file a message points into still there?
Mapped(msg) == msg.from # Nobody => pc[msg.from] \in {"send", "alloc", "deliver"}

SentBlockEarly_M(k) ==
  /\ sent' = k
  /\ sleep' = IF k + 1 = toSend THEN [sleep EXCEPT ![waiter] = @ + 1] ELSE sleep
\* filetable_sentblock: the k-th block was sent; wake bsent.th at the last one.
SentBlock(k) ==
  /\ sent' = k
  /\ sleep' = IF k = toSend THEN [sleep EXCEPT ![waiter] = @ + 1] ELSE sleep

\* NODE_SEND, and filetable_sentblock; a broken connection goes unnoticed.
HandleSend(n) ==
  LET msg == mbox[n] IN
  /\ handler[n] /\ msg # NoMsg /\ msg.op = "send"
  /\ mbox' = [mbox EXCEPT ![n] = NoMsg]
  /\ wire' = IF up[n]
             THEN [wire EXCEPT ![n] = Append(@,
                    [blockno |-> msg.blockno,
                     content |-> IF Mapped(msg) THEN msg.content ELSE Garbage])]
             ELSE wire
  /\ SentBlock(sent + 1)
  /\ UNCHANGED <<nodeVars, handler, up, disk, tableVars, cpmut, toSend, waiter, pc,
                 path, localVars, consoleVars, reply, boundVars>>

\* NODE_RECV_BLOCK: the DataNode serves the request after the blocks sent
\* before it; if the connection breaks nobody is told.
HandleRecv(n) ==
  LET msg == mbox[n] IN
  /\ handler[n] /\ msg # NoMsg /\ msg.op = "recv"
  /\ mbox' = [mbox EXCEPT ![n] = NoMsg]
  /\ IF up[n]
     THEN /\ wire[n] = <<>>
          /\ inbox' = IF msg.blockno < Total[n] THEN disk[n][msg.blockno] ELSE Garbage
     ELSE UNCHANGED inbox
  /\ UNCHANGED <<nodeVars, handler, dataVars, tableVars, cpmut, countVars, sleep, pc,
                 path, localVars, doomed, cp, reply, boundVars>>

\* handle_request of the DataNode: a block to write.
Write(n) ==
  /\ up[n] /\ wire[n] # <<>>
  /\ disk' = [disk EXCEPT ![n][Head(wire[n]).blockno] = Head(wire[n]).content]
  /\ wire' = [wire EXCEPT ![n] = Tail(@)]
  /\ UNCHANGED <<nodeVars, linkVars, up, tableVars, cpmut, countVars, sleep, pc, path,
                 localVars, consoleVars, reply, boundVars>>

Drop(n) ==
  /\ up[n] /\ drops < MaxDrops /\ drops' = drops + 1
  /\ up' = [up EXCEPT ![n] = FALSE] /\ wire' = [wire EXCEPT ![n] = <<>>]
  /\ UNCHANGED <<nodeVars, linkVars, disk, tableVars, cpmut, countVars, sleep, pc, path,
                 localVars, consoleVars, reply, cmds>>

\* The DataNode reconnects (DataNode main loop); node_listener pings every
\* node, receive_node_info finds it inactive, and it gets a new handler.
Reconnect(n) ==
  /\ ~up[n] /\ pc[Console] # "exit"
  /\ \A m \in Node : handler[m] => mbox[m] = NoMsg
  /\ up' = [up EXCEPT ![n] = TRUE]
  /\ handler' = [m \in Node |-> m = n \/ Active(m)]
  /\ UNCHANGED <<nodeVars, mbox, wire, disk, tableVars, cpmut, countVars, sleep, pc,
                 path, localVars, consoleVars, reply, boundVars>>
-----------------------------------------------------------------------------
Cpfrom(t) == \/ Lock(t) \/ Plan(t) \/ Abort(t) \/ Balance(t) \/ Full(t) \/ Alloc(t)
             \/ Deliver(t) \/ Finish(t)
StorerStep(t) ==
  (\E f \in File : Request(t, f)) \/ WriteLocal(t) \/ Cpfrom(t) \/ Reply(t)

\* The operator gives a command; the console carries it out.
Operator ==
  \/ \E f \in File : CmdCpfrom(f) \/ CmdRm(f)
  \/ \E s \in File \X Index \X {0, 1} : CmdRmBlock(s)
  \/ \E f \in File, i \in Index, n \in Node : CmdCpblock(f, i, n)
ConsoleStep ==
  \/ Cpfrom(Console)
  \/ \E s \in doomed : RmCopy(s) \/ RmBlock(s)
  \/ RmEnd \/ CpAsk \/ CpReceive \/ CpPut
Race == \E t \in Storer : \E s \in doomed : RacingFree(t, s)

Handler(n) == HandleSend(n) \/ HandleRecv(n)

Next ==
  \/ \E t \in Storer : StorerStep(t)
  \/ Operator \/ ConsoleStep \/ Race
  \/ \E n \in Node : Handler(n) \/ Write(n) \/ Drop(n) \/ Reconnect(n)

Spec == Init /\ [][Next]_vars

\* Every thread and every DataNode keeps running; the operator need not type
\* and a lost connection need not come back.
Fairness ==
  /\ \A t \in Storer : WF_vars(StorerStep(t))
  /\ WF_vars(ConsoleStep)
  /\ \A n \in Node : WF_vars(Handler(n)) /\ WF_vars(Write(n))
FairSpec == Spec /\ Fairness
-----------------------------------------------------------------------------
(* Properties.                                                             *)

\* The types of the store's tables.  A racing allocation may mark bit -1.
StoreTypeOK ==
  /\ bitmap \in [Node -> SUBSET Int]
  /\ free \in [Node -> Int] /\ libre \in [Node -> Int]
  /\ handler \in [Node -> BOOLEAN] /\ up \in [Node -> BOOLEAN]
  /\ table \subseteq File /\ src \in [File -> Thread \cup {Nobody}]
  /\ copies \in [Slot -> Location \cup {NoLoc}]
  /\ cpmut \in Thread \cup {Nobody}
  /\ path \in [Thread -> File \cup {NoFile}]
  /\ target \in [Thread -> Node \cup {NoNode}]
  /\ doomed \subseteq Slot
  /\ local \in [File -> LocalFile \cup {NoMsg}]
  /\ source \in [Thread -> LocalFile \cup {NoMsg}]
  /\ pc \in [Thread -> {"new", "idle", "exit", "write", "lock", "plan", "send", "alloc",
                       "deliver", "reply", "done", "rm", "rmb", "cpask", "cpwait", "cpput"}]

\* filetable_remove has already released copy s of the file it is removing.
Released(s) ==
  pc[Console] = "rm" /\ s[1] = path[Console] /\ s \notin doomed
\* The copies that hold a block: of table entries and of files being stored.
Live == {s \in Slot : copies[s] # NoLoc /\ ~Released(s)}
Removing(f) == pc[Console] = "rm" /\ path[Console] = f

\* No block of a node belongs to two copies, be they of stored files or of
\* files being stored (filetable.c, nodelist.c: blocks handed out by
\* bitmap_firstzero and returned by rm, rm -b).
NoSharing == \A s1, s2 \in Live : s1 # s2 => copies[s1] # copies[s2]

\* Every copy's block is marked in its node's bitmap, so that it cannot be
\* handed out again.
BlocksMarked == \A s \in Live : copies[s].blockno \in bitmap[copies[s].node]

\* free_blocks, which balance_node and the space check use, counts the zeros
\* of the bitmap, which the allocation uses (nodelist_freeblocks: "Devuelve la
\* cantidad total de bloques libres").
FreeIsComplement == \A n \in Node : free[n] = Total[n] - Cardinality(bitmap[n])

\* The two copies of a block are never on one node.
MirrorsApart ==
  \A s \in Live : LET m == Copy(s[1], s[2], 1 - s[3])
                 IN  m # NoLoc => m.node # copies[s].node

\* A block waiting to be sent points into the mapped block file: the store
\* that mapped it has not finished (filetable_sentblock: "Avisa que termino de
\* mandarse un bloque").
NothingSentAfterUnmap == \A n \in Node : mbox[n] # NoMsg => Mapped(mbox[n])

\* While a thread distributes a file, the counter of sent blocks counts for it
\* and wakes it: no other store begins (cpmut guards bsent).
WaiterIsOwner ==
  \A t \in Thread : pc[t] \in {"send", "alloc", "deliver"} => waiter = t /\ cpmut = t

\* What a read of a block would return: the DataNode applies what was sent
\* before the request first.
Pending(n) ==
  IF mbox[n] = NoMsg \/ (mbox[n] # NoMsg /\ mbox[n].op # "send") THEN wire[n]
  ELSE Append(wire[n], [blockno |-> mbox[n].blockno, content |-> mbox[n].content])
Reads(l) ==
  LET hits == {k \in DOMAIN Pending(l.node) : Pending(l.node)[k].blockno = l.blockno}
  IN  IF hits = {} THEN disk[l.node][l.blockno] ELSE Pending(l.node)[Max(hits)].content
Good(f, i, c) ==
  Copy(f, i, c) # NoLoc /\
  Reads(Copy(f, i, c)) = Token([by |-> src[f], file |-> f], i)

\* Every copy of a stored file reads back as the block of the local file it was
\* stored from, whatever was removed, reused and stored meanwhile.
ReadsBack ==
  \A f \in table : \A i \in Index, c \in {0, 1} :
    ~Removing(f) /\ Copy(f, i, c) # NoLoc => Good(f, i, c)

\* Every block of a stored file can still be read from one of its copies, and
\* the blocks are those of one local file, even when requests share a local
\* file: no stored file is a mix of two (server.c, filetable.c).
EveryBlockReadable ==
  \A f \in table : ~Removing(f) =>
    \E l \in LocalFile :
      /\ Blocks(l) = Length(f)
      /\ \A i \in 0 .. Length(f) - 1 : \E c \in {0, 1} :
           Copy(f, i, c) # NoLoc /\ Reads(Copy(f, i, c)) = Token(l, i)

\* rm -b never takes the last copy of a block, and a stored file has all of its
\* blocks.
KeepsACopy ==
  \A f \in table, i \in Index :
    i < Length(f) => \E c \in {0, 1} : Copy(f, i, c) # NoLoc

\* An entry of the table is never replaced by another file while it is there.
EntriesAreStable ==
  [][\A f \in table \cap table' : src'[f] = src[f]]_vars

\* Every request to store a file is answered.
StoreAnswered == \A t \in Storer : pc[t] = "lock" ~> pc[t] = "done"
=============================================================================
