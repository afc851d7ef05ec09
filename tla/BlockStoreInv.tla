---------------------------- MODULE BlockStoreInv ----------------------------
(***************************************************************************)
(* The inductive invariants behind the safety properties of BlockStore.    *)
(* StoreInv holds whatever the operator types.  SpaceInv needs Discipline: *)
(* the bitmaps and the counters of free blocks are right as long as no two *)
(* threads change them but inside cpmut.                                   *)
(***************************************************************************)
EXTENDS BlockStore

\* Nothing but filetable_cpfrom, which takes cpmut, allocates or releases
\* blocks while a worker_handler may run.
Discipline == Storer = {} \/ ConsoleOps \subseteq {"cpfrom"}

Distributing == {"send", "alloc", "deliver"}
Storing == {"write", "lock", "plan", "reply"} \cup Distributing
Copying == {"cpask", "cpwait", "cpput"}

\* Storers and the console have their own control points; a thread inside
\* filetable_cpfrom has a path, and one that distributes a file its content.
Control ==
  /\ \A t \in Storer : pc[t] \in Storing \cup {"new", "done", "exit"}
  /\ pc[Console] \in (Storing \ {"write", "reply"}) \cup Copying
                     \cup {"idle", "rm", "rmb", "exit"}
  /\ \A t \in Thread : pc[t] \in Storing => path[t] \in File
  /\ \A t \in Thread : pc[t] \in Distributing =>
       source[t] \in LocalFile /\ Blocks(source[t]) > 0
  /\ next \in [Thread -> Nat]

\* cpmut, and with it bsent, belongs to the thread in add_blocks_from_file.
Locked ==
  /\ \A t \in Thread : pc[t] \in {"plan"} \cup Distributing => cpmut = t
  /\ \A t \in Thread : pc[t] \in Distributing => waiter = t

\* Only a thread that distributes a file has a t_yfile with copies, and it
\* fills the first copy of a block before the second.
Drafts ==
  \A t \in Thread, i \in Index :
    /\ pc[t] \notin Distributing => \A c \in {0, 1} : Copy(t, i, c) = NoLoc
    /\ Copy(t, i, 0) = NoLoc => Copy(t, i, 1) = NoLoc

\* A path that is not in the table holds no copies.
Absent == \A f \in File \ table, i \in Index, c \in {0, 1} : Copy(f, i, c) = NoLoc

\* balance_node chose a node other than the first copy's.
Targeted ==
  \A t \in Thread : pc[t] = "alloc" =>
    target[t] \in Node /\ target[t] # Copy(t, Current(t), 0).node

\* What rm and rm -b are about to release.
Dooming ==
  /\ pc[Console] = "rm" =>
       /\ path[Console] \in table
       /\ \A s \in doomed : s[1] = path[Console] /\ copies[s] # NoLoc
  /\ pc[Console] = "rmb" =>
       \E s \in Slot : doomed = {s} /\ s[1] \in table /\ copies[s] # NoLoc
  /\ pc[Console] \notin {"rm", "rmb"} => doomed = {}

\* The copy cpblock is about to add.
CpReady ==
  pc[Console] \in Copying =>
    /\ cp \in [file : File, index : Index, from : Node \cup {NoNode}, half : {0, 1},
               to : Location]
    /\ cp.file \in table
    /\ Copy(cp.file, cp.index, cp.half) = NoLoc
    /\ Copy(cp.file, cp.index, 1 - cp.half).node # cp.to.node

\* The two copies of a block, wherever it is held.
Apart ==
  \A h \in Holder, i \in Index :
    Copy(h, i, 0) # NoLoc /\ Copy(h, i, 1) # NoLoc
      => Copy(h, i, 0).node # Copy(h, i, 1).node

StoreInv == /\ StoreTypeOK /\ waiter \in Thread \cup {Nobody}
            /\ Control /\ Locked /\ Drafts /\ Absent /\ Targeted
            /\ Dooming /\ CpReady /\ Apart
-----------------------------------------------------------------------------
\* What Discipline means for the running program.
Quiet ==
  Storer = {} \/ (pc[Console] \in Storing \cup {"idle", "exit"} /\ doomed = {})

InRange == \A n \in Node : bitmap[n] \subseteq 0 .. Total[n] - 1

\* The block cpblock chose is still free.
CpFree ==
  pc[Console] \in Copying =>
    cp.to.blockno \in (0 .. Total[cp.to.node] - 1) \ bitmap[cp.to.node]

SpaceInv == /\ Quiet /\ InRange /\ CpFree
            /\ BlocksMarked /\ NoSharing /\ FreeIsComplement
-----------------------------------------------------------------------------
(* What is stored: every block, sent in time, readable.                    *)

AnyDistributes == \E t \in Thread : pc[t] \in Distributing

\* A store that does not expect two copies of every block: a call of send_block
\* that places nothing may then go unnoticed.
Scarce(t) == pc[t] \in Distributing /\ toSend # 2 * Blocks(source[t])

\* While there is such a store no connection is lost and cpblock adds no copy.
Undisturbed ==
  (\E t \in Thread : Scarce(t)) => /\ \A n \in Node : up[n] => up'[n]
                                   /\ pc[Console] = "cpput" => pc'[Console] = "cpput"

\* The free blocks balance_node can still find.
Space == [n \in Node |-> IF Active(n) /\ free[n] > 0 THEN free[n] ELSE 0]
Room == MapThenSumSet(LAMBDA n : Space[n], Node)

\* An entry was made by a thread that is through with it, and the console's
\* content is that of the path it stores.
Through == {"reply", "done", "exit"}
Entered ==
  /\ \A f \in table : src[f] \in Thread
  /\ \A f \in table : src[f] \in Storer => pc[src[f]] \in Through
  /\ pc[Console] \in Distributing => source[Console].file = path[Console]

\* rm -b takes one of two copies.
Spare ==
  pc[Console] = "rmb" =>
    \A s \in doomed : Copy(s[1], s[2], 0) # NoLoc /\ Copy(s[1], s[2], 1) # NoLoc

\* Has add_blocks_from_file given block i its first copy?
Placed(t, i) == i < next[t] \/ (pc[t] = "deliver" /\ i = next[t])

\* The first pass over a file gives every block a copy: there is room for what
\* it has yet to place.
First(t) ==
  LET all == Blocks(source[t]) IN
  /\ \A i \in Index : i < all /\ Placed(t, i) => Copy(t, i, 0) # NoLoc
  /\ next[t] < all =>
       /\ \A i \in Index : ~Placed(t, i) => Copy(t, i, 0) = NoLoc
       /\ all - next[t] <= Room + (IF pc[t] = "deliver" THEN 1 ELSE 0)
       /\ pc[t] = "alloc" => Active(target[t]) /\ free[target[t]] > 0
FirstPass == \A t \in Thread : Scarce(t) => First(t)

\* As long as every call of send_block saved a block, so did those of the first
\* pass.
Tally(t) ==
  /\ saved[t] <= next[t]
  /\ saved[t] = next[t] =>
       \A i \in Index : i < Blocks(source[t]) /\ Placed(t, i) => Copy(t, i, 0) # NoLoc
Tallies ==
  saved \in [Thread -> Nat] /\ \A t \in Thread : pc[t] \in Distributing => Tally(t)

KeptInv == Entered /\ Spare /\ FirstPass /\ KeepsACopy
-----------------------------------------------------------------------------
\* While a file is distributed no DataNode connects.
NoneJoins == AnyDistributes => \A n \in Node : up'[n] => up[n]

\* The nodes whose handler has a message.
Sending == {n \in Node : mbox[n] # NoMsg}

\* The blocks a store may still take: those of the active nodes, and of the
\* one it has chosen.
Takes(t) ==
  [n \in Node |-> IF Active(n) \/ (pc[t] = "alloc" /\ n = target[t]) THEN free[n] ELSE 0]
Left(t) == MapThenSumSet(LAMBDA n : Takes(t)[n], Node)

\* What has been sent, what waits to be, and what was stored are in step, and
\* the storing thread is woken at the last one.
Counts(t) ==
  LET all == Blocks(source[t])
      now == IF pc[t] = "deliver" THEN 1 ELSE 0 IN
  /\ sent \in Nat /\ toSend \in Nat \ {0}
  /\ saved[t] + now <= next[t] + now /\ next[t] + now <= 2 * all
  /\ pc[t] = "alloc" => next[t] < 2 * all
  /\ toSend = 2 * all \/ Left(t) + saved[t] + now <= toSend
  /\ sent + Cardinality(Sending) <= saved[t]
  /\ sleep[t] = IF sent = toSend THEN 1 ELSE 0
  /\ \A n \in Sending : mbox[n].op = "send" /\ mbox[n].from = t

SentInv ==
  /\ \A t \in Thread : pc[t] \in Distributing => Counts(t)
  /\ \A t \in Thread : pc[t] \notin Distributing => sleep[t] = 0
  /\ ~AnyDistributes => Sending = {}
  /\ pc[Console] \notin Copying
  /\ sleep \in [Thread -> Nat] /\ saved \in [Thread -> Nat]
  /\ mbox = [n \in Node |-> mbox[n]]
-----------------------------------------------------------------------------
\* The connections hold.
Connected == \A n \in Node : up[n]

\* No two workers store files of one name.
OwnNames ==
  \A t, u \in Storer : \A f \in Wants[t], g \in Wants[u] : Base[f] = Base[g] => t = u

\* The local file of a thread is its own.
OwnFile(t) == [by |-> t, file |-> path[t]]
Locals ==
  /\ \A t \in Storer : pc[t] \in Storing => path[t] \in Wants[t]
  /\ \A t \in Storer : pc[t] \in {"lock", "plan"} => local[Base[path[t]]] = OwnFile(t)
  /\ \A t \in Thread : pc[t] \in Distributing => source[t] = OwnFile(t)

\* The copy that nodelist_addblock filled and thread_send has yet to send.
LastHalf(t) == IF Copy(t, Current(t), 1) # NoLoc THEN 1 ELSE 0
Undelivered(s) ==
  \E t \in Thread : pc[t] = "deliver" /\ s = <<t, Current(t), LastHalf(t)>>
Chosen ==
  \A t \in Thread : pc[t] = "deliver" =>
    copies[<<t, Current(t), LastHalf(t)>>] # NoLoc /\
    copies[<<t, Current(t), LastHalf(t)>>].node = target[t]

\* The types of what travels to the DataNodes and of their disks.
Data == [by : Thread, file : File, index : Index] \cup {Garbage, Blank}
Message == [op : {"send", "recv"}, blockno : Int, from : Thread \cup {Nobody}, content : Data]
ASSUME MessageAssumption == NoMsg \notin Message
Carried ==
  /\ \A n \in Node : mbox[n] \in Message \cup {NoMsg}
  /\ \A n \in Node : wire[n] \in Seq([blockno : Int, content : Data])
  /\ wire = [n \in Node |-> wire[n]]
  /\ disk = [n \in Node |-> [b \in 0 .. Total[n] - 1 |-> disk[n][b]]]

\* The content a holder's copies are of.
Owner(h) == IF h \in Thread THEN source[h] ELSE [by |-> src[h], file |-> h]

\* Every copy that has been handed to its node reads back as its block.
Contents ==
  \A s \in Live : \A l \in {copies[s]} :
    ~Undelivered(s) => Reads(l) = Token(Owner(s[1]), s[2])

\* Every node has its handler until the FileSystem ends.
Running == (\A n \in Node : handler[n]) \/ (\A t \in Thread : pc[t] = "exit")

ReadInv == Running /\ Locals /\ Chosen /\ Carried /\ Contents

\* An entry was cut from a local file that its thread wrote for it, and has blocks.
Origin ==
  \A f \in table : \A l \in {[by |-> src[f], file |-> f]} :
    Blocks(l) > 0 /\ (src[f] \in Storer => source[src[f]] = l)
=============================================================================
